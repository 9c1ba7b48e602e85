---------------------------- MODULE TimersProofs ----------------------------
(***************************************************************************)
(* Theorems about the users of the event loop's timers: the connection to  *)
(* the uplink, the timed AKICKs, the groups, ChanFix and the bans; and     *)
(* about memos and the services in a channel.                              *)
(*                                                                         *)
(* Uplink: for every list of uplinks, every ping period and any number of  *)
(* rehashes one attempt is always under way, and a silent uplink is        *)
(* dropped in time.                                                        *)
(*                                                                         *)
(* Akick: the list of timeouts is sorted and its timer early enough, by an *)
(* invariant that is inductive together with the types.                    *)
(*                                                                         *)
(* Groups: lists hold existing accounts once, and last founders stay.  The *)
(* inductive invariant adds that no template has the flag F                *)
(* (PlainTemplates): TEMPLATE changes the entries that have the flags of a *)
(* template and looks for no founder among them.                           *)
(*                                                                         *)
(* Memos: the counts of unread memos are exact, and no memo comes from a   *)
(* sender that the recipient ignores or to one that wants none.            *)
(*                                                                         *)
(* Presence: GUARD keeps its service while users stay, and no service      *)
(* stays without a use.                                                    *)
(*                                                                         *)
(* ChanFix: a record points to its channel while there is one, and no      *)
(* operator has two entries in it; a fix passes over no one with a higher  *)
(* score.                                                                  *)
(*                                                                         *)
(* Bans: the timer deletes the bans that are over and no others, services  *)
(* lose track of no ban they have set, and an AKILL that replaces others   *)
(* leaves nobody free.                                                     *)
(*                                                                         *)
(* Akick, Groups, Memos, ChanFix and Bans take nodes off lists; what is    *)
(* left of a list is proved by induction over its length (SelectedResult). *)
(* Presence kicks users and ChanFix counts operators one after the other,  *)
(* a fold over a set, of which every step is found in the same way         *)
(* (IteratesExists).                                                       *)
(***************************************************************************)
EXTENDS Uplink, ChanFix, Lists, FiniteSets, SequenceTheorems, FiniteSetTheorems, WellFoundedInduction, TLAPS

-----------------------------------------------------------------------------
(* Uplink *)

\* One attempt under way; without uplinks there is none, and nothing runs
\* before main() calls uplink_connect().
AttemptInv ==
    /\ booting => reconn = 0 /\ conn = "none"
    /\ conn \in {"none", "connecting", "up"}
    /\ connected \in BOOLEAN /\ (connected <=> conn = "up")
    /\ ~booting /\ ~exited =>
          \/ conn = "none" /\ reconn = 1
          \/ conn # "none" /\ reconn = 0
          \/ curr = None /\ conn = "none" /\ reconn = 0

\* The time to the next ping makes up for the silence there has been.
SilenceInv ==
    connected => /\ pingleft \in 0..Period
                 /\ age \in Nat
                 /\ age + pingleft < DeadAfter + Period

Inv == AttemptInv /\ SilenceInv

LEMMA InvInit == Init => Inv
  BY DEF Init, Inv, AttemptInv, SilenceInv

\* UplinkClose ends the attempt that was under way and schedules the next.
LEMMA CloseKeeps ==
    ASSUME AttemptInv, ~exited, conn = "up", UplinkClose
    PROVE  AttemptInv' /\ ~connected'
  <1>1. ~booting /\ reconn = 0
    BY DEF AttemptInv
  <1>2. connected' = FALSE /\ conn' = "none" /\ booting' = booting
    BY DEF UplinkClose
  <1>3. reconn' = reconn + 1
    BY DEF UplinkClose
  <1>4. reconn' = 1 /\ ~booting'
    BY <1>1, <1>2, <1>3
  <1> QED BY <1>2, <1>4 DEF AttemptInv

\* uplink_connect(), from main() or from a reconn timer.
LEMMA TryKeeps ==
    ASSUME conn = "none", ~connected, connected' = connected, TryConnect(0),
           connected \in BOOLEAN, ~booting'
    PROVE  Inv'
  BY DEF TryConnect, connection_open_tcp, Inv, AttemptInv, SilenceInv

LEMMA InvNext == Inv /\ [Next]_vars => Inv'
  <1> SUFFICES ASSUME Inv, [Next]_vars PROVE Inv'
    OBVIOUS
  <1> USE UplinkAssumption
  <1>1. CASE Boot
    <2>1. conn = "none" /\ ~connected /\ reconn = 0 /\ connected \in BOOLEAN
      BY <1>1 DEF Boot, Inv, AttemptInv
    <2> QED BY <1>1, <2>1, TryKeeps DEF Boot
  <1>2. CASE Reconn
    <2>1. ~booting /\ conn = "none" /\ reconn = 1 /\ ~connected
        /\ connected \in BOOLEAN
      BY <1>2 DEF Reconn, Inv, AttemptInv
    <2>2. TryConnect(0) /\ ~booting' /\ connected' = connected
      BY <1>2, <2>1 DEF Reconn
    <2> QED BY <2>1, <2>2, TryKeeps
  <1>3. CASE HandleConnect
    <2>1. ~booting /\ reconn = 0
      BY <1>3 DEF HandleConnect, Inv, AttemptInv
    <2> QED BY <1>3, <2>1 DEF HandleConnect, Inv, AttemptInv, SilenceInv
  <1>4. CASE RecvLine
    BY <1>4 DEF RecvLine, Inv, AttemptInv, SilenceInv
  <1>5. CASE SendFails
    BY <1>5 DEF SendFails, Inv, AttemptInv, SilenceInv, pingVars
  <1>6. CASE RecvClosed
    BY <1>6, CloseKeeps DEF RecvClosed, Inv, SilenceInv
  <1>7. ASSUME Check, ~exited
        PROVE  /\ AttemptInv'
               /\ connected' => connected /\ age' = age /\ age < DeadAfter
    <2>1. CASE connected /\ age >= DeadAfter /\ UplinkClose
      BY <1>7, <2>1, CloseKeeps DEF Inv, AttemptInv
    <2>2. CASE /\ ~connected \/ age < DeadAfter
               /\ UNCHANGED <<booting, exited, curr, conn, connected, reconn,
                              age>>
      BY <2>2 DEF Inv, AttemptInv
    <2> QED BY <1>7, <2>1, <2>2 DEF Check
  <1>8. CASE PingUplink
    <2>1. CASE ~connected'
      BY <1>8, <1>7, <2>1 DEF PingUplink, Inv, SilenceInv
    <2>2. CASE connected'
      BY <1>8, <1>7, <2>2 DEF PingUplink, Inv, SilenceInv
    <2> QED BY <2>1, <2>2
  <1>9. CASE StrayPing
    <2>1. CASE ~connected'
      BY <1>9, <1>7, <2>1 DEF StrayPing, Inv, SilenceInv
    <2>2. CASE connected'
      BY <1>9, <1>7, <2>2 DEF StrayPing, Inv, SilenceInv
    <2> QED BY <2>1, <2>2
  <1>10. CASE Tick
    <2>1. AttemptInv'
      BY <1>10 DEF Tick, Inv, AttemptInv
    <2>2. ASSUME connected' PROVE SilenceInv'
      <3>1. pingleft \in 0..Period /\ pingleft # 0 /\ age \in Nat
            /\ age + pingleft < DeadAfter + Period
        BY <1>10, <2>2 DEF Tick, Due, Inv, SilenceInv
      <3>2. pingleft # None => pingleft' = pingleft - 1
        BY <1>10 DEF Tick
      <3>3. pingleft # None /\ connected
        BY <1>10, <2>2, <3>1 DEF Tick
      <3>4. age' = age + 1
        BY <1>10, <3>1, <3>3 DEF Tick
      <3> QED BY <3>1, <3>2, <3>3, <3>4 DEF SilenceInv
    <2> QED BY <2>1, <2>2 DEF Inv, SilenceInv
  <1>11. CASE \E new \in Configs, accepted \in BOOLEAN : Rehash(new, accepted)
    BY <1>11 DEF Rehash, Inv, AttemptInv, SilenceInv, pingVars
  <1>12. CASE UNCHANGED vars
    BY <1>12 DEF vars, pingVars, Inv, AttemptInv, SilenceInv
  <1> QED BY <1>1, <1>2, <1>3, <1>4, <1>5, <1>6, <1>8, <1>9, <1>10, <1>11,
             <1>12 DEF Next

\* Exactly one connection or reconn timer is under way (uplink.c:163, 186).
THEOREM AlwaysReconnecting == Spec => []OneAttempt
  <1>1. Inv => OneAttempt
    BY DEF Inv, AttemptInv, OneAttempt
  <1> QED BY <1>1, InvInit, InvNext, PTL DEF Spec

\* A silent uplink is dropped within DeadAfter and one period (packet.c:66).
THEOREM DeadUplinksDropped == Spec => []SilentUplinkDropped
  <1>1. Inv => SilentUplinkDropped
    BY UplinkAssumption DEF Inv, SilenceInv, SilentUplinkDropped
  <1> QED BY <1>1, InvInit, InvNext, PTL DEF Spec

-----------------------------------------------------------------------------
(* Induction over the natural numbers, for a set of them. *)

LEMMA LeastNat ==
    ASSUME NEW T \in SUBSET Nat, T # {}
    PROVE  \E n \in T : \A m \in T : n <= m
  <1> DEFINE R == {ss \in Nat \X Nat : ss[1] < ss[2]}
  <1>1. IsWellFoundedOn(R, Nat)
    BY NatLessThanWellFounded DEF OpToRel
  <1>2. \E x \in T : \A y \in T : <<y, x>> \notin R
    <2> HIDE DEF R
    <2> QED BY <1>1, WFMin
  <1>3. \A x, y \in Nat : <<y, x>> \in R <=> y < x
    OBVIOUS
  <1> HIDE DEF R
  <1>4. PICK x \in T : \A y \in T : <<y, x>> \notin R
    BY <1>2
  <1>5. \A m \in T : ~(m < x)
    BY <1>3, <1>4
  <1> QED BY <1>5

LEMMA NatInductionSet ==
    ASSUME NEW S, 0 \in S, \A n \in Nat : n \in S => n + 1 \in S
    PROVE  Nat \subseteq S
  <1> SUFFICES ASSUME ~(Nat \subseteq S) PROVE FALSE
    OBVIOUS
  <1>1. PICK n \in Nat \ S : \A m \in Nat \ S : n <= m
    BY LeastNat
  <1>2. n # 0 /\ n - 1 \in Nat /\ n - 1 \in S
    BY <1>1
  <1> QED BY <1>1, <1>2

-----------------------------------------------------------------------------
(* Lists from which nodes are deleted. *)

\* The recursive function in Selected.
Selects(s, I, n, f) ==
    f = [m \in 0 .. n |-> IF m = 0 THEN <<>>
                          ELSE IF m \in I THEN Append(f[m - 1], s[m]) ELSE f[m - 1]]

LEMMA SelectsAt ==
    ASSUME NEW s, NEW I, NEW n \in Nat, NEW f, Selects(s, I, n, f), NEW m \in 0 .. n
    PROVE  f[m] = IF m = 0 THEN <<>>
                  ELSE IF m \in I THEN Append(f[m - 1], s[m]) ELSE f[m - 1]
  BY Zenon DEF Selects

LEMMA SelectsExists ==
    ASSUME NEW s, NEW I, NEW n \in Nat
    PROVE  \E f : Selects(s, I, n, f)
  <1> DEFINE S == {m \in Nat : \E f : Selects(s, I, m, f)}
  <1>1. 0 \in S
    <2> DEFINE f == [m \in 0 .. 0 |-> <<>>]
    <2>1. f = [m \in 0 .. 0 |-> IF m = 0 THEN <<>>
                          ELSE IF m \in I THEN Append(f[m - 1], s[m]) ELSE f[m - 1]]
      <3>1. \A m \in 0 .. 0 : m = 0
        OBVIOUS
      <3> QED BY <3>1, Zenon
    <2> QED BY <2>1, Zenon DEF Selects
  <1>2. ASSUME NEW m \in Nat, m \in S PROVE m + 1 \in S
    <2>1. PICK f : Selects(s, I, m, f)
      BY <1>2
    <2> DEFINE V(g, k) == IF k = 0 THEN <<>>
                          ELSE IF k \in I THEN Append(g[k - 1], s[k]) ELSE g[k - 1]
               g == [k \in 0 .. m + 1 |-> V(f, k)]
    <2>2. ASSUME NEW k \in 0 .. m PROVE g[k] = f[k]
      <3>1. k \in 0 .. m + 1
        OBVIOUS
      <3>2. f[k] = IF k = 0 THEN <<>>
                   ELSE IF k \in I THEN Append(f[k - 1], s[k]) ELSE f[k - 1]
        BY <2>1, Zenon DEF Selects
      <3> QED BY <3>1, <3>2, Zenon
    <2>3. \A k \in 0 .. m + 1 : V(f, k) = V(g, k)
      <3>1. \A k \in 0 .. m + 1 : k # 0 => k - 1 \in 0 .. m
        OBVIOUS
      <3> HIDE DEF g
      <3> QED BY <3>1, <2>2, Zenon
    <2>4. g = [k \in 0 .. m + 1 |-> V(g, k)]
      <3> DEFINE h == [k \in 0 .. m + 1 |-> V(g, k)]
      <3>1. \A k \in 0 .. m + 1 : g[k] = h[k]
        BY <2>3, Zenon
      <3> QED BY <3>1, <2>3, Zenon
    <2>5. Selects(s, I, m + 1, g)
      BY <2>4, Zenon DEF Selects
    <2> QED BY <2>5
  <1> HIDE DEF S
  <1>3. Nat \subseteq S
    BY <1>1, <1>2, NatInductionSet
  <1> QED BY <1>3 DEF S

LEMMA SelectedIs ==
    ASSUME NEW s, NEW I, Len(s) \in Nat
    PROVE  \E f : Selects(s, I, Len(s), f) /\ Selected(s, I) = f[Len(s)]
  <1>1. PICK f : Selects(s, I, Len(s), f)
    BY SelectsExists
  <1> DEFINE F == CHOOSE g : Selects(s, I, Len(s), g)
  <1>2. Selects(s, I, Len(s), F)
    BY <1>1, Zenon
  <1>3. Selected(s, I) = F[Len(s)]
    BY Zenon DEF Selected, Selects
  <1> QED BY <1>2, <1>3, Zenon

\* h takes the positions of t to those of the first n of s that are in I.
Embeds(t, s, I, n, h) ==
    /\ h \in [1 .. Len(t) -> {i \in 1 .. n : i \in I}]
    /\ \A j, k \in 1 .. Len(t) : j < k => h[j] < h[k]
    /\ \A i \in 1 .. n : i \in I => \E k \in 1 .. Len(t) : h[k] = i
    /\ \A k \in 1 .. Len(t) : t[k] = s[h[k]]

LEMMA EmbedsMore ==
    ASSUME NEW S, NEW s \in Seq(S), NEW t \in Seq(S), NEW I, NEW n \in Nat, n + 1 \in 1 .. Len(s),
           NEW h, Embeds(t, s, I, n, h)
    PROVE  /\ n + 1 \in I => \E g : Embeds(Append(t, s[n + 1]), s, I, n + 1, g)
           /\ n + 1 \notin I => Embeds(t, s, I, n + 1, h)
  <1> DEFINE J(m) == {i \in 1 .. m : i \in I}
  <1>0. J(n) \subseteq J(n + 1) /\ J(n) \subseteq 1 .. n
    OBVIOUS
  <1>1. ASSUME n + 1 \in I
        PROVE  \E g : Embeds(Append(t, s[n + 1]), s, I, n + 1, g)
    <2> DEFINE u == Append(t, s[n + 1])
               l == Len(t)
               g == [k \in 1 .. l + 1 |-> IF k = l + 1 THEN n + 1 ELSE h[k]]
    <2>1. l \in Nat /\ Len(u) = l + 1 /\ \A k \in 1 .. l : u[k] = t[k]
      OBVIOUS
    <2>2. u[l + 1] = s[n + 1]
      OBVIOUS
    <2> HIDE DEF u, l
    <2>3. h \in [1 .. l -> J(n)]
      BY <1>0 DEF Embeds, l
    <2>4. g \in [1 .. l + 1 -> J(n + 1)]
      <3>1. n + 1 \in J(n + 1)
        BY <1>1
      <3>2. \A k \in 1 .. l + 1 : k # l + 1 => h[k] \in J(n + 1)
        BY <2>1, <2>3, <1>0
      <3> HIDE DEF J
      <3> QED BY <3>1, <3>2
    <2>5. \A k \in 1 .. l : g[k] = h[k] /\ h[k] \in 1 .. n
      BY <2>1, <2>3, <1>0
    <2>6. g[l + 1] = n + 1
      BY <2>1
    <2> HIDE DEF g
    <2>7. \A j, k \in 1 .. l + 1 : j < k => g[j] < g[k]
      <3> SUFFICES ASSUME NEW j \in 1 .. l + 1, NEW k \in 1 .. l + 1, j < k PROVE g[j] < g[k]
        OBVIOUS
      <3>1. j \in 1 .. l
        BY <2>1
      <3>2. CASE k = l + 1
        BY <3>1, <3>2, <2>5, <2>6
      <3>3. CASE k # l + 1
        <4>1. k \in 1 .. l
          BY <3>3, <2>1
        <4>2. h[j] < h[k]
          BY <3>1, <4>1 DEF Embeds, l
        <4> QED BY <3>1, <4>1, <4>2, <2>5
      <3> QED BY <3>2, <3>3
    <2>8. \A i \in 1 .. n + 1 : i \in I => \E k \in 1 .. l + 1 : g[k] = i
      <3> SUFFICES ASSUME NEW i \in 1 .. n + 1, i \in I PROVE \E k \in 1 .. l + 1 : g[k] = i
        OBVIOUS
      <3>1. CASE i = n + 1
        BY <3>1, <2>1, <2>6
      <3>2. CASE i # n + 1
        <4>1. i \in 1 .. n
          BY <3>2
        <4>2. PICK k \in 1 .. l : h[k] = i
          BY <4>1 DEF Embeds, l
        <4>3. k \in 1 .. l + 1
          BY <2>1
        <4>4. g[k] = i
          BY <4>2, <2>5
        <4> QED BY <4>3, <4>4
      <3> QED BY <3>1, <3>2
    <2>9. \A k \in 1 .. l + 1 : u[k] = s[g[k]]
      <3> SUFFICES ASSUME NEW k \in 1 .. l + 1 PROVE u[k] = s[g[k]]
        OBVIOUS
      <3>1. CASE k = l + 1
        BY <3>1, <2>2, <2>6
      <3>2. CASE k # l + 1
        <4>1. k \in 1 .. l
          BY <3>2, <2>1
        <4>2. t[k] = s[h[k]]
          BY <4>1 DEF Embeds, l
        <4> QED BY <4>1, <4>2, <2>1, <2>5
      <3> QED BY <3>1, <3>2
    <2>10. Embeds(u, s, I, n + 1, g)
      BY <2>1, <2>4, <2>7, <2>8, <2>9 DEF Embeds
    <2> QED BY <2>10 DEF u
  <1>2. ASSUME n + 1 \notin I
        PROVE  Embeds(t, s, I, n + 1, h)
    <2>1. \A i \in 1 .. n + 1 : i \in I => i \in 1 .. n
      BY <1>2
    <2>2. J(n + 1) = J(n)
      BY <2>1
    <2> QED BY <2>1, <2>2 DEF Embeds
  <1> QED BY <1>1, <1>2

\* What is left of a list is made of its elements at the positions kept, each
\* of them once and in their order.
LEMMA SelectedResult ==
    ASSUME NEW S, NEW s \in Seq(S), NEW I
    PROVE  /\ Selected(s, I) \in Seq(S)
           /\ \E h : Embeds(Selected(s, I), s, I, Len(s), h)
  <1>1. Len(s) \in Nat
    OBVIOUS
  <1>2. PICK f : Selects(s, I, Len(s), f) /\ Selected(s, I) = f[Len(s)]
    BY <1>1, SelectedIs
  <1> DEFINE T == {n \in Nat : n <= Len(s) => f[n] \in Seq(S) /\ \E h : Embeds(f[n], s, I, n, h)}
  <1>3. 0 \in T
    <2>1. 0 \in 0 .. Len(s)
      BY <1>1
    <2>2. f[0] = <<>>
      <3>1. f[0] = IF 0 = 0 THEN <<>>
                   ELSE IF 0 \in I THEN Append(f[0 - 1], s[0]) ELSE f[0 - 1]
        BY <2>1, <1>2, Zenon DEF Selects
      <3> QED BY <3>1
    <2>3. Embeds(<<>>, s, I, 0, <<>>)
      BY DEF Embeds
    <2>4. f[0] \in Seq(S) /\ Embeds(f[0], s, I, 0, <<>>)
      BY <2>2, <2>3
    <2> HIDE DEF Embeds
    <2> QED BY <2>4
  <1>4. ASSUME NEW n \in Nat, n \in T PROVE n + 1 \in T
    <2> SUFFICES ASSUME n + 1 <= Len(s)
                 PROVE  f[n + 1] \in Seq(S) /\ \E h : Embeds(f[n + 1], s, I, n + 1, h)
      OBVIOUS
    <2>1. n + 1 \in 0 .. Len(s) /\ n + 1 # 0 /\ (n + 1) - 1 = n /\ n + 1 \in 1 .. Len(s)
      BY <1>1
    <2>2. f[n + 1] = IF n + 1 \in I THEN Append(f[n], s[n + 1]) ELSE f[n]
      <3>1. f[n + 1] = IF n + 1 = 0 THEN <<>>
                       ELSE IF n + 1 \in I THEN Append(f[(n + 1) - 1], s[n + 1]) ELSE f[(n + 1) - 1]
        BY <2>1, <1>1, <1>2, SelectsAt
      <3> QED BY <3>1, <2>1
    <2>3. f[n] \in Seq(S) /\ s[n + 1] \in S
      BY <1>4, <1>1, <2>1
    <2>4. PICK h : Embeds(f[n], s, I, n, h)
      BY <1>4, <1>1
    <2> QED BY <2>1, <2>2, <2>3, <2>4, EmbedsMore
  <1> HIDE DEF T
  <1>5. Nat \subseteq T
    BY <1>3, <1>4, NatInductionSet
  <1> QED BY <1>1, <1>2, <1>5 DEF T

-----------------------------------------------------------------------------
(* Loops over a list.  FoldLeft() is a recursion over the sets of positions:  *)
(* the function it picks exists, and its values at the first positions are    *)
(* what the loop goes through.                                                *)

MaxOf(S) == CHOOSE x \in S : \A y \in S : x >= y

LEMMA MaxIs ==
    ASSUME NEW n \in Nat, NEW s \in SUBSET (1 .. n), s # {}
    PROVE  MaxOf(s) \in s /\ \A y \in s : y <= MaxOf(s)
  <1> DEFINE T == {k \in Nat : n - k \in s}
  <1>1. T # {}
    <2>1. PICK y \in s : TRUE
      OBVIOUS
    <2>2. n - y \in Nat /\ n - (n - y) = y
      BY <2>1
    <2> QED BY <2>1, <2>2
  <1>2. PICK k \in T : \A m \in T : k <= m
    <2>1. T \subseteq Nat
      OBVIOUS
    <2> HIDE DEF T
    <2> QED BY <1>1, <2>1, LeastNat
  <1>3. n - k \in s /\ \A y \in s : n - k >= y
    <2>1. \A y \in s : n - y \in T
      OBVIOUS
    <2> QED BY <1>2, <2>1
  <1>4. MaxOf(s) \in s /\ \A y \in s : MaxOf(s) >= y
    BY <1>3, Zenon DEF MaxOf
  <1> QED BY <1>4

LEMMA MaxOfFirst == ASSUME NEW n \in Nat \ {0} PROVE MaxOf(1 .. n) = n /\ (1 .. n) \ {n} = 1 .. n - 1
  <1>1. MaxOf(1 .. n) \in 1 .. n /\ \A y \in 1 .. n : y <= MaxOf(1 .. n)
    <2>1. 1 .. n # {} /\ (1 .. n) \in SUBSET (1 .. n) /\ n \in Nat
      OBVIOUS
    <2> QED BY <2>1, MaxIs
  <1>2. n \in 1 .. n
    OBVIOUS
  <1>3. MaxOf(1 .. n) = n
    BY <1>1, <1>2
  <1>4. (1 .. n) \ {n} = 1 .. n - 1
    OBVIOUS
  <1> QED BY <1>3, <1>4

\* The recursive function of a loop over the first n elements of order.
Iterates(g, step, s0, order, n) ==
    g = [s \in SUBSET (1 .. n) |->
           IF s = {} THEN s0 ELSE step[<<g[s \ {MaxOf(s)}], order[MaxOf(s)]>>]]

Holds(order, n, U) == \A i \in 1 .. n : order[i] \in U
HasIterate(X, step, s0, order, n) == \E g \in [SUBSET (1 .. n) -> X] : Iterates(g, step, s0, order, n)

LEMMA IteratesExists ==
    ASSUME NEW X, NEW U, NEW step \in [X \X U -> X], NEW s0 \in X,
           NEW n \in Nat, NEW order, Holds(order, n, U)
    PROVE  HasIterate(X, step, s0, order, n)
  <1> DEFINE Q(m) == \E g \in [SUBSET (1 .. m) -> X] : Iterates(g, step, s0, order, m)
             S == {m \in Nat : m <= n => Q(m)}
  <1>1. 0 \in S
    <2> DEFINE g == [s \in SUBSET (1 .. 0) |-> s0]
    <2>1. \A s \in SUBSET (1 .. 0) : s = {}
      OBVIOUS
    <2>2. g = [s \in SUBSET (1 .. 0) |->
                 IF s = {} THEN s0 ELSE step[<<g[s \ {MaxOf(s)}], order[MaxOf(s)]>>]]
      BY <2>1, Zenon
    <2>3. g \in [SUBSET (1 .. 0) -> X]
      OBVIOUS
    <2>4. Iterates(g, step, s0, order, 0)
      BY <2>2, Zenon DEF Iterates
    <2> HIDE DEF g
    <2> QED BY <2>3, <2>4
  <1>2. ASSUME NEW m \in Nat, m \in S PROVE m + 1 \in S
    <2> HIDE DEF Q
    <2> SUFFICES ASSUME m + 1 <= n PROVE Q(m + 1)
      OBVIOUS
    <2>0. Q(m)
      BY <1>2
    <2>1. PICK g \in [SUBSET (1 .. m) -> X] : Iterates(g, step, s0, order, m)
      BY <2>0 DEF Q
    <2> DEFINE D == SUBSET (1 .. m + 1)
               V(f, s) == IF s = {} THEN s0 ELSE step[<<f[s \ {MaxOf(s)}], order[MaxOf(s)]>>]
               h == [s \in D |-> IF m + 1 \in s THEN step[<<g[s \ {m + 1}], order[m + 1]>>] ELSE g[s]]
    <2>2. \A s \in D : s \ {m + 1} \in SUBSET (1 .. m) /\ (m + 1 \notin s => s \in SUBSET (1 .. m))
      OBVIOUS
    <2>3. h \in [D -> X]
      <3>1. order[m + 1] \in U
        BY DEF Holds
      <3>2. \A s \in D : m + 1 \in s => step[<<g[s \ {m + 1}], order[m + 1]>>] \in X
        BY <2>2, <3>1
      <3>3. \A s \in D : m + 1 \notin s => g[s] \in X
        BY <2>2
      <3> HIDE DEF D
      <3> QED BY <3>2, <3>3
    <2>4. \A s \in SUBSET (1 .. m) : s \in D /\ h[s] = g[s]
      <3>1. \A s \in SUBSET (1 .. m) : s \in D /\ m + 1 \notin s
        OBVIOUS
      <3> HIDE DEF D
      <3> QED BY <3>1
    <2>5. \A s \in SUBSET (1 .. m) : g[s] = V(g, s)
      BY <2>1, Zenon DEF Iterates
    <2>6. ASSUME NEW s \in D PROVE h[s] = V(h, s)
      <3>1. CASE m + 1 \in s
        <4>1. MaxOf(s) = m + 1
          <5>1. s # {} /\ m + 1 \in Nat
            BY <3>1
          <5>2. MaxOf(s) \in s /\ \A y \in s : y <= MaxOf(s)
            BY <5>1, MaxIs
          <5>3. MaxOf(s) \in 1 .. m + 1
            BY <5>2
          <5> QED BY <5>2, <5>3, <3>1
        <4>2. h[s] = step[<<g[s \ {m + 1}], order[m + 1]>>]
          BY <3>1
        <4>3. h[s \ {m + 1}] = g[s \ {m + 1}]
          BY <2>2, <2>4
        <4>4. s # {}
          BY <3>1
        <4> HIDE DEF h
        <4>5. h[s] = step[<<h[s \ {MaxOf(s)}], order[MaxOf(s)]>>]
          BY <4>1, <4>2, <4>3, Zenon
        <4> QED BY <4>4, <4>5, Zenon
      <3>2. CASE m + 1 \notin s
        <4>1. s \in SUBSET (1 .. m)
          BY <2>2, <3>2
        <4>2. s \ {MaxOf(s)} \in SUBSET (1 .. m)
          BY <4>1
        <4>3. h[s] = g[s] /\ h[s \ {MaxOf(s)}] = g[s \ {MaxOf(s)}]
          BY <2>4, <4>1, <4>2
        <4>4. g[s] = V(g, s)
          BY <2>5, <4>1
        <4> HIDE DEF h
        <4>5. V(g, s) = V(h, s)
          BY <4>3, Zenon
        <4> QED BY <4>3, <4>4, <4>5, Zenon
      <3> QED BY <3>1, <3>2
    <2>7. h = [s \in D |-> V(h, s)]
      <3>1. h = [s \in D |-> h[s]]
        OBVIOUS
      <3> HIDE DEF h, D, V
      <3> QED BY <2>6, <3>1, Zenon
    <2>8. Iterates(h, step, s0, order, m + 1)
      <3> HIDE DEF h
      <3> QED BY <2>7, Zenon DEF Iterates
    <2> HIDE DEF h
    <2> QED BY <2>3, <2>8 DEF Q
  <1> HIDE DEF S, Q
  <1>3. Nat \subseteq S
    BY <1>1, <1>2, NatInductionSet
  <1>4. Q(n)
    BY <1>3 DEF S
  <1> QED BY <1>4 DEF Q, HasIterate

-----------------------------------------------------------------------------
(* Akick: the timer of the timed AKICKs. *)

CONSTANTS Channels, Entities, Masks, Matches, Mixed, Durations, MaxTimeouts

VARIABLES chanacs, akickdel_list, akickdel_next

K == INSTANCE Akick

KTimeouts == [chan : Channels, target : K!Targets, expiration : Int, loaded : BOOLEAN]
AkickEntries == [level : SUBSET {"b", "v"}, expires : {None} \union Int]

Sorted(l) == \A i, j \in DOMAIN l : i <= j => l[i].expiration <= l[j].expiration

\* The timer at next runs no later than any timeout of l that AKICK ADD made.
Covered(l, next) ==
    \A i \in DOMAIN l : ~l[i].loaded => next # None /\ next <= l[i].expiration

TimersInv == K!TypeOK /\ K!TimerCoversAkicks

LEMMA TimersInvParts ==
    TimersInv <=> /\ chanacs \in [Channels -> [K!Targets -> AkickEntries]]
                  /\ akickdel_list \in Seq(KTimeouts)
                  /\ akickdel_next \in {None} \union Int
                  /\ Sorted(akickdel_list) /\ Covered(akickdel_list, akickdel_next)
  BY Zenon DEF TimersInv, K!TypeOK, K!TimerCoversAkicks, Sorted, Covered, KTimeouts, AkickEntries

LEMMA TimersInvParts2 ==
    TimersInv' <=> /\ chanacs' \in [Channels -> [K!Targets -> AkickEntries]]
                   /\ akickdel_list' \in Seq(KTimeouts)
                   /\ akickdel_next' \in {None} \union Int
                   /\ Sorted(akickdel_list') /\ Covered(akickdel_list', akickdel_next')
  BY Zenon DEF TimersInv, K!TypeOK, K!TimerCoversAkicks, Sorted, Covered, KTimeouts, AkickEntries

LEMMA KSelected == ASSUME NEW s, NEW I PROVE K!Selected(s, I) = Selected(s, I)
  BY Zenon DEF K!Selected, Selected

\* A timeout is put where the list stays sorted.
LEMMA AddedSorted ==
    ASSUME NEW l \in Seq(KTimeouts), Sorted(l), NEW to \in KTimeouts
    PROVE  LET r == K!akick_add_timeout(l, to)
           IN  /\ r \in Seq(KTimeouts) /\ Sorted(r)
               /\ \A i \in DOMAIN r : r[i] = to \/ \E j \in DOMAIN l : r[i] = l[j]
  <1> DEFINE n == Len(l)
             Past(k) == \A i \in k + 1 .. n : l[i].expiration > to.expiration
             P(k) == (k > 0 => l[k].expiration <= to.expiration) /\ Past(k)
             last == CHOOSE k \in 0 .. n : P(k)
             r == K!akick_add_timeout(l, to)
  <1>1. n \in Nat /\ DOMAIN l = 1 .. n /\ \A i \in 1 .. n : l[i] \in KTimeouts
    OBVIOUS
  <1>2. to.expiration \in Int /\ \A i \in 1 .. n : l[i].expiration \in Int
    BY <1>1 DEF KTimeouts
  <1>3. \E k \in 0 .. n : P(k)
    <2> DEFINE T == {k \in Nat : k <= n /\ Past(k)}
    <2>1. n \in T
      BY <1>1
    <2>2. PICK k \in T : \A m \in T : k <= m
      <3> HIDE DEF T
      <3>1. T \subseteq Nat
        BY DEF T
      <3> QED BY <2>1, <3>1, LeastNat
    <2>3. ASSUME k > 0 PROVE l[k].expiration <= to.expiration
      <3>0. k \in Nat /\ k <= n /\ Past(k)
        BY <2>2
      <3>a. k - 1 \in Nat /\ k - 1 <= n /\ ~(k <= k - 1)
        BY <3>0, <2>3, <1>1
      <3>b. k - 1 \notin T
        <4> HIDE DEF T
        <4> QED BY <3>a, <2>2
      <3>1. ~Past(k - 1)
        BY <3>a, <3>b
      <3>2. PICK i \in (k - 1) + 1 .. n : ~(l[i].expiration > to.expiration)
        BY <3>1
      <3>3. i = k /\ i \in 1 .. n
        <4>1. i >= k /\ i \in Nat /\ i <= n
          BY <3>0, <3>2, <1>1, <2>3
        <4>2. ~(i >= k + 1)
          BY <3>0, <3>2, <4>1, <1>1
        <4> QED BY <4>1, <4>2, <3>0, <2>3
      <3> QED BY <3>2, <3>3, <1>2
    <2> QED BY <2>2, <2>3
  <1>4. last \in 0 .. n /\ P(last)
    <2> HIDE DEF P
    <2> QED BY <1>3, Zenon
  <1>4a. last \in 0 .. n
    BY <1>4
  <1>5. r = SubSeq(l, 1, last) \o <<to>> \o SubSeq(l, last + 1, n)
    <2>1. r = SubSeq(l, 1, (last + 1) - 1) \o <<to>> \o SubSeq(l, last + 1, n)
      BY Zenon DEF K!akick_add_timeout, K!InsertAt
    <2>2. (last + 1) - 1 = last
      <3> HIDE DEF last
      <3> QED BY <1>4
    <2> QED BY <2>1, <2>2, Zenon
  <1> HIDE DEF last, r
  <1>6. /\ r \in Seq(KTimeouts) /\ Len(r) = n + 1
        /\ \A i \in 1 .. last : r[i] = l[i]
        /\ r[last + 1] = to
        /\ \A i \in last + 2 .. n + 1 : r[i] = l[i - 1]
    <2> DEFINE p == SubSeq(l, 1, last)
               q == SubSeq(l, last + 1, n)
    <2>1. /\ p \in Seq(KTimeouts) /\ Len(p) = last /\ \A i \in 1 .. last : p[i] = l[i]
      BY <1>1, <1>4
    <2>2. /\ q \in Seq(KTimeouts) /\ Len(q) = n - last /\ \A i \in 1 .. n - last : q[i] = l[last + i]
      <3>1. last + 1 \in 1 .. n + 1 /\ n \in Nat
        BY <1>1, <1>4a
      <3>2. q \in Seq(KTimeouts) /\ Len(q) = (n - (last + 1)) + 1
        BY <3>1, <1>1
      <3>3. \A i \in 1 .. (n - (last + 1)) + 1 : q[i] = l[(last + 1) + (i - 1)]
        BY <3>1, <1>1
      <3>4. (n - (last + 1)) + 1 = n - last
        BY <1>1, <1>4a
      <3>5. \A i \in 1 .. n - last : (last + 1) + (i - 1) = last + i
        BY <1>1, <1>4a
      <3> HIDE DEF q
      <3> QED BY <3>2, <3>3, <3>4, <3>5
    <2> HIDE DEF p, q
    <2>3. <<to>> \in Seq(KTimeouts) /\ Len(<<to>>) = 1 /\ <<to>>[1] = to
      OBVIOUS
    <2> DEFINE v == p \o <<to>>
    <2>4. v \in Seq(KTimeouts) /\ Len(v) = last + 1 /\ v[last + 1] = to /\ \A i \in 1 .. last : v[i] = l[i]
      BY <2>1, <2>3, <1>4
    <2> HIDE DEF v
    <2>5. r = v \o q
      BY <1>5 DEF p, q, v
    <2>6. r \in Seq(KTimeouts) /\ Len(r) = n + 1
      BY <2>5, <2>4, <2>2, <1>4, <1>1
    <2>7. \A i \in 1 .. last + 1 : r[i] = v[i]
      BY <2>5, <2>4, <2>2, <1>4
    <2>8. \A i \in last + 2 .. n + 1 : r[i] = q[i - (last + 1)]
      BY <2>5, <2>4, <2>2, <1>4, <1>1
    <2>9. ASSUME NEW i \in last + 2 .. n + 1 PROVE r[i] = l[i - 1]
      <3>1. i - (last + 1) \in 1 .. n - last /\ last + (i - (last + 1)) = i - 1
        BY <1>4a, <1>1
      <3> QED BY <3>1, <2>8, <2>2
    <2> QED BY <2>6, <2>7, <2>4, <2>9, <1>4
  <1>7. Sorted(r)
    <2> SUFFICES ASSUME NEW i \in 1 .. n + 1, NEW j \in 1 .. n + 1, i <= j
                 PROVE  r[i].expiration <= r[j].expiration
      BY <1>6 DEF Sorted
    <2> DEFINE E(x) == IF x <= last THEN l[x].expiration
                       ELSE IF x = last + 1 THEN to.expiration ELSE l[x - 1].expiration
    <2>1. ASSUME NEW x \in 1 .. n + 1 PROVE r[x].expiration = E(x)
      BY <1>6, <1>4, <1>1
    <2>a. \A x, y \in 1 .. n : x <= y => l[x].expiration <= l[y].expiration
      BY <1>1 DEF Sorted
    <2>2. \A x \in 1 .. last : x \in 1 .. n /\ l[x].expiration <= to.expiration
      <3> SUFFICES ASSUME NEW x \in 1 .. last
                   PROVE x \in 1 .. n /\ l[x].expiration <= to.expiration
        OBVIOUS
      <3>1. last > 0 /\ x \in 1 .. n /\ last \in 1 .. n /\ x <= last
        BY <1>4, <1>1
      <3>2. l[last].expiration <= to.expiration
        BY <3>1, <1>4
      <3>3. l[x].expiration <= l[last].expiration
        BY <3>1, <2>a
      <3> QED BY <3>1, <3>2, <3>3, <1>2
    <2>3. \A x \in last + 1 .. n : x \in 1 .. n /\ to.expiration < l[x].expiration
      BY <1>4, <1>1, <1>2
    <2>4. E(i) <= E(j)
      <3>1. CASE j <= last
        <4>1. i <= last /\ i \in 1 .. n /\ j \in 1 .. n
          BY <3>1, <1>4, <1>1
        <4> QED BY <3>1, <4>1, <2>a
      <3>2. CASE j = last + 1
        <4>1. CASE i <= last
          <5>1. i \in 1 .. last /\ ~(j <= last)
            BY <4>1, <3>2, <1>4
          <5> QED BY <4>1, <5>1, <3>2, <2>2
        <4>2. CASE i = last + 1
          BY <4>2, <3>2, <1>2, <1>4
        <4> QED BY <4>1, <4>2, <3>2, <1>4, <1>1
      <3>3. CASE j > last + 1
        <4>1. j - 1 \in last + 1 .. n /\ ~(j <= last) /\ j # last + 1 /\ j - 1 \in 1 .. n
          BY <3>3, <1>4, <1>1
        <4>2. CASE i <= last
          <5>1. i \in 1 .. last
            BY <4>2, <1>4
          <5>2. l[i].expiration <= to.expiration /\ to.expiration < l[j - 1].expiration
            BY <5>1, <4>1, <2>2, <2>3
          <5>3. i \in 1 .. n
            BY <5>1, <2>2
          <5> QED BY <5>2, <5>3, <4>1, <4>2, <1>2
        <4>3. CASE i = last + 1
          <5>1. ~(i <= last)
            BY <4>3, <1>4
          <5> QED BY <5>1, <4>3, <4>1, <2>3, <1>2
        <4>4. CASE i > last + 1
          <5>1. ~(i <= last) /\ i # last + 1 /\ i - 1 \in 1 .. n /\ i - 1 <= j - 1
            BY <4>4, <1>4, <1>1
          <5> QED BY <5>1, <4>1, <2>a
        <4> QED BY <4>2, <4>3, <4>4, <1>4, <1>1
      <3> QED BY <3>1, <3>2, <3>3, <1>4, <1>1
    <2> HIDE DEF E
    <2> QED BY <2>1, <2>4
  <1>8. ASSUME NEW i \in DOMAIN r PROVE r[i] = to \/ \E j \in DOMAIN l : r[i] = l[j]
    <2>1. i \in 1 .. n + 1
      BY <1>6
    <2>2. CASE i <= last
      <3>1. i \in 1 .. last /\ i \in 1 .. n
        BY <2>1, <2>2, <1>4, <1>1
      <3> QED BY <3>1, <1>6, <1>1
    <2>3. CASE i = last + 1
      BY <2>3, <1>6
    <2>4. CASE i > last + 1
      <3>1. i \in last + 2 .. n + 1 /\ i - 1 \in 1 .. n
        BY <2>1, <2>4, <1>4, <1>1
      <3> QED BY <3>1, <1>6, <1>1
    <2> QED BY <2>1, <2>2, <2>3, <2>4, <1>4, <1>1
  <1> QED BY <1>6, <1>7, <1>8, Zenon DEF r

\* Some timeouts are taken off the list, and the timer is left as it is.
LEMMA SublistSorted ==
    ASSUME NEW l \in Seq(KTimeouts), Sorted(l), NEW next, Covered(l, next), NEW I
    PROVE  LET r == K!Selected(l, I)
           IN  r \in Seq(KTimeouts) /\ Sorted(r) /\ Covered(r, next)
  <1> DEFINE r == Selected(l, I)
  <1>1. r \in Seq(KTimeouts) /\ \E h : Embeds(r, l, I, Len(l), h)
    BY SelectedResult, Zenon
  <1>2. PICK h : Embeds(r, l, I, Len(l), h)
    BY <1>1
  <1> HIDE DEF r
  <1>3. \A k \in DOMAIN r : h[k] \in DOMAIN l /\ r[k] = l[h[k]]
    BY <1>1, <1>2 DEF Embeds
  <1>4. ASSUME NEW j \in DOMAIN r, NEW k \in DOMAIN r, j <= k PROVE h[j] <= h[k]
    <2>1. j \in 1 .. Len(r) /\ k \in 1 .. Len(r)
      BY <1>1
    <2>2. h[j] \in Nat /\ h[k] \in Nat
      BY <1>3
    <2>3. j < k => h[j] < h[k]
      BY <2>1, <1>2 DEF Embeds
    <2> QED BY <1>4, <2>1, <2>2, <2>3
  <1>5. Sorted(r) /\ Covered(r, next)
    BY <1>3, <1>4 DEF Sorted, Covered
  <1> QED BY <1>1, <1>5, KSelected DEF r

LEMMA AkickInit == ASSUME K!AkickAssumption, K!Init PROVE TimersInv
  <1>1. K!NoEntry \in AkickEntries
    BY DEF K!NoEntry, AkickEntries
  <1>2. chanacs \in [Channels -> [K!Targets -> AkickEntries]]
    BY <1>1 DEF K!Init
  <1>3. akickdel_list = <<>> /\ akickdel_next = None
    BY DEF K!Init
  <1>4. Sorted(<<>>) /\ Covered(<<>>, None) /\ <<>> \in Seq(KTimeouts)
    BY DEF Sorted, Covered
  <1> QED BY <1>2, <1>3, <1>4, TimersInvParts

\* The entries stay entries.
LEMMA LevelSet ==
    ASSUME NEW ca \in AkickEntries, NEW level \in SUBSET {"b", "v"}
    PROVE  K!SetLevel(ca, level) \in AkickEntries
  BY DEF K!SetLevel, K!NoEntry, AkickEntries

LEMMA AkickAdd ==
    ASSUME K!AkickAssumption, TimersInv, NEW c \in Channels, NEW t \in K!Targets,
           NEW d \in {None} \union Durations, K!cs_cmd_akick_add(c, t, d)
    PROVE  TimersInv'
  <1>0. d \in {None} \union Int /\ None \notin Int
    <2>1. None \notin Int
      BY Zenon DEF K!AkickAssumption
    <2>2. d \in {None} \union Int
      <3>1. Durations \subseteq Nat \ {0}
        BY Zenon DEF K!AkickAssumption
      <3>2. \A x \in Nat \ {0} : x \in Int
        OBVIOUS
      <3> QED BY <3>1, <3>2, Zenon
    <2> QED BY <2>1, <2>2, Zenon
  <1>1. chanacs' \in [Channels -> [K!Targets -> AkickEntries]]
    <2>1. [level |-> {"b"}, expires |-> d] \in AkickEntries
      BY <1>0 DEF AkickEntries
    <2>2. chanacs' = [chanacs EXCEPT ![c][t] = [level |-> {"b"}, expires |-> d]]
      BY DEF K!cs_cmd_akick_add
    <2> QED BY <2>1, <2>2, TimersInvParts
  <1>2. CASE d = None
    BY <1>1, <1>2, TimersInvParts, TimersInvParts2 DEF K!cs_cmd_akick_add
  <1>3. CASE d # None
    <2> DEFINE to == K!Timeout(c, t, d, FALSE)
               r == K!akick_add_timeout(akickdel_list, to)
    <2>1. akickdel_list' = r /\ akickdel_next' = K!ArmTimer(d)
      BY <1>3 DEF K!cs_cmd_akick_add
    <2>2. to \in KTimeouts /\ to.expiration = d /\ d \in Int
      BY <1>0, <1>3 DEF K!Timeout, KTimeouts
    <2> HIDE DEF to
    <2>3. /\ r \in Seq(KTimeouts) /\ Sorted(r)
          /\ \A i \in DOMAIN r : r[i] = to \/ \E j \in DOMAIN akickdel_list : r[i] = akickdel_list[j]
      BY <2>2, TimersInvParts, AddedSorted
    <2> HIDE DEF r
    <2>4. /\ akickdel_next' \in Int /\ akickdel_next' <= d
          /\ akickdel_next # None => akickdel_next' <= akickdel_next
      BY <2>1, <2>2, <1>0, TimersInvParts DEF K!ArmTimer
    <2>5. \A i \in DOMAIN akickdel_list : akickdel_list[i].expiration \in Int
      <3>1. \A i \in DOMAIN akickdel_list : akickdel_list[i] \in KTimeouts
        BY TimersInvParts
      <3> QED BY <3>1 DEF KTimeouts
    <2>6. ASSUME NEW i \in DOMAIN r, ~r[i].loaded PROVE akickdel_next' <= r[i].expiration
      <3>1. CASE r[i] = to
        BY <3>1, <2>2, <2>4
      <3>2. ASSUME NEW j \in DOMAIN akickdel_list, r[i] = akickdel_list[j]
            PROVE  akickdel_next' <= r[i].expiration
        <4>1. ~akickdel_list[j].loaded
          BY <2>6, <3>2
        <4>2. akickdel_next # None /\ akickdel_next <= akickdel_list[j].expiration
          BY <4>1, TimersInvParts DEF Covered
        <4>3. akickdel_next \in Int
          BY <4>2, TimersInvParts
        <4> QED BY <4>2, <4>3, <3>2, <2>4, <2>5
      <3> QED BY <3>1, <3>2, <2>3
    <2>7. Covered(r, akickdel_next')
      BY <2>4, <2>6, <1>0 DEF Covered
    <2> QED BY <1>1, <2>1, <2>3, <2>4, <2>7, TimersInvParts2
  <1> QED BY <1>2, <1>3

LEMMA AkickDel ==
    ASSUME TimersInv, NEW c \in Channels, NEW t \in K!Targets, K!cs_cmd_akick_del(c, t)
    PROVE  TimersInv'
  <1> DEFINE I == {i \in DOMAIN akickdel_list : ~K!Dropped(c, t, akickdel_list[i])}
  <1>1. /\ chanacs' = [chanacs EXCEPT ![c][t] = K!SetLevel(@, @.level \ {"b"})]
        /\ akickdel_list' = K!Selected(akickdel_list, I) /\ akickdel_next' = akickdel_next
    BY DEF K!cs_cmd_akick_del
  <1> HIDE DEF I
  <1>2. chanacs' \in [Channels -> [K!Targets -> AkickEntries]]
    <2>1. chanacs[c][t] \in AkickEntries
      BY TimersInvParts
    <2>2. chanacs[c][t].level \ {"b"} \in SUBSET {"b", "v"}
      BY <2>1 DEF AkickEntries
    <2>3. K!SetLevel(chanacs[c][t], chanacs[c][t].level \ {"b"}) \in AkickEntries
      BY <2>1, <2>2, LevelSet
    <2> QED BY <1>1, <2>3, TimersInvParts
  <1>3. akickdel_list' \in Seq(KTimeouts) /\ Sorted(akickdel_list') /\ Covered(akickdel_list', akickdel_next)
    BY <1>1, TimersInvParts, SublistSorted
  <1> QED BY <1>1, <1>2, <1>3, TimersInvParts, TimersInvParts2

LEMMA AkickCheck ==
    ASSUME K!AkickAssumption, TimersInv, K!akick_timeout_check PROVE TimersInv'
  <1> DEFINE l == akickdel_list
             P(k) == /\ \A i \in 1 .. k : l[i].expiration <= 0
                     /\ k < Len(l) => l[k + 1].expiration > 0
             n == CHOOSE k \in 0 .. Len(l) : P(k)
             rest == SubSeq(l, n + 1, Len(l))
             Hit(c, t) == \E i \in 1 .. n : l[i].chan = c /\ l[i].target = t
  <1>0. None \notin Int
    BY DEF K!AkickAssumption
  <1>1. /\ chanacs' = [c \in Channels |-> [t \in K!Targets |->
                         IF Hit(c, t) THEN K!SetLevel(chanacs[c][t], chanacs[c][t].level \ {"b"})
                         ELSE chanacs[c][t]]]
        /\ akickdel_list' = rest
        /\ akickdel_next' = K!Rearmed(rest)
    BY Zenon DEF K!akick_timeout_check
  <1>2. chanacs' \in [Channels -> [K!Targets -> AkickEntries]]
    <2> HIDE DEF Hit
    <2>1. \A c \in Channels, t \in K!Targets :
             /\ chanacs[c][t] \in AkickEntries
             /\ K!SetLevel(chanacs[c][t], chanacs[c][t].level \ {"b"}) \in AkickEntries
      <3> SUFFICES ASSUME NEW c \in Channels, NEW t \in K!Targets
                   PROVE  /\ chanacs[c][t] \in AkickEntries
                          /\ K!SetLevel(chanacs[c][t], chanacs[c][t].level \ {"b"}) \in AkickEntries
        OBVIOUS
      <3>1. chanacs[c][t] \in AkickEntries
        BY TimersInvParts
      <3>2. chanacs[c][t].level \ {"b"} \in SUBSET {"b", "v"}
        BY <3>1 DEF AkickEntries
      <3> QED BY <3>1, <3>2, LevelSet
    <2> QED BY <1>1, <2>1
  <1>3. l \in Seq(KTimeouts) /\ Len(l) \in Nat /\ DOMAIN l = 1 .. Len(l) /\ Sorted(l)
    BY TimersInvParts
  <1>4. n \in 0 .. Len(l)
    <2> DEFINE T == {k \in 0 .. Len(l) : k < Len(l) => l[k + 1].expiration > 0}
    <2>1. Len(l) \in T
      BY <1>3
    <2>2. PICK k \in T : \A m \in T : k <= m
      <3> HIDE DEF T
      <3>1. T \subseteq Nat
        BY DEF T
      <3> QED BY <2>1, <3>1, LeastNat
    <2>3. ASSUME NEW i \in 1 .. k PROVE l[i].expiration <= 0
      <3>1. i - 1 \in 0 .. Len(l) /\ i - 1 < Len(l) /\ ~(k <= i - 1) /\ (i - 1) + 1 = i /\ i \in 1 .. Len(l)
        BY <2>2, <1>3
      <3>2. i - 1 \notin T
        <4> HIDE DEF T
        <4> QED BY <3>1, <2>2
      <3>3. ~(l[i].expiration > 0)
        BY <3>1, <3>2
      <3>4. l[i].expiration \in Int
        <4>1. l[i] \in KTimeouts
          BY <3>1, <1>3
        <4> QED BY <4>1 DEF KTimeouts
      <3> QED BY <3>3, <3>4
    <2>4. k \in 0 .. Len(l) /\ P(k)
      BY <2>2, <2>3
    <2> HIDE DEF P
    <2> QED BY <2>4, Zenon
  <1> HIDE DEF n, l
  <1>5. /\ rest \in Seq(KTimeouts) /\ Len(rest) = Len(l) - n
        /\ \A i \in 1 .. Len(l) - n : rest[i] = l[n + i]
    <2>1. n + 1 \in 1 .. Len(l) + 1
      BY <1>3, <1>4
    <2>2. rest \in Seq(KTimeouts) /\ Len(rest) = (Len(l) - (n + 1)) + 1
      BY <2>1, <1>3
    <2>3. \A i \in 1 .. (Len(l) - (n + 1)) + 1 : rest[i] = l[(n + 1) + (i - 1)]
      BY <2>1, <1>3
    <2>4. (Len(l) - (n + 1)) + 1 = Len(l) - n
      BY <1>3, <1>4
    <2>5. \A i \in 1 .. Len(l) - n : (n + 1) + (i - 1) = n + i
      BY <1>3, <1>4
    <2> HIDE DEF rest
    <2> QED BY <2>2, <2>3, <2>4, <2>5
  <1> HIDE DEF rest
  <1>6. Sorted(rest)
    <2>1. DOMAIN rest = 1 .. Len(l) - n
      BY <1>5
    <2>2. ASSUME NEW i \in 1 .. Len(l) - n, NEW j \in 1 .. Len(l) - n, i <= j
          PROVE  rest[i].expiration <= rest[j].expiration
      <3>1. n + i \in DOMAIN l /\ n + j \in DOMAIN l /\ n + i <= n + j
        BY <2>2, <1>3, <1>4
      <3>2. l[n + i].expiration <= l[n + j].expiration
        BY <3>1, <1>3 DEF Sorted
      <3> QED BY <3>2, <1>5
    <2> QED BY <2>1, <2>2 DEF Sorted
  <1>7. /\ akickdel_next' \in {None} \union Int
        /\ Covered(rest, akickdel_next')
    <2>1. CASE rest = <<>>
      BY <2>1, <1>1 DEF K!Rearmed, Covered
    <2>2. CASE rest # <<>>
      <3>1. akickdel_next' = rest[1].expiration
        BY <2>2, <1>1 DEF K!Rearmed
      <3>2. 1 \in DOMAIN rest /\ \A i \in DOMAIN rest : 1 <= i
        BY <2>2, <1>5
      <3>3. rest[1].expiration \in Int
        <4>1. rest[1] \in KTimeouts
          BY <3>2, <1>5
        <4> QED BY <4>1 DEF KTimeouts
      <3>4. \A i \in DOMAIN rest : rest[1].expiration <= rest[i].expiration
        BY <3>2, <1>6 DEF Sorted
      <3> QED BY <3>1, <3>3, <3>4, <1>0 DEF Covered
    <2> QED BY <2>1, <2>2
  <1> QED BY <1>1, <1>2, <1>5, <1>6, <1>7, TimersInvParts2

LEMMA AkickCreate ==
    ASSUME K!AkickAssumption, TimersInv, K!akickdel_list_create PROVE TimersInv'
  <1> DEFINE Timed(c, t) == K!Akicked(c, t) /\ chanacs[c][t].expires # None
             Late(c, t) == Timed(c, t) /\ chanacs[c][t].expires < 0
             keys == {k \in Channels \X K!Targets : Timed(k[1], k[2]) /\ ~Late(k[1], k[2])}
             timeouts == {K!Timeout(k[1], k[2], chanacs[k[1]][k[2]].expires, TRUE) : k \in keys}
  <1>1. /\ chanacs' = [c \in Channels |-> [t \in K!Targets |->
                         IF Late(c, t) THEN K!SetLevel(chanacs[c][t], chanacs[c][t].level \ {"b"})
                         ELSE chanacs[c][t]]]
        /\ K!Cardinality(timeouts) \in 0 .. MaxTimeouts
        /\ akickdel_list' \in K!SetToSeqs(timeouts)
        /\ \A i, j \in DOMAIN akickdel_list' :
              i <= j => akickdel_list'[i].expiration <= akickdel_list'[j].expiration
        /\ akickdel_next' = None
    BY Zenon DEF K!akickdel_list_create
  <1>2. chanacs' \in [Channels -> [K!Targets -> AkickEntries]]
    <2> HIDE DEF Late
    <2>1. \A c \in Channels, t \in K!Targets :
             /\ chanacs[c][t] \in AkickEntries
             /\ K!SetLevel(chanacs[c][t], chanacs[c][t].level \ {"b"}) \in AkickEntries
      <3> SUFFICES ASSUME NEW c \in Channels, NEW t \in K!Targets
                   PROVE  /\ chanacs[c][t] \in AkickEntries
                          /\ K!SetLevel(chanacs[c][t], chanacs[c][t].level \ {"b"}) \in AkickEntries
        OBVIOUS
      <3>1. chanacs[c][t] \in AkickEntries
        BY TimersInvParts
      <3>2. chanacs[c][t].level \ {"b"} \in SUBSET {"b", "v"}
        BY <3>1 DEF AkickEntries
      <3> QED BY <3>1, <3>2, LevelSet
    <2> QED BY <1>1, <2>1
  <1>3. \A to \in timeouts : to \in KTimeouts /\ to.loaded = TRUE
    <2> SUFFICES ASSUME NEW k \in Channels \X K!Targets, Timed(k[1], k[2])
                 PROVE  LET to == K!Timeout(k[1], k[2], chanacs[k[1]][k[2]].expires, TRUE)
                        IN  to \in KTimeouts /\ to.loaded = TRUE
      OBVIOUS
    <2>1. k[1] \in Channels /\ k[2] \in K!Targets
      OBVIOUS
    <2>2. chanacs[k[1]][k[2]] \in AkickEntries
      BY <2>1, TimersInvParts
    <2>3. chanacs[k[1]][k[2]].expires \in Int
      BY <2>2 DEF AkickEntries
    <2> QED BY <2>1, <2>3 DEF K!Timeout, KTimeouts
  <1> HIDE DEF timeouts
  <1>4. PICK m \in Nat : akickdel_list' \in [1 .. m -> timeouts]
    BY <1>1 DEF K!SetToSeqs
  <1>5. akickdel_list' \in Seq(KTimeouts)
    <2>1. akickdel_list' \in Seq(timeouts) /\ timeouts \subseteq KTimeouts
      BY <1>3, <1>4
    <2> QED BY <2>1, <1>4, <1>3
  <1>6. Sorted(akickdel_list')
    BY <1>1 DEF Sorted
  <1>7. Covered(akickdel_list', None)
    BY <1>3, <1>4 DEF Covered
  <1> QED BY <1>1, <1>2, <1>5, <1>6, <1>7, TimersInvParts2

\* FLAGS, CLEAR AKICKS and what is dropped change entries only.
LEMMA AkickOther ==
    ASSUME TimersInv, chanacs' \in [Channels -> [K!Targets -> AkickEntries]],
           UNCHANGED <<akickdel_list, akickdel_next>>
    PROVE  TimersInv'
  BY TimersInvParts, TimersInvParts2

LEMMA AkickFlags ==
    ASSUME TimersInv, NEW c \in Channels, NEW t \in K!Targets, NEW level \in K!Levels(t),
           K!cs_cmd_flags(c, t, level)
    PROVE  TimersInv'
  <1>1. chanacs[c][t] \in AkickEntries /\ level \in SUBSET {"b", "v"}
    BY TimersInvParts DEF K!Levels
  <1>2. K!SetLevel(chanacs[c][t], level) \in AkickEntries
    BY <1>1, LevelSet
  <1>3. chanacs' = [chanacs EXCEPT ![c][t] = K!SetLevel(@, level)]
    BY DEF K!cs_cmd_flags
  <1>4. chanacs' \in [Channels -> [K!Targets -> AkickEntries]]
    BY <1>2, <1>3, TimersInvParts
  <1> QED BY <1>4, AkickOther DEF K!cs_cmd_flags

LEMMA AkickRemovals ==
    ASSUME TimersInv,
           \/ \E c \in Channels : K!cs_cmd_clear_akicks(c) \/ K!mychan_delete(c)
           \/ \E t \in Entities : K!myentity_del(t)
    PROVE  TimersInv'
  <1>1. K!NoEntry \in AkickEntries
    BY DEF K!NoEntry, AkickEntries
  <1>2. chanacs \in [Channels -> [K!Targets -> AkickEntries]]
    BY TimersInvParts
  <1>3. ASSUME NEW c \in Channels, K!cs_cmd_clear_akicks(c) PROVE TimersInv'
    <2>1. chanacs' = [chanacs EXCEPT ![c] =
                        [t \in K!Targets |-> IF @[t].level = {"b"} THEN K!NoEntry ELSE @[t]]]
      BY <1>3 DEF K!cs_cmd_clear_akicks
    <2>2. [t \in K!Targets |-> IF chanacs[c][t].level = {"b"} THEN K!NoEntry ELSE chanacs[c][t]]
             \in [K!Targets -> AkickEntries]
      BY <1>1, <1>2
    <2>3. chanacs' \in [Channels -> [K!Targets -> AkickEntries]]
      BY <1>2, <2>1, <2>2
    <2> QED BY <2>3, <1>3, AkickOther DEF K!cs_cmd_clear_akicks
  <1>4. ASSUME NEW c \in Channels, K!mychan_delete(c) PROVE TimersInv'
    <2>1. chanacs' = [chanacs EXCEPT ![c] = [t \in K!Targets |-> K!NoEntry]]
      BY <1>4 DEF K!mychan_delete
    <2>2. chanacs' \in [Channels -> [K!Targets -> AkickEntries]]
      BY <1>1, <1>2, <2>1
    <2> QED BY <2>2, <1>4, AkickOther DEF K!mychan_delete
  <1>5. ASSUME NEW t \in Entities, K!myentity_del(t) PROVE TimersInv'
    <2>1. chanacs' = [c \in Channels |-> [chanacs[c] EXCEPT ![t] = K!NoEntry]]
      BY <1>5 DEF K!myentity_del
    <2>2. chanacs' \in [Channels -> [K!Targets -> AkickEntries]]
      BY <1>1, <1>2, <2>1
    <2> QED BY <2>2, <1>5, AkickOther DEF K!myentity_del
  <1> QED BY <1>3, <1>4, <1>5

\* A second less is left of every time there is.
LEMMA AkickTick ==
    ASSUME K!AkickAssumption, TimersInv, K!Tick PROVE TimersInv'
  <1> DEFINE Pass(left) == IF left = None THEN None ELSE IF left < 0 THEN left ELSE left - 1
             l == akickdel_list
  <1>0. None \notin Int
    BY Zenon DEF K!AkickAssumption
  <1>1. /\ chanacs' = [c \in Channels |-> [t \in K!Targets |->
                         [chanacs[c][t] EXCEPT !.expires = Pass(@)]]]
        /\ akickdel_list' = [i \in DOMAIN l |-> [l[i] EXCEPT !.expiration = Pass(@)]]
        /\ akickdel_next' = Pass(akickdel_next)
    BY DEF K!Tick
  <1>2. \A x \in Int : Pass(x) \in Int
    BY <1>0
  <1>3. \A x, y \in Int : x <= y => Pass(x) <= Pass(y)
    BY <1>0
  <1>4. Pass(None) = None
    OBVIOUS
  <1> HIDE DEF Pass
  <1>5. chanacs' \in [Channels -> [K!Targets -> AkickEntries]]
    <2>1. ASSUME NEW ca \in AkickEntries PROVE [ca EXCEPT !.expires = Pass(@)] \in AkickEntries
      <3>1. Pass(ca.expires) \in {None} \union Int
        BY <1>2, <1>4 DEF AkickEntries
      <3> QED BY <3>1 DEF AkickEntries
    <2>2. \A c \in Channels, t \in K!Targets : chanacs[c][t] \in AkickEntries
      BY TimersInvParts
    <2> QED BY <1>1, <2>1, <2>2
  <1>6. l \in Seq(KTimeouts) /\ Len(l) \in Nat /\ DOMAIN l = 1 .. Len(l)
    BY TimersInvParts
  <1>7. \A i \in DOMAIN l : /\ l[i] \in KTimeouts /\ l[i].expiration \in Int
                            /\ akickdel_list'[i] \in KTimeouts
                            /\ akickdel_list'[i].expiration = Pass(l[i].expiration)
                            /\ akickdel_list'[i].loaded = l[i].loaded
    <2> SUFFICES ASSUME NEW i \in DOMAIN l
                 PROVE  /\ l[i] \in KTimeouts /\ l[i].expiration \in Int
                        /\ akickdel_list'[i] \in KTimeouts
                        /\ akickdel_list'[i].expiration = Pass(l[i].expiration)
                        /\ akickdel_list'[i].loaded = l[i].loaded
      OBVIOUS
    <2>1. l[i] \in KTimeouts
      BY <1>6
    <2>2. l[i].expiration \in Int
      BY <2>1 DEF KTimeouts
    <2>3. akickdel_list'[i] = [l[i] EXCEPT !.expiration = Pass(@)]
      BY <1>1
    <2>4. Pass(l[i].expiration) \in Int
      BY <2>2, <1>2
    <2> QED BY <2>1, <2>2, <2>3, <2>4 DEF KTimeouts
  <1>8. DOMAIN akickdel_list' = DOMAIN l /\ akickdel_list' \in Seq(KTimeouts)
    <2>1. DOMAIN akickdel_list' = DOMAIN l
      BY <1>1
    <2>2. akickdel_list' \in [1 .. Len(l) -> KTimeouts]
      BY <1>1, <1>6, <1>7
    <2> QED BY <2>1, <2>2, <1>6
  <1> HIDE DEF l
  <1>9. Sorted(akickdel_list')
    <2>1. Sorted(l)
      BY TimersInvParts DEF l
    <2> QED BY <2>1, <1>8, <1>7, <1>3 DEF Sorted
  <1>10. Covered(akickdel_list', akickdel_next') /\ akickdel_next' \in {None} \union Int
    <2>1. Covered(l, akickdel_next) /\ akickdel_next \in {None} \union Int
      BY TimersInvParts DEF l
    <2>2. CASE akickdel_next = None
      BY <2>1, <2>2, <1>1, <1>4, <1>7, <1>8 DEF Covered
    <2>3. CASE akickdel_next \in Int
      <3>1. akickdel_next' \in Int /\ akickdel_next' # None
        BY <2>3, <1>0, <1>1, <1>2
      <3> QED BY <3>1, <2>1, <2>3, <1>1, <1>3, <1>7, <1>8 DEF Covered
    <2> QED BY <2>1, <2>2, <2>3
  <1> QED BY <1>5, <1>8, <1>9, <1>10, TimersInvParts2

LEMMA AkickNext == ASSUME K!AkickAssumption, TimersInv, [K!Next]_(K!vars) PROVE TimersInv'
  <1>1. ASSUME NEW c \in Channels, NEW t \in K!Targets,
               \/ \E d \in {None} \union Durations : K!cs_cmd_akick_add(c, t, d)
               \/ K!cs_cmd_akick_del(c, t)
               \/ \E level \in K!Levels(t) : K!cs_cmd_flags(c, t, level)
        PROVE  TimersInv'
    BY <1>1, AkickAdd, AkickDel, AkickFlags
  <1>2. CASE K!akick_timeout_check
    BY <1>2, AkickCheck
  <1>3. CASE K!akickdel_list_create
    BY <1>3, AkickCreate
  <1>4. CASE K!Tick
    BY <1>4, AkickTick
  <1>5. CASE UNCHANGED K!vars
    BY <1>5, TimersInvParts, TimersInvParts2 DEF K!vars
  <1> QED BY <1>1, <1>2, <1>3, <1>4, <1>5, AkickRemovals DEF K!Next

\* The list of the timed AKICKs is sorted, and their one timer runs no later
\* than any of them that AKICK ADD made (akick.c:335, 401, 660), whatever is
\* removed meanwhile and by whatever command.
THEOREM TimerAlwaysCovers ==
    ASSUME K!AkickAssumption PROVE K!Spec => [](K!TypeOK /\ K!TimerCoversAkicks)
  <1>1. K!Init => TimersInv
    BY AkickInit
  <1>2. TimersInv /\ [K!Next]_(K!vars) => TimersInv'
    BY AkickNext
  <1>3. TimersInv => K!TypeOK /\ K!TimerCoversAkicks
    BY DEF TimersInv
  <1> QED BY <1>1, <1>2, <1>3, PTL DEF K!Spec

-----------------------------------------------------------------------------
(* Groups: their members and founders. *)

CONSTANTS Accts, Groups, GNames, Flags, Settings, TNames, MaxGroups, MaxAcs

VARIABLES exist, name, acs, set, tmpl, invite, freed

G == INSTANCE Groups

\* A list of entries with types, of the accounts in ex, each once.
GoodList(l, ex) ==
    /\ l \in Seq(G!Entry)
    /\ \A i \in DOMAIN l : l[i].mt \in Accts => l[i].mt \in ex
    /\ \A i, j \in DOMAIN l : l[i].mt = l[j].mt => i = j

\* The types of all but the lists.
RestOK ==
    /\ exist \subseteq Accts /\ name \in [Groups -> GNames \union {None}] /\ freed \in BOOLEAN
    /\ set \in [Groups -> [on : SUBSET Settings, join : SUBSET Flags]]
    /\ tmpl \in [Groups -> [TNames -> SUBSET Flags]]
    /\ invite \in [Accts -> GNames \union {None}]

\* TEMPLATE never gives a template the flag F.
PlainTemplates == \A g \in Groups, t \in TNames : "F" \notin tmpl[g][t]

ListsOK == acs \in [Groups -> Seq(G!Entry)] /\ \A g \in Groups : GoodList(acs[g], exist)

GroupsInv == G!TypeOK /\ G!MembersExist /\ PlainTemplates

LEMMA GroupsInvParts == GroupsInv <=> RestOK /\ PlainTemplates /\ ListsOK
  <1>1. G!TypeOK => \A g \in Groups : acs[g] \in Seq(G!Entry)
    BY DEF G!TypeOK
  <1>2. GroupsInv => RestOK /\ PlainTemplates /\ ListsOK
    BY <1>1, Zenon DEF GroupsInv, G!TypeOK, G!MembersExist, RestOK, ListsOK, GoodList
  <1>3. RestOK /\ PlainTemplates /\ ListsOK => GroupsInv
    BY Zenon DEF GroupsInv, G!TypeOK, G!MembersExist, RestOK, ListsOK, GoodList
  <1> QED BY <1>2, <1>3

LEMMA GroupsInvParts2 == RestOK' /\ PlainTemplates' /\ ListsOK' => GroupsInv'
  BY Zenon DEF GroupsInv, G!TypeOK, G!MembersExist, RestOK, ListsOK, GoodList

LEMMA GSelected == ASSUME NEW s, NEW I PROVE G!Selected(s, I) = Selected(s, I)
  BY Zenon DEF G!Selected, Selected

LEMMA GroupConstants ==
    ASSUME G!GroupsAssumption
    PROVE  /\ None \notin Accts /\ None \notin Groups /\ None \notin GNames
           /\ Accts \intersect Groups = {} /\ "F" \in Flags
  BY DEF G!GroupsAssumption

-----------------------------------------------------------------------------
(* What is done to lists, and who is a founder after it. *)

FoundersOf(l) == {l[i].mt : i \in {j \in DOMAIN l : "F" \in l[j].flags}}

LEMMA FoundersAre ==
    \A g : G!Founders(g) = FoundersOf(acs[g]) /\ G!Founders(g)' = FoundersOf(acs'[g])
  BY DEF G!Founders, FoundersOf

LEMMA Appended ==
    ASSUME NEW l, NEW ex, GoodList(l, ex), NEW e \in G!Entry, e.mt \in Accts => e.mt \in ex,
           \A i \in DOMAIN l : l[i].mt # e.mt
    PROVE  GoodList(Append(l, e), ex) /\ FoundersOf(l) \subseteq FoundersOf(Append(l, e))
  <1> DEFINE r == Append(l, e)
             n == Len(l)
  <1>1. l \in Seq(G!Entry) /\ n \in Nat /\ DOMAIN l = 1 .. n
    BY DEF GoodList
  <1>2. r \in Seq(G!Entry) /\ DOMAIN r = 1 .. n + 1 /\ r[n + 1] = e /\ \A i \in 1 .. n : r[i] = l[i]
    BY <1>1
  <1> HIDE DEF r, n
  <1>3. \A i \in DOMAIN r : i = n + 1 \/ i \in 1 .. n
    BY <1>1, <1>2
  <1>4. \A i \in DOMAIN r : r[i].mt \in Accts => r[i].mt \in ex
    BY <1>1, <1>2, <1>3 DEF GoodList
  <1>5. ASSUME NEW i \in DOMAIN r, NEW j \in DOMAIN r, r[i].mt = r[j].mt PROVE i = j
    <2>1. CASE i = n + 1 /\ j = n + 1
      BY <2>1
    <2>2. CASE i \in 1 .. n /\ j \in 1 .. n
      BY <2>2, <1>1, <1>2, <1>5 DEF GoodList
    <2>3. CASE i = n + 1 /\ j \in 1 .. n
      BY <2>3, <1>1, <1>2, <1>5
    <2>4. CASE i \in 1 .. n /\ j = n + 1
      BY <2>4, <1>1, <1>2, <1>5
    <2> QED BY <2>1, <2>2, <2>3, <2>4, <1>3
  <1>6. \A i \in DOMAIN l : i \in DOMAIN r /\ r[i] = l[i]
    BY <1>1, <1>2
  <1>7. FoundersOf(l) \subseteq FoundersOf(r)
    BY <1>6 DEF FoundersOf
  <1> QED BY <1>2, <1>4, <1>5, <1>7 DEF GoodList, r

LEMMA Thinned ==
    ASSUME NEW l, NEW ex, NEW ey, GoodList(l, ex), NEW I,
           \A i \in DOMAIN l : i \in I /\ l[i].mt \in Accts => l[i].mt \in ey
    PROVE  /\ GoodList(G!Selected(l, I), ey)
           /\ \A i \in DOMAIN l : i \in I /\ "F" \in l[i].flags => l[i].mt \in FoundersOf(G!Selected(l, I))
  <1> DEFINE r == Selected(l, I)
  <1>0. l \in Seq(G!Entry) /\ DOMAIN l = 1 .. Len(l)
    BY DEF GoodList
  <1>1. r \in Seq(G!Entry) /\ \E h : Embeds(r, l, I, Len(l), h)
    BY <1>0, SelectedResult, Zenon
  <1>2. PICK h : Embeds(r, l, I, Len(l), h)
    BY <1>1
  <1> HIDE DEF r
  <1>3. DOMAIN r = 1 .. Len(r)
    BY <1>1
  <1>4. \A k \in DOMAIN r : h[k] \in DOMAIN l /\ h[k] \in I /\ h[k] \in Nat /\ r[k] = l[h[k]]
    BY <1>0, <1>2, <1>3 DEF Embeds
  <1>5. \A k \in DOMAIN r : r[k].mt \in Accts => r[k].mt \in ey
    BY <1>4
  <1>6. ASSUME NEW j \in DOMAIN r, NEW k \in DOMAIN r, r[j].mt = r[k].mt PROVE j = k
    <2>1. h[j] = h[k]
      BY <1>4, <1>6 DEF GoodList
    <2>2. ~(j < k) /\ ~(k < j)
      <3>1. j < k => h[j] < h[k]
        BY <1>2, <1>3 DEF Embeds
      <3>2. k < j => h[k] < h[j]
        BY <1>2, <1>3 DEF Embeds
      <3> QED BY <3>1, <3>2, <2>1, <1>4
    <2> QED BY <2>2, <1>3
  <1>7. ASSUME NEW i \in DOMAIN l, i \in I, "F" \in l[i].flags PROVE l[i].mt \in FoundersOf(r)
    <2>1. PICK k \in 1 .. Len(r) : h[k] = i
      BY <1>0, <1>2, <1>7 DEF Embeds
    <2>2. k \in DOMAIN r /\ r[k] = l[i]
      BY <2>1, <1>3, <1>4
    <2> QED BY <2>2, <1>7 DEF FoundersOf
  <1>8. GoodList(r, ey)
    BY <1>1, <1>5, <1>6 DEF GoodList
  <1> QED BY <1>7, <1>8, GSelected DEF r

\* The flags of some entries change to fl.
LEMMA Reflagged ==
    ASSUME NEW l, NEW ex, GoodList(l, ex), NEW fl \in SUBSET Flags, NEW J
    PROVE  LET r == [i \in DOMAIN l |-> IF i \in J THEN [l[i] EXCEPT !.flags = fl] ELSE l[i]]
           IN  /\ GoodList(r, ex)
               /\ \A i \in DOMAIN l : (IF i \in J THEN "F" \in fl ELSE "F" \in l[i].flags) =>
                                         l[i].mt \in FoundersOf(r)
  <1> DEFINE r == [i \in DOMAIN l |-> IF i \in J THEN [l[i] EXCEPT !.flags = fl] ELSE l[i]]
  <1>0. l \in Seq(G!Entry) /\ Len(l) \in Nat /\ DOMAIN l = 1 .. Len(l)
    BY DEF GoodList
  <1>1. ASSUME NEW i \in DOMAIN l
        PROVE  r[i] \in G!Entry /\ r[i].mt = l[i].mt /\ r[i].flags = IF i \in J THEN fl ELSE l[i].flags
    <2>1. l[i] \in G!Entry
      BY <1>0
    <2> QED BY <2>1 DEF G!Entry
  <1>2. DOMAIN r = DOMAIN l
    OBVIOUS
  <1>3. r \in Seq(G!Entry)
    <2>1. r \in [1 .. Len(l) -> G!Entry]
      BY <1>0, <1>1
    <2> QED BY <2>1, <1>0
  <1> HIDE DEF r
  <1>4. GoodList(r, ex)
    BY <1>1, <1>2, <1>3 DEF GoodList
  <1>5. \A i \in DOMAIN l : (IF i \in J THEN "F" \in fl ELSE "F" \in l[i].flags) =>
                               l[i].mt \in FoundersOf(r)
    BY <1>1, <1>2 DEF FoundersOf
  <1> QED BY <1>4, <1>5 DEF r

-----------------------------------------------------------------------------
(* FLAGS and FFLAGS. *)

\* No group loses its last founder.
FoundersStay == \A h \in Groups : FoundersOf(acs[h]) # {} => FoundersOf(acs'[h]) # {}

LEMMA OneFounder == ASSUME NEW m PROVE G!Cardinality({m}) = 1
  <1>1. G!Cardinality({m}) = Cardinality({m})
    BY DEF G!Cardinality, Cardinality
  <1> QED BY <1>1, FS_Singleton

\* The test of KeepsFounder: there is another founder.
LEMMA AnotherFounder ==
    ASSUME NEW g \in Groups, NEW m, NEW fl, "F" \notin fl,
           FoundersOf(acs[g]) # {},
           "F" \in G!Old(g, m) \ fl => G!Cardinality(G!Founders(g)) # 1
    PROVE  \E i \in DOMAIN acs[g] : "F" \in acs[g][i].flags /\ i \notin G!Own(g, m)
  <1> SUFFICES ASSUME \A i \in DOMAIN acs[g] : "F" \in acs[g][i].flags => i \in G!Own(g, m)
               PROVE  FALSE
    OBVIOUS
  <1>1. \A i \in DOMAIN acs[g] : "F" \in acs[g][i].flags => acs[g][i].mt = m
    BY DEF G!Own
  <1>2. PICK i \in DOMAIN acs[g] : "F" \in acs[g][i].flags
    BY DEF FoundersOf
  <1>3. FoundersOf(acs[g]) = {m}
    BY <1>1, <1>2 DEF FoundersOf
  <1>4. "F" \in G!Old(g, m) \ fl
    BY <1>2 DEF G!Old
  <1>5. G!Founders(g) = {m}
    BY <1>3, FoundersAre
  <1> QED BY <1>4, <1>5, OneFounder

LEMMA FlagsSet ==
    ASSUME G!GroupsAssumption, GroupsInv, NEW g \in Groups, NEW m \in exist \union Groups,
           NEW fl \in SUBSET Flags, G!SetFlags(g, m, fl),
           "F" \in G!Old(g, m) \ fl => G!Cardinality(G!Founders(g)) # 1
    PROVE  GroupsInv' /\ FoundersStay
  <1> DEFINE l == acs[g]
             r == G!Changed(g, m, fl)
  <1>1. RestOK /\ PlainTemplates /\ ListsOK
    BY GroupsInvParts
  <1>2. acs' = [acs EXCEPT ![g] = r] /\ UNCHANGED <<exist, name, set, tmpl, invite, freed>>
    BY DEF G!SetFlags
  <1>3. RestOK' /\ PlainTemplates'
    BY <1>1, <1>2 DEF RestOK, PlainTemplates
  <1>4. GoodList(l, exist) /\ acs \in [Groups -> Seq(G!Entry)]
    BY <1>1 DEF ListsOK
  <1>5. G!Own(g, m) = {i \in DOMAIN l : l[i].mt = m}
    BY DEF G!Own
  <1>6. m \in Accts => m \in exist
    BY GroupConstants
  <1>7. m \in Accts \union Groups
    BY <1>1 DEF RestOK
  <1>8. GoodList(r, exist) /\ (FoundersOf(l) # {} => FoundersOf(r) # {})
    <2>1. CASE G!Own(g, m) = {}
      <3> DEFINE e == [mt |-> m, flags |-> fl]
      <3>1. r = Append(l, e)
        BY <2>1 DEF G!Changed
      <3>2. e \in G!Entry /\ e.mt = m
        BY <1>7 DEF G!Entry
      <3> HIDE DEF e
      <3>3. \A i \in DOMAIN l : l[i].mt # e.mt
        BY <2>1, <1>5, <3>2
      <3>4. GoodList(Append(l, e), exist) /\ FoundersOf(l) \subseteq FoundersOf(Append(l, e))
        BY <1>4, <1>6, <3>2, <3>3, Appended
      <3> QED BY <3>1, <3>4
    <2>2. CASE G!Own(g, m) # {} /\ fl = {}
      <3> DEFINE I == DOMAIN l \ G!Own(g, m)
      <3>1. r = G!Selected(l, I)
        BY <2>2 DEF G!Changed
      <3>2. \A i \in DOMAIN l : i \in I /\ l[i].mt \in Accts => l[i].mt \in exist
        BY <1>4 DEF GoodList
      <3>3. /\ GoodList(G!Selected(l, I), exist)
            /\ \A i \in DOMAIN l : i \in I /\ "F" \in l[i].flags =>
                                      l[i].mt \in FoundersOf(G!Selected(l, I))
        <4> HIDE DEF I, l
        <4> QED BY <1>4, <3>2, Thinned
      <3>4. FoundersOf(l) # {} => \E i \in DOMAIN l : "F" \in l[i].flags /\ i \in I
        BY <2>2, AnotherFounder
      <3> HIDE DEF I, l
      <3> QED BY <3>1, <3>3, <3>4
    <2>3. CASE G!Own(g, m) # {} /\ fl # {}
      <3> DEFINE J == G!Own(g, m)
                 w == [i \in DOMAIN l |-> IF i \in J THEN [l[i] EXCEPT !.flags = fl] ELSE l[i]]
      <3>1. r = w
        BY <2>3 DEF G!Changed
      <3>2. /\ GoodList(w, exist)
            /\ \A i \in DOMAIN l : (IF i \in J THEN "F" \in fl ELSE "F" \in l[i].flags) =>
                                      l[i].mt \in FoundersOf(w)
        <4> HIDE DEF J, l
        <4> QED BY <1>4, Reflagged
      <3>3. FoundersOf(l) # {} =>
               \E i \in DOMAIN l : IF i \in J THEN "F" \in fl ELSE "F" \in l[i].flags
        <4>1. CASE "F" \in fl
          BY <4>1 DEF FoundersOf
        <4>2. CASE "F" \notin fl
          BY <4>2, AnotherFounder
        <4> QED BY <4>1, <4>2
      <3> HIDE DEF J, w, l
      <3> QED BY <3>1, <3>2, <3>3
    <2> QED BY <2>1, <2>2, <2>3
  <1> HIDE DEF r, l
  <1>9. acs'[g] = r /\ \A h \in Groups : h # g => acs'[h] = acs[h]
    BY <1>2, <1>4
  <1>10. ListsOK'
    <2>1. r \in Seq(G!Entry)
      BY <1>8 DEF GoodList
    <2>2. acs' \in [Groups -> Seq(G!Entry)]
      BY <1>2, <1>4, <2>1
    <2>3. exist' = exist
      BY <1>2
    <2> QED BY <1>1, <1>8, <1>9, <2>2, <2>3 DEF ListsOK
  <1>11. FoundersStay
    BY <1>8, <1>9 DEF FoundersStay, l
  <1> QED BY <1>3, <1>10, <1>11, GroupsInvParts2

-----------------------------------------------------------------------------
(* The other steps. *)

LEMMA StayImplies == FoundersStay => G!LastFounderStays
  <1>1. G!Alive \subseteq Groups
    BY DEF G!Alive
  <1> QED BY <1>1, FoundersAre DEF FoundersStay, G!LastFounderStays

LEMMA FlagsKeep ==
    ASSUME G!GroupsAssumption, GroupsInv, NEW a \in exist, NEW g \in G!Alive,
           NEW m \in exist \union G!Alive, NEW fl \in SUBSET Flags,
           (\E star \in BOOLEAN : G!gs_cmd_flags(a, g, m, fl, star)) \/ G!gs_cmd_fflags(a, g, m, fl)
    PROVE  GroupsInv' /\ G!LastFounderStays
  <1>1. g \in Groups /\ m \in exist \union Groups
    BY DEF G!Alive
  <1>2. "F" \in Flags
    BY GroupConstants
  <1>3. \E f2 \in SUBSET Flags :
           /\ G!SetFlags(g, m, f2)
           /\ "F" \in G!Old(g, m) \ f2 => G!Cardinality(G!Founders(g)) # 1
    <2>1. CASE G!gs_cmd_fflags(a, g, m, fl)
      BY <2>1 DEF G!gs_cmd_fflags, G!KeepsFounder
    <2>2. ASSUME NEW star \in BOOLEAN, G!gs_cmd_flags(a, g, m, fl, star)
          PROVE  \E f2 \in SUBSET Flags :
                    /\ G!SetFlags(g, m, f2)
                    /\ "F" \in G!Old(g, m) \ f2 => G!Cardinality(G!Founders(g)) # 1
      <3> DEFINE full == IF "F" \in fl \ G!Old(g, m) THEN fl \union ({"f"} \intersect Flags) ELSE fl
      <3>1. \/ "F" \in fl \ G!Old(g, m) /\ G!SetFlags(g, m, fl \ {"F"})
            \/ G!KeepsFounder(g, a, m, full) /\ G!SetFlags(g, m, full)
        BY <2>2, Zenon DEF G!gs_cmd_flags
      <3>2. fl \ {"F"} \in SUBSET Flags /\ full \in SUBSET Flags
        OBVIOUS
      <3> HIDE DEF full
      <3> QED BY <3>1, <3>2 DEF G!KeepsFounder
    <2> QED BY <2>1, <2>2
  <1> QED BY <1>1, <1>3, FlagsSet, StayImplies

\* Steps that change no list.
LEMMA ListsUnchanged ==
    ASSUME GroupsInv, RestOK', PlainTemplates', UNCHANGED acs, exist \subseteq exist'
    PROVE  GroupsInv' /\ G!LastFounderStays
  <1>1. ListsOK
    BY GroupsInvParts
  <1>2. ListsOK'
    BY <1>1 DEF ListsOK, GoodList
  <1>3. FoundersStay
    BY DEF FoundersStay
  <1> QED BY <1>2, <1>3, GroupsInvParts2, StayImplies

LEMMA SettingsKeep ==
    ASSUME GroupsInv, NEW g \in G!Alive,
           \/ \E a \in exist : \/ G!gs_cmd_set_open(a, g) \/ G!gs_cmd_set_pubacl(a, g)
                               \/ \E n \in GNames : G!gs_cmd_set_groupname(a, g, n)
                               \/ \E b \in exist : G!gs_cmd_invite(a, g, b)
                               \/ \E fl \in SUBSET Flags : G!gs_cmd_set_joinflags(a, g, fl)
           \/ G!gs_cmd_acsnolimit(g)
    PROVE  GroupsInv' /\ G!LastFounderStays
  <1>0. g \in Groups
    BY DEF G!Alive
  <1>1. RestOK /\ PlainTemplates
    BY GroupsInvParts
  <1>2. ASSUME NEW s, G!Toggle(g, s) PROVE GroupsInv' /\ G!LastFounderStays
    <2>1. /\ s \in Settings
          /\ set' = [set EXCEPT ![g].on = IF s \in @ THEN @ \ {s} ELSE @ \union {s}]
          /\ UNCHANGED <<exist, name, acs, tmpl, invite, freed>>
      BY <1>2 DEF G!Toggle
    <2>2. set[g] \in [on : SUBSET Settings, join : SUBSET Flags]
      BY <1>0, <1>1 DEF RestOK
    <2>3. (IF s \in set[g].on THEN set[g].on \ {s} ELSE set[g].on \union {s}) \in SUBSET Settings
      BY <2>1, <2>2
    <2>4. set' \in [Groups -> [on : SUBSET Settings, join : SUBSET Flags]]
      BY <1>0, <1>1, <2>1, <2>2, <2>3 DEF RestOK
    <2>5. RestOK' /\ PlainTemplates'
      BY <1>1, <2>1, <2>4 DEF RestOK, PlainTemplates
    <2> QED BY <2>1, <2>5, ListsUnchanged
  <1>3. ASSUME NEW a \in exist, NEW n \in GNames, G!gs_cmd_set_groupname(a, g, n)
        PROVE  GroupsInv' /\ G!LastFounderStays
    <2>1. name' = [name EXCEPT ![g] = n] /\ UNCHANGED <<exist, acs, set, tmpl, invite, freed>>
      BY <1>3 DEF G!gs_cmd_set_groupname
    <2>2. RestOK' /\ PlainTemplates'
      BY <1>0, <1>1, <2>1 DEF RestOK, PlainTemplates
    <2> QED BY <2>1, <2>2, ListsUnchanged
  <1>4. ASSUME NEW a \in exist, NEW b \in exist, G!gs_cmd_invite(a, g, b)
        PROVE  GroupsInv' /\ G!LastFounderStays
    <2>1. invite' = [invite EXCEPT ![b] = name[g]] /\ UNCHANGED <<exist, name, acs, set, tmpl, freed>>
      BY <1>4 DEF G!gs_cmd_invite
    <2>2. RestOK' /\ PlainTemplates'
      BY <1>0, <1>1, <2>1 DEF RestOK, PlainTemplates
    <2> QED BY <2>1, <2>2, ListsUnchanged
  <1>5. ASSUME NEW a \in exist, NEW fl \in SUBSET Flags, G!gs_cmd_set_joinflags(a, g, fl)
        PROVE  GroupsInv' /\ G!LastFounderStays
    <2>1. set' = [set EXCEPT ![g].join = fl] /\ UNCHANGED <<exist, name, acs, tmpl, invite, freed>>
      BY <1>5 DEF G!gs_cmd_set_joinflags
    <2>2. set[g] \in [on : SUBSET Settings, join : SUBSET Flags]
      BY <1>0, <1>1 DEF RestOK
    <2>3. set' \in [Groups -> [on : SUBSET Settings, join : SUBSET Flags]]
      BY <1>0, <1>1, <2>1, <2>2 DEF RestOK
    <2>4. RestOK' /\ PlainTemplates'
      BY <1>1, <2>1, <2>3 DEF RestOK, PlainTemplates
    <2> QED BY <2>1, <2>4, ListsUnchanged
  <1> QED BY <1>2, <1>3, <1>4, <1>5 DEF G!gs_cmd_set_open, G!gs_cmd_set_pubacl, G!gs_cmd_acsnolimit

\* mygroup_delete(), of one group or of those without founders.
LEMMA DeletionKeeps ==
    ASSUME GroupsInv, NEW gs, G!mygroup_delete(gs) PROVE GroupsInv' /\ G!LastFounderStays
  <1>1. RestOK /\ PlainTemplates /\ ListsOK
    BY GroupsInvParts
  <1>2. /\ name' = [g \in Groups |-> IF g \in gs THEN None ELSE name[g]]
        /\ acs' = [g \in Groups |-> IF g \in gs THEN <<>> ELSE acs[g]]
        /\ set' = [g \in Groups |-> IF g \in gs THEN G!NoSettings ELSE set[g]]
        /\ tmpl' = [g \in Groups |-> IF g \in gs THEN [t \in TNames |-> {}] ELSE tmpl[g]]
        /\ UNCHANGED <<exist, invite, freed>>
    BY DEF G!mygroup_delete
  <1>3. RestOK'
    <2>1. G!NoSettings \in [on : SUBSET Settings, join : SUBSET Flags]
      BY DEF G!NoSettings
    <2>2. [t \in TNames |-> {}] \in [TNames -> SUBSET Flags]
      OBVIOUS
    <2>3. set' \in [Groups -> [on : SUBSET Settings, join : SUBSET Flags]]
      BY <1>1, <1>2, <2>1 DEF RestOK
    <2>4. tmpl' \in [Groups -> [TNames -> SUBSET Flags]]
      BY <1>1, <1>2, <2>2 DEF RestOK
    <2>5. name' \in [Groups -> GNames \union {None}]
      BY <1>1, <1>2 DEF RestOK
    <2> QED BY <1>1, <1>2, <2>3, <2>4, <2>5 DEF RestOK
  <1>4. PlainTemplates'
    BY <1>1, <1>2 DEF PlainTemplates
  <1>5. ListsOK'
    <2>1. GoodList(<<>>, exist)
      BY DEF GoodList
    <2>2. \A g \in Groups : GoodList(acs'[g], exist)
      BY <1>1, <1>2, <2>1 DEF ListsOK
    <2>3. acs' \in [Groups -> Seq(G!Entry)]
      BY <1>1, <1>2, <2>2 DEF ListsOK, GoodList
    <2> QED BY <1>2, <2>2, <2>3 DEF ListsOK
  <1>6. G!LastFounderStays
    <2> SUFFICES ASSUME NEW g \in G!Alive, G!Founders(g) # {}, name'[g] # None
                 PROVE  G!Founders(g)' # {}
      BY DEF G!LastFounderStays
    <2>1. g \in Groups /\ g \notin gs
      BY <1>2 DEF G!Alive
    <2>2. acs'[g] = acs[g]
      BY <1>2, <2>1
    <2> QED BY <2>2, FoundersAre
  <1> QED BY <1>3, <1>4, <1>5, <1>6, GroupsInvParts2

LEMMA RegisterKeeps ==
    ASSUME G!GroupsAssumption, GroupsInv, NEW a \in exist, NEW g \in Groups, NEW n \in GNames,
           G!gs_cmd_register(a, g, n)
    PROVE  GroupsInv' /\ G!LastFounderStays
  <1> DEFINE e == [mt |-> a, flags |-> G!All \union {"F"}]
  <1>1. RestOK /\ PlainTemplates /\ ListsOK
    BY GroupsInvParts
  <1>2. /\ g \notin G!Alive /\ name' = [name EXCEPT ![g] = n]
        /\ acs' = [acs EXCEPT ![g] = <<e>>] /\ UNCHANGED <<exist, set, tmpl, invite, freed>>
    BY DEF G!gs_cmd_register
  <1>3. RestOK' /\ PlainTemplates'
    BY <1>1, <1>2 DEF RestOK, PlainTemplates
  <1>4. e \in G!Entry /\ e.mt \in exist
    BY <1>1, GroupConstants DEF RestOK, G!Entry, G!All
  <1> HIDE DEF e
  <1>5. GoodList(<<e>>, exist)
    BY <1>4 DEF GoodList
  <1>6. \A h \in Groups : h # g => acs'[h] = acs[h]
    BY <1>2
  <1>7. ListsOK'
    <2>1. acs' \in [Groups -> Seq(G!Entry)] /\ acs'[g] = <<e>>
      BY <1>1, <1>2, <1>5 DEF ListsOK, GoodList
    <2> QED BY <1>1, <1>2, <1>5, <1>6, <2>1 DEF ListsOK
  <1>8. G!LastFounderStays
    <2>1. \A h \in G!Alive : h \in Groups /\ h # g
      BY <1>2 DEF G!Alive
    <2>2. \A h \in G!Alive : G!Founders(h)' = G!Founders(h)
      BY <2>1, <1>6, FoundersAre
    <2> QED BY <2>2 DEF G!LastFounderStays
  <1> QED BY <1>3, <1>7, <1>8, GroupsInvParts2

LEMMA JoinKeeps ==
    ASSUME G!GroupsAssumption, GroupsInv, NEW a \in exist, NEW g \in G!Alive, G!gs_cmd_join(a, g)
    PROVE  GroupsInv' /\ G!LastFounderStays
  <1> DEFINE e == [mt |-> a, flags |-> set[g].join]
             l == acs[g]
  <1>0. g \in Groups
    BY DEF G!Alive
  <1>1. RestOK /\ PlainTemplates /\ ListsOK
    BY GroupsInvParts
  <1>2. /\ G!groupacs_find(g, a, {}) = {}
        /\ acs' = [acs EXCEPT ![g] = Append(@, e)]
        /\ invite' = [invite EXCEPT ![a] = None] \/ invite' = invite
        /\ UNCHANGED <<exist, name, set, tmpl, freed>>
    BY DEF G!gs_cmd_join
  <1>3. RestOK' /\ PlainTemplates'
    <2>1. invite' \in [Accts -> GNames \union {None}]
      BY <1>1, <1>2 DEF RestOK
    <2> QED BY <1>1, <1>2, <2>1 DEF RestOK, PlainTemplates
  <1>4. e \in G!Entry /\ e.mt \in exist
    <2>1. set[g] \in [on : SUBSET Settings, join : SUBSET Flags]
      BY <1>0, <1>1 DEF RestOK
    <2> QED BY <1>1, <2>1 DEF RestOK, G!Entry
  <1>5. \A i \in DOMAIN l : l[i].mt # e.mt
    <2> SUFFICES ASSUME NEW i \in DOMAIN l, l[i].mt = a PROVE FALSE
      OBVIOUS
    <2>1. a \in Accts /\ a \notin Groups
      BY <1>1, GroupConstants DEF RestOK
    <2>2. acs[g][i].mt \notin Groups \ {g}
      BY <2>1
    <2>3. i \in G!groupacs_find(g, a, {})
      BY <2>2 DEF G!groupacs_find
    <2> QED BY <2>3, <1>2
  <1>6. GoodList(l, exist) /\ acs \in [Groups -> Seq(G!Entry)]
    BY <1>0, <1>1 DEF ListsOK
  <1> HIDE DEF e
  <1>7. GoodList(Append(l, e), exist) /\ FoundersOf(l) \subseteq FoundersOf(Append(l, e))
    BY <1>4, <1>5, <1>6, Appended
  <1>8. acs'[g] = Append(l, e) /\ \A h \in Groups : h # g => acs'[h] = acs[h]
    BY <1>0, <1>2, <1>6
  <1>9. ListsOK'
    <2>1. acs' \in [Groups -> Seq(G!Entry)]
      BY <1>0, <1>2, <1>6, <1>7 DEF GoodList
    <2> QED BY <1>1, <1>2, <1>7, <1>8, <2>1 DEF ListsOK
  <1>10. FoundersStay
    BY <1>7, <1>8 DEF FoundersStay
  <1> QED BY <1>3, <1>9, <1>10, GroupsInvParts2, StayImplies

\* TEMPLATE changes the entries with the flags of a template, none of them a
\* founder's.
LEMMA TemplateKeeps ==
    ASSUME GroupsInv, NEW a \in exist, NEW g \in G!Alive, NEW t \in TNames,
           NEW fl \in SUBSET Flags, NEW all \in BOOLEAN, G!gs_cmd_template(a, g, t, fl, all)
    PROVE  GroupsInv' /\ G!LastFounderStays
  <1> DEFINE l == acs[g]
             J == IF all THEN G!Followers(g, tmpl[g][t]) ELSE {}
             r == [i \in DOMAIN l |-> IF i \in J THEN [l[i] EXCEPT !.flags = fl] ELSE l[i]]
  <1>0. g \in Groups
    BY DEF G!Alive
  <1>1. RestOK /\ PlainTemplates /\ ListsOK
    BY GroupsInvParts
  <1>2. /\ "F" \notin fl
        /\ tmpl' = [tmpl EXCEPT ![g][t] = fl]
        /\ freed' = (fl = {} /\ J # {})
        /\ UNCHANGED <<exist, name, set, invite>>
    BY Zenon DEF G!gs_cmd_template
  <1>3. acs' = [acs EXCEPT ![g] = r]
    BY DEF G!gs_cmd_template
  <1>4. \A i \in J : "F" \notin l[i].flags
    BY <1>0, <1>1 DEF G!Followers, PlainTemplates
  <1>5. GoodList(l, exist) /\ acs \in [Groups -> Seq(G!Entry)]
    BY <1>0, <1>1 DEF ListsOK
  <1>6. RestOK' /\ PlainTemplates'
    <2>1. freed' \in BOOLEAN
      BY <1>2, Zenon
    <2>2. tmpl' \in [Groups -> [TNames -> SUBSET Flags]]
      BY <1>0, <1>1, <1>2 DEF RestOK
    <2>3. PlainTemplates'
      BY <1>0, <1>1, <1>2 DEF RestOK, PlainTemplates
    <2> QED BY <1>1, <1>2, <2>1, <2>2, <2>3 DEF RestOK
  <1> HIDE DEF J
  <1>7. /\ GoodList(r, exist)
        /\ \A i \in DOMAIN l : (IF i \in J THEN "F" \in fl ELSE "F" \in l[i].flags) =>
                                  l[i].mt \in FoundersOf(r)
    <2> HIDE DEF l
    <2> QED BY <1>5, Reflagged
  <1> HIDE DEF r
  <1>8. FoundersOf(l) \subseteq FoundersOf(r)
    <2> SUFFICES ASSUME NEW i \in DOMAIN l, "F" \in l[i].flags PROVE l[i].mt \in FoundersOf(r)
      BY DEF FoundersOf
    <2>1. i \notin J
      BY <1>4
    <2> QED BY <2>1, <1>7
  <1>9. acs'[g] = r /\ \A h \in Groups : h # g => acs'[h] = acs[h]
    BY <1>0, <1>3, <1>5
  <1>10. ListsOK'
    <2>1. acs' \in [Groups -> Seq(G!Entry)]
      BY <1>0, <1>3, <1>5, <1>7 DEF GoodList
    <2> QED BY <1>1, <1>2, <1>7, <1>9, <2>1 DEF ListsOK
  <1>11. FoundersStay
    BY <1>8, <1>9 DEF FoundersStay
  <1> QED BY <1>6, <1>10, <1>11, GroupsInvParts2, StayImplies

LEMMA AccountKeeps ==
    ASSUME G!GroupsAssumption, GroupsInv, NEW a \in Accts,
           (a \in exist /\ G!AccountDeleted(a)) \/ G!AccountRegistered(a)
    PROVE  GroupsInv' /\ G!LastFounderStays
  <1>1. RestOK /\ PlainTemplates /\ ListsOK
    BY GroupsInvParts
  <1>2. CASE G!AccountRegistered(a)
    <2>1. exist' = exist \union {a} /\ UNCHANGED <<name, acs, set, tmpl, invite, freed>>
      BY <1>2 DEF G!AccountRegistered
    <2>2. RestOK' /\ PlainTemplates'
      BY <1>1, <2>1 DEF RestOK, PlainTemplates
    <2>3. exist \subseteq exist'
      BY <2>1
    <2>4. ListsOK'
      BY <1>1, <2>1, <2>3 DEF ListsOK, GoodList
    <2>5. FoundersStay
      BY <2>1 DEF FoundersStay
    <2> QED BY <2>2, <2>4, <2>5, GroupsInvParts2, StayImplies
  <1>3. CASE a \in exist /\ G!AccountDeleted(a)
    <2> DEFINE I(g) == DOMAIN acs[g] \ G!Own(g, a)
    <2>1. /\ exist' = exist \ {a} /\ invite' = [invite EXCEPT ![a] = None]
          /\ acs' = [g \in Groups |-> G!Selected(acs[g], I(g))]
          /\ UNCHANGED <<name, set, tmpl, freed>>
      BY <1>3, Zenon DEF G!AccountDeleted, G!myuser_delete_hook
    <2>2. RestOK' /\ PlainTemplates'
      BY <1>1, <2>1 DEF RestOK, PlainTemplates
    <2>3. ASSUME NEW g \in Groups
          PROVE  /\ GoodList(acs'[g], exist')
                 /\ \A i \in DOMAIN acs[g] : acs[g][i].mt # a /\ "F" \in acs[g][i].flags =>
                                                acs[g][i].mt \in FoundersOf(acs'[g])
      <3>1. \A i \in DOMAIN acs[g] : i \in I(g) <=> acs[g][i].mt # a
        BY DEF G!Own
      <3>2. GoodList(acs[g], exist)
        BY <1>1 DEF ListsOK
      <3>3. \A i \in DOMAIN acs[g] : i \in I(g) /\ acs[g][i].mt \in Accts => acs[g][i].mt \in exist \ {a}
        BY <3>1, <3>2 DEF GoodList
      <3> HIDE DEF I
      <3>4. /\ GoodList(G!Selected(acs[g], I(g)), exist \ {a})
            /\ \A i \in DOMAIN acs[g] : i \in I(g) /\ "F" \in acs[g][i].flags =>
                  acs[g][i].mt \in FoundersOf(G!Selected(acs[g], I(g)))
        BY <3>2, <3>3, Thinned
      <3>5. acs'[g] = G!Selected(acs[g], I(g))
        BY <2>1
      <3> QED BY <3>1, <3>4, <3>5, <2>1
    <2> HIDE DEF I
    <2>4. ListsOK'
      <3>1. acs' \in [Groups -> Seq(G!Entry)]
        BY <2>1, <2>3 DEF GoodList
      <3> QED BY <2>3, <3>1 DEF ListsOK
    <2>5. G!LastFounderStays
      <3> SUFFICES ASSUME NEW g \in G!Alive, ~(G!Founders(g) \subseteq (exist \ exist') \union Groups)
                   PROVE  G!Founders(g)' # {}
        BY DEF G!LastFounderStays
      <3>1. g \in Groups
        BY DEF G!Alive
      <3>2. a \in exist \ exist'
        BY <1>3, <2>1
      <3>3. PICK i \in DOMAIN acs[g] : "F" \in acs[g][i].flags /\ acs[g][i].mt # a
        BY <3>2, FoundersAre DEF FoundersOf
      <3>4. acs[g][i].mt \in FoundersOf(acs'[g])
        BY <3>1, <3>3, <2>3
      <3> QED BY <3>4, FoundersAre
    <2> QED BY <2>2, <2>4, <2>5, GroupsInvParts2
  <1> QED BY <1>2, <1>3

LEMMA RestartKeeps ==
    ASSUME G!GroupsAssumption, GroupsInv, G!Restart PROVE GroupsInv' /\ G!LastFounderStays
  <1> DEFINE I(g) == {i \in DOMAIN acs[g] :
                         LET m == acs[g][i].mt
                         IN  m \in Groups => name[m] # None /\ name[m] <= name[g]}
  <1>1. RestOK /\ PlainTemplates /\ ListsOK
    BY GroupsInvParts
  <1>2. /\ acs' = [g \in Groups |-> G!Selected(acs[g], I(g))]
        /\ UNCHANGED <<exist, name, set, tmpl, invite, freed>>
    BY Zenon DEF G!Restart
  <1>3. RestOK' /\ PlainTemplates'
    BY <1>1, <1>2 DEF RestOK, PlainTemplates
  <1>4. ASSUME NEW g \in Groups
        PROVE  /\ GoodList(acs'[g], exist)
               /\ \A i \in DOMAIN acs[g] : acs[g][i].mt \notin Groups /\ "F" \in acs[g][i].flags =>
                                              acs[g][i].mt \in FoundersOf(acs'[g])
    <2>1. \A i \in DOMAIN acs[g] : acs[g][i].mt \notin Groups => i \in I(g)
      OBVIOUS
    <2>2. GoodList(acs[g], exist)
      BY <1>1 DEF ListsOK
    <2>3. \A i \in DOMAIN acs[g] : i \in I(g) /\ acs[g][i].mt \in Accts => acs[g][i].mt \in exist
      BY <2>2 DEF GoodList
    <2> HIDE DEF I
    <2>4. /\ GoodList(G!Selected(acs[g], I(g)), exist)
          /\ \A i \in DOMAIN acs[g] : i \in I(g) /\ "F" \in acs[g][i].flags =>
                acs[g][i].mt \in FoundersOf(G!Selected(acs[g], I(g)))
      BY <2>2, <2>3, Thinned
    <2>5. acs'[g] = G!Selected(acs[g], I(g))
      BY <1>2
    <2> QED BY <2>1, <2>4, <2>5
  <1> HIDE DEF I
  <1>5. ListsOK'
    <2>1. acs' \in [Groups -> Seq(G!Entry)]
      BY <1>2, <1>4 DEF GoodList
    <2> QED BY <1>2, <1>4, <2>1 DEF ListsOK
  <1>6. G!LastFounderStays
    <2> SUFFICES ASSUME NEW g \in G!Alive, ~(G!Founders(g) \subseteq (exist \ exist') \union Groups)
                 PROVE  G!Founders(g)' # {}
      BY DEF G!LastFounderStays
    <2>1. g \in Groups
      BY DEF G!Alive
    <2>2. PICK i \in DOMAIN acs[g] : "F" \in acs[g][i].flags /\ acs[g][i].mt \notin Groups
      BY FoundersAre DEF FoundersOf
    <2>3. acs[g][i].mt \in FoundersOf(acs'[g])
      BY <2>1, <2>2, <1>4
    <2> QED BY <2>3, FoundersAre
  <1> QED BY <1>3, <1>5, <1>6, GroupsInvParts2

LEMMA GroupsInit == ASSUME G!Init PROVE GroupsInv
  <1>1. /\ exist = Accts /\ name = [g \in Groups |-> None] /\ acs = [g \in Groups |-> <<>>]
        /\ set = [g \in Groups |-> G!NoSettings]
        /\ tmpl = [g \in Groups |-> [t \in TNames |-> {}]]
        /\ invite = [a \in Accts |-> None] /\ freed = FALSE
    BY DEF G!Init
  <1>2. set \in [Groups -> [on : SUBSET Settings, join : SUBSET Flags]]
    BY <1>1 DEF G!NoSettings
  <1>3. tmpl \in [Groups -> [TNames -> SUBSET Flags]]
    BY <1>1
  <1>4. RestOK
    BY <1>1, <1>2, <1>3 DEF RestOK
  <1>5. PlainTemplates
    BY <1>1 DEF PlainTemplates
  <1>6. ListsOK
    BY <1>1 DEF ListsOK, GoodList
  <1> QED BY <1>4, <1>5, <1>6, GroupsInvParts

LEMMA GroupsNext ==
    ASSUME G!GroupsAssumption, GroupsInv, G!Next PROVE GroupsInv' /\ G!LastFounderStays
  <1>1. ASSUME NEW a \in exist, NEW g \in G!Alive,
               \/ \E m \in exist \union G!Alive, fl \in SUBSET Flags :
                    \/ \E star \in BOOLEAN : G!gs_cmd_flags(a, g, m, fl, star)
                    \/ G!gs_cmd_fflags(a, g, m, fl)
        PROVE  GroupsInv' /\ G!LastFounderStays
    BY <1>1, FlagsKeep
  <1>2. ASSUME NEW a \in exist, NEW g \in G!Alive,
               \/ G!gs_cmd_set_open(a, g) \/ G!gs_cmd_set_pubacl(a, g)
               \/ \E n \in GNames : G!gs_cmd_set_groupname(a, g, n)
               \/ \E b \in exist : G!gs_cmd_invite(a, g, b)
               \/ \E fl \in SUBSET Flags : G!gs_cmd_set_joinflags(a, g, fl)
        PROVE  GroupsInv' /\ G!LastFounderStays
    BY <1>2, SettingsKeep
  <1>3. ASSUME NEW g \in G!Alive, G!gs_cmd_acsnolimit(g)
        PROVE  GroupsInv' /\ G!LastFounderStays
    BY <1>3, SettingsKeep
  <1>4. ASSUME NEW a \in exist, NEW g \in G!Alive, G!gs_cmd_join(a, g)
        PROVE  GroupsInv' /\ G!LastFounderStays
    BY <1>4, JoinKeeps
  <1>5. ASSUME NEW a \in exist, NEW g \in G!Alive,
               \E fl \in SUBSET Flags, t \in TNames, all \in BOOLEAN : G!gs_cmd_template(a, g, t, fl, all)
        PROVE  GroupsInv' /\ G!LastFounderStays
    BY <1>5, TemplateKeeps
  <1>6. ASSUME NEW g \in G!Alive,
               (\E a \in exist : G!gs_cmd_drop(a, g)) \/ G!gs_cmd_fdrop(g) \/ G!mygroup_expire
        PROVE  GroupsInv' /\ G!LastFounderStays
    BY <1>6, DeletionKeeps DEF G!gs_cmd_drop, G!gs_cmd_fdrop, G!mygroup_expire
  <1>7. CASE G!mygroup_expire
    BY <1>6, <1>7 DEF G!mygroup_expire
  <1>8. ASSUME NEW a \in exist, NEW g \in Groups, NEW n \in GNames, G!gs_cmd_register(a, g, n)
        PROVE  GroupsInv' /\ G!LastFounderStays
    BY <1>8, RegisterKeeps
  <1>9. ASSUME NEW a \in Accts, (a \in exist /\ G!AccountDeleted(a)) \/ G!AccountRegistered(a)
        PROVE  GroupsInv' /\ G!LastFounderStays
    BY <1>9, AccountKeeps
  <1>10. CASE G!Restart
    BY <1>10, RestartKeeps
  <1> DEFINE Goal == GroupsInv' /\ G!LastFounderStays
  <1>11. ASSUME NEW a \in exist, NEW g \in G!Alive,
               \/ \E m \in exist \union G!Alive, fl \in SUBSET Flags :
                    \/ \E star \in BOOLEAN : G!gs_cmd_flags(a, g, m, fl, star)
                    \/ G!gs_cmd_fflags(a, g, m, fl)
               \/ G!gs_cmd_drop(a, g) \/ G!gs_cmd_join(a, g)
               \/ G!gs_cmd_set_open(a, g) \/ G!gs_cmd_set_pubacl(a, g)
               \/ \E n \in GNames : G!gs_cmd_set_groupname(a, g, n)
               \/ \E b \in exist : G!gs_cmd_invite(a, g, b)
               \/ \E fl \in SUBSET Flags :
                    \/ G!gs_cmd_set_joinflags(a, g, fl)
                    \/ \E t \in TNames, all \in BOOLEAN : G!gs_cmd_template(a, g, t, fl, all)
         PROVE Goal
    <2> HIDE DEF Goal
    <2>1. ASSUME NEW fl \in SUBSET Flags, G!gs_cmd_set_joinflags(a, g, fl) PROVE Goal
      BY <2>1, <1>2, Zenon DEF Goal
    <2>2. ASSUME NEW fl \in SUBSET Flags, NEW t \in TNames, NEW all \in BOOLEAN,
                 G!gs_cmd_template(a, g, t, fl, all)
          PROVE  Goal
      BY <2>2, <1>5, Zenon DEF Goal
    <2>3. CASE G!gs_cmd_drop(a, g)
      BY <2>3, <1>6, Zenon DEF Goal
    <2>4. CASE G!gs_cmd_join(a, g)
      BY <2>4, <1>4, Zenon DEF Goal
    <2>5. CASE \/ G!gs_cmd_set_open(a, g) \/ G!gs_cmd_set_pubacl(a, g)
               \/ \E n \in GNames : G!gs_cmd_set_groupname(a, g, n)
               \/ \E b \in exist : G!gs_cmd_invite(a, g, b)
      BY <2>5, <1>2, Zenon DEF Goal
    <2>6. CASE \E m \in exist \union G!Alive, fl \in SUBSET Flags :
                    \/ \E star \in BOOLEAN : G!gs_cmd_flags(a, g, m, fl, star)
                    \/ G!gs_cmd_fflags(a, g, m, fl)
      BY <2>6, <1>1, Zenon DEF Goal
    <2> QED BY <1>11, <2>1, <2>2, <2>3, <2>4, <2>5, <2>6, Zenon
  <1> HIDE DEF Goal
  <1>12. Goal
    BY <1>3, <1>6, <1>7, <1>8, <1>9, <1>10, <1>11, Zenon DEF G!Next, Goal
  <1> QED BY <1>12 DEF Goal

LEMMA GroupsStep ==
    ASSUME G!GroupsAssumption, GroupsInv, [G!Next]_(G!vars)
    PROVE  GroupsInv' /\ [G!LastFounderStays]_(G!vars)
  <1>1. CASE UNCHANGED G!vars
    <2>1. RestOK' /\ PlainTemplates' /\ ListsOK'
      BY <1>1, GroupsInvParts DEF G!vars, RestOK, PlainTemplates, ListsOK, GoodList
    <2> QED BY <1>1, <2>1, GroupsInvParts2
  <1> QED BY <1>1, GroupsNext

\* Lists of groups hold existing accounts and each of them once
\* (groupserv/main/hooks.c:8, flags.c:230): so groupacs_find() follows no
\* dangling pointer to an account, and FLAGS changes the one entry there is.
THEOREM MembersAlwaysExist ==
    ASSUME G!GroupsAssumption PROVE G!Spec => [](G!TypeOK /\ G!MembersExist)
  <1>1. G!Init => GroupsInv
    BY GroupsInit
  <1>2. GroupsInv /\ [G!Next]_(G!vars) => GroupsInv'
    BY GroupsStep
  <1>3. GroupsInv => G!TypeOK /\ G!MembersExist
    BY DEF GroupsInv
  <1> QED BY <1>1, <1>2, <1>3, PTL DEF G!Spec

\* A group keeps its last founder through all commands (groupserv/flags.c:230),
\* and loses it only with the founder's account or, when the founder is a
\* group, by a restart.
THEOREM LastFoundersStay ==
    ASSUME G!GroupsAssumption PROVE G!Spec => [][G!LastFounderStays]_(G!vars)
  <1>1. G!Init => GroupsInv
    BY GroupsInit
  <1>2. GroupsInv /\ [G!Next]_(G!vars) => GroupsInv'
    BY GroupsStep
  <1>3. GroupsInv /\ [G!Next]_(G!vars) => [G!LastFounderStays]_(G!vars)
    BY GroupsStep
  <1> QED BY <1>1, <1>2, <1>3, PTL DEF G!Spec

-----------------------------------------------------------------------------
(* Memos: the lists, and the counts that are kept beside them. *)

CONSTANTS MS, MaxMemos, MdLimit, MaxIgnores, ReadAtOnce

VARIABLES memos, new, ignores, nomemo

M == INSTANCE Memos

\* A list with the count of its unread memos, within the limit.
GoodBox(s, n) ==
    /\ s \in Seq(M!Memo) /\ Len(s) <= M!Limit
    /\ n = Cardinality(M!UnreadOf(s))

BoxesOK ==
    /\ memos \in [Users -> Seq(M!Memo)] /\ new \in [Users -> Nat]
    /\ \A u \in Users : GoodBox(memos[u], new[u])

\* The types of the rest.
OwnersOK == exist \subseteq Users /\ nomemo \subseteq exist /\ ignores \in [Users -> SUBSET Users]

MemosInv == M!TypeOK /\ M!UnreadCounted

\* The step brings no memo that is not wanted.
AllWanted ==
    \A t \in Users : \A i \in DOMAIN memos'[t] :
        i > Len(memos[t]) =>
            /\ memos'[t][i].from \notin ignores[t]
            /\ t \in nomemo => memos'[t][i].from = MS

LEMMA MCardinality == \A S : M!Cardinality(S) = Cardinality(S)
  BY DEF M!Cardinality, Cardinality

LEMMA MemosInvParts ==
    /\ MemosInv <=> BoxesOK /\ OwnersOK
    /\ MemosInv' <=> BoxesOK' /\ OwnersOK'
  <1>1. MemosInv <=> BoxesOK /\ OwnersOK
    BY MCardinality DEF MemosInv, M!TypeOK, M!UnreadCounted, BoxesOK, OwnersOK, GoodBox
  <1>2. MemosInv' <=> BoxesOK' /\ OwnersOK'
    BY MCardinality DEF MemosInv, M!TypeOK, M!UnreadCounted, BoxesOK, OwnersOK, GoodBox
  <1> QED BY <1>1, <1>2

LEMMA MSelected == ASSUME NEW s, NEW I PROVE M!Selected(s, I) = Selected(s, I)
  BY Zenon DEF M!Selected, Selected

LEMMA MemosConstants ==
    ASSUME M!MemosAssumption
    PROVE  /\ MS \notin Users /\ MaxMemos \in Nat /\ MdLimit \in Nat
           /\ M!Limit \in Nat /\ MaxMemos <= M!Limit /\ MdLimit <= M!Limit
  BY DEF M!MemosAssumption, M!Limit

\* The unread memos of a list.
LEMMA UnreadCount ==
    ASSUME NEW s \in Seq(M!Memo)
    PROVE  /\ M!UnreadOf(s) \subseteq 1 .. Len(s) /\ IsFiniteSet(M!UnreadOf(s))
           /\ Cardinality(M!UnreadOf(s)) \in Nat
  <1>1. M!UnreadOf(s) \subseteq 1 .. Len(s) /\ Len(s) \in Nat
    BY DEF M!UnreadOf
  <1>2. IsFiniteSet(1 .. Len(s))
    BY <1>1, FS_Interval
  <1>3. IsFiniteSet(M!UnreadOf(s))
    BY <1>1, <1>2, FS_Subset
  <1> QED BY <1>1, <1>3, FS_CardinalityType

\* A memo is put at the end.
LEMMA UnreadAdded ==
    ASSUME NEW s \in Seq(M!Memo), NEW m \in M!Memo, ~m.read
    PROVE  /\ Append(s, m) \in Seq(M!Memo) /\ Len(Append(s, m)) = Len(s) + 1
           /\ Cardinality(M!UnreadOf(Append(s, m))) = Cardinality(M!UnreadOf(s)) + 1
           /\ \A i \in DOMAIN Append(s, m) : i > Len(s) => Append(s, m)[i] = m
  <1> DEFINE r == Append(s, m)
             n == Len(s)
  <1>1. n \in Nat /\ DOMAIN s = 1 .. n
    OBVIOUS
  <1>2. r \in Seq(M!Memo) /\ Len(r) = n + 1 /\ DOMAIN r = 1 .. n + 1
    BY <1>1
  <1>3. r[n + 1] = m /\ \A i \in 1 .. n : r[i] = s[i]
    BY <1>1
  <1> HIDE DEF r, n
  <1>4. \A i : i \in 1 .. n + 1 <=> i \in 1 .. n \/ i = n + 1
    BY <1>1
  <1>5. M!UnreadOf(r) = M!UnreadOf(s) \union {n + 1}
    BY <1>1, <1>2, <1>3, <1>4 DEF M!UnreadOf
  <1>6. n + 1 \notin M!UnreadOf(s)
    BY <1>1 DEF M!UnreadOf
  <1>7. Cardinality(M!UnreadOf(r)) = Cardinality(M!UnreadOf(s)) + 1
    BY <1>5, <1>6, UnreadCount, FS_AddElement
  <1>8. \A i \in DOMAIN r : i > n => r[i] = m
    BY <1>1, <1>2, <1>3
  <1> QED BY <1>2, <1>7, <1>8 DEF r, n

\* Some memos are marked as read.
LEMMA UnreadMarked ==
    ASSUME NEW s \in Seq(M!Memo), NEW which \in SUBSET DOMAIN s
    PROVE  LET r == [i \in DOMAIN s |-> IF i \in which THEN [s[i] EXCEPT !.read = TRUE] ELSE s[i]]
           IN  /\ r \in Seq(M!Memo) /\ Len(r) = Len(s)
               /\ Cardinality(M!UnreadOf(r))
                      = Cardinality(M!UnreadOf(s)) - Cardinality(which \intersect M!UnreadOf(s))
  <1> DEFINE n == Len(s)
             r == [i \in 1 .. n |-> IF i \in which THEN [s[i] EXCEPT !.read = TRUE] ELSE s[i]]
  <1>1. n \in Nat /\ DOMAIN s = 1 .. n /\ \A i \in 1 .. n : s[i] \in M!Memo
    OBVIOUS
  <1>2. \A i \in 1 .. n : [s[i] EXCEPT !.read = TRUE] \in M!Memo /\ [s[i] EXCEPT !.read = TRUE].read
    BY <1>1 DEF M!Memo
  <1>3. r \in [1 .. n -> M!Memo]
    BY <1>1, <1>2
  <1>4. r \in Seq(M!Memo) /\ Len(r) = n /\ DOMAIN r = 1 .. n
    BY <1>1, <1>3
  <1>5. M!UnreadOf(r) = M!UnreadOf(s) \ which
    BY <1>1, <1>2, <1>4 DEF M!UnreadOf
  <1> HIDE DEF r
  <1>6. Cardinality(M!UnreadOf(r))
            = Cardinality(M!UnreadOf(s)) - Cardinality(M!UnreadOf(s) \intersect which)
    BY <1>5, UnreadCount, FS_Difference
  <1>7. M!UnreadOf(s) \intersect which = which \intersect M!UnreadOf(s)
    OBVIOUS
  <1> QED BY <1>1, <1>4, <1>6, <1>7 DEF r

\* Some are taken out.
LEMMA UnreadWithout ==
    ASSUME NEW s \in Seq(M!Memo), NEW which \in SUBSET DOMAIN s
    PROVE  LET r == M!Without(s, which)
           IN  /\ r \in Seq(M!Memo) /\ Len(r) <= Len(s)
               /\ Cardinality(M!UnreadOf(r))
                      = Cardinality(M!UnreadOf(s)) - Cardinality(which \intersect M!UnreadOf(s))
  <1> DEFINE n == Len(s)
             I == DOMAIN s \ which
             r == Selected(s, I)
  <1>1. n \in Nat /\ DOMAIN s = 1 .. n
    OBVIOUS
  <1>2. r \in Seq(M!Memo) /\ \E h : Embeds(r, s, I, n, h)
    BY SelectedResult, Zenon
  <1>3. PICK h : Embeds(r, s, I, n, h)
    BY <1>2
  <1> HIDE DEF r
  <1>4. Len(r) \in Nat /\ DOMAIN r = 1 .. Len(r)
    BY <1>2
  <1> DEFINE l == Len(r)
  <1>5. /\ \A k \in 1 .. l : h[k] \in 1 .. n /\ h[k] \notin which /\ r[k] = s[h[k]]
        /\ h \in [1 .. l -> 1 .. n]
    BY <1>1, <1>3 DEF Embeds
  <1>6. \A j, k \in 1 .. l : h[j] = h[k] => j = k
    <2> SUFFICES ASSUME NEW j \in 1 .. l, NEW k \in 1 .. l, h[j] = h[k], j # k PROVE FALSE
      OBVIOUS
    <2>1. j < k \/ k < j
      BY <1>4
    <2>2. h[j] < h[k] \/ h[k] < h[j]
      BY <2>1, <1>3 DEF Embeds
    <2> QED BY <2>2, <1>5, <1>1
  <1>7. l <= n
    <2>1. h \in Injection(1 .. l, 1 .. n)
      BY <1>5, <1>6 DEF Injection, IsInjective
    <2>2. IsFiniteSet(1 .. n) /\ Cardinality(1 .. n) = n /\ Cardinality(1 .. l) = l
      <3> HIDE DEF l, n
      <3>1. \A m \in Nat : IsFiniteSet(1 .. m) /\ Cardinality(1 .. m) = IF 1 > m THEN 0 ELSE m - 1 + 1
        BY FS_Interval
      <3>2. \A m \in Nat : Cardinality(1 .. m) = m
        BY <3>1
      <3>3. n \in Nat /\ l \in Nat
        BY <1>1, <1>4 DEF l
      <3> QED BY <3>1, <3>2, <3>3
    <2>3. Cardinality(1 .. l) <= Cardinality(1 .. n)
      BY <2>1, <2>2, FS_Injection
    <2> QED BY <2>2, <2>3
  <1> DEFINE U == M!UnreadOf(s) \ which
             b == [k \in M!UnreadOf(r) |-> h[k]]
  <1>8. b \in Bijection(M!UnreadOf(r), U)
    <2>1. \A k \in M!UnreadOf(r) : k \in 1 .. l /\ h[k] \in U
      BY <1>1, <1>4, <1>5 DEF M!UnreadOf
    <2>2. \A i \in U : \E k \in M!UnreadOf(r) : h[k] = i
      <3> SUFFICES ASSUME NEW i \in U PROVE \E k \in M!UnreadOf(r) : h[k] = i
        OBVIOUS
      <3>1. i \in 1 .. n /\ i \in I /\ ~s[i].read
        BY <1>1 DEF M!UnreadOf
      <3>2. PICK k \in 1 .. l : h[k] = i
        BY <3>1, <1>3 DEF Embeds
      <3>3. k \in M!UnreadOf(r)
        BY <3>1, <3>2, <1>4, <1>5 DEF M!UnreadOf
      <3> QED BY <3>2, <3>3
    <2> HIDE DEF U
    <2>3. b \in [M!UnreadOf(r) -> U]
      BY <2>1
    <2>4. \A j, k \in M!UnreadOf(r) : b[j] = b[k] => j = k
      BY <2>1, <1>6
    <2>5. \A i \in U : \E k \in M!UnreadOf(r) : b[k] = i
      BY <2>2
    <2> QED BY <2>3, <2>4, <2>5 DEF Bijection, Injection, Surjection, IsInjective
  <1>9. Cardinality(U) = Cardinality(M!UnreadOf(r))
    <2>1. IsFiniteSet(M!UnreadOf(r))
      BY <1>2, UnreadCount
    <2> HIDE DEF U, b
    <2>2. ExistsBijection(M!UnreadOf(r), U)
      BY <1>8 DEF ExistsBijection
    <2> QED BY <2>1, <2>2, FS_Bijection
  <1>10. Cardinality(U) = Cardinality(M!UnreadOf(s)) - Cardinality(M!UnreadOf(s) \intersect which)
    BY UnreadCount, FS_Difference
  <1>11. M!UnreadOf(s) \intersect which = which \intersect M!UnreadOf(s)
    OBVIOUS
  <1>12. M!Without(s, which) = r
    BY MSelected DEF M!Without, r
  <1> QED BY <1>2, <1>7, <1>9, <1>10, <1>11, <1>12

\* A box stays good with one memo more.
LEMMA BoxAdded ==
    ASSUME M!MemosAssumption, NEW s, NEW n, GoodBox(s, n), Len(s) < M!Limit,
           NEW m \in M!Memo, ~m.read
    PROVE  GoodBox(Append(s, m), n + 1)
  <1>1. Len(s) \in Nat /\ M!Limit \in Nat
    BY MemosConstants DEF GoodBox
  <1> QED BY <1>1, UnreadAdded DEF GoodBox

LEMMA BoxType == ASSUME NEW s, NEW n, GoodBox(s, n) PROVE s \in Seq(M!Memo) /\ n \in Nat /\ Len(s) \in Nat
  BY UnreadCount DEF GoodBox

LEMMA EmptyBox == ASSUME M!MemosAssumption PROVE GoodBox(<<>>, 0)
  <1>1. M!UnreadOf(<<>>) = {}
    BY DEF M!UnreadOf
  <1>2. Cardinality(M!UnreadOf(<<>>)) = 0
    BY <1>1, FS_EmptySet
  <1>3. Len(<<>>) <= M!Limit
    BY MemosConstants
  <1> QED BY <1>2, <1>3 DEF GoodBox

LEMMA BoxesFrom ==
    ASSUME NEW ms, NEW ns, memos' = [u \in Users |-> ms[u]], new' = [u \in Users |-> ns[u]],
           \A u \in Users : GoodBox(ms[u], ns[u])
    PROVE  BoxesOK'
  <1>1. \A u \in Users : ms[u] \in Seq(M!Memo) /\ ns[u] \in Nat
    BY BoxType
  <1>2. \A u \in Users : memos'[u] = ms[u] /\ new'[u] = ns[u]
    OBVIOUS
  <1>3. \A u \in Users : GoodBox(memos'[u], new'[u])
    BY <1>2
  <1>4. memos' \in [Users -> Seq(M!Memo)] /\ new' \in [Users -> Nat]
    BY <1>1
  <1> QED BY <1>3, <1>4 DEF BoxesOK, GoodBox

LEMMA MemosAdd ==
    ASSUME M!MemosAssumption, MemosInv, NEW tos, NEW m \in M!Memo, ~m.read, M!Add(tos, m),
           \A t \in tos \intersect Users : Len(memos[t]) < M!Limit,
           \A t \in tos \intersect Users : m.from \notin ignores[t] /\ (t \in nomemo => m.from = MS)
    PROVE  MemosInv' /\ AllWanted
  <1> DEFINE ms == [u \in Users |-> IF u \in tos THEN Append(memos[u], m) ELSE memos[u]]
             ns == [u \in Users |-> IF u \in tos THEN new[u] + 1 ELSE new[u]]
  <1>1. memos' = ms /\ new' = ns /\ UNCHANGED <<exist, ignores, nomemo>>
    BY DEF M!Add
  <1>2. \A u \in Users : GoodBox(memos[u], new[u])
    BY MemosInvParts DEF BoxesOK
  <1>3. \A u \in Users : GoodBox(ms[u], ns[u])
    <2> SUFFICES ASSUME NEW u \in Users PROVE GoodBox(ms[u], ns[u])
      OBVIOUS
    <2>1. CASE u \in tos
      <3>1. GoodBox(Append(memos[u], m), new[u] + 1)
        BY <2>1, <1>2, BoxAdded
      <3> QED BY <3>1, <2>1
    <2>2. CASE u \notin tos
      BY <2>2, <1>2
    <2> QED BY <2>1, <2>2
  <1>4. BoxesOK'
    <2>1. ms = [u \in Users |-> ms[u]] /\ ns = [u \in Users |-> ns[u]]
      OBVIOUS
    <2> HIDE DEF ms, ns
    <2> QED BY <1>1, <1>3, <2>1, BoxesFrom
  <1>5. OwnersOK'
    BY <1>1, MemosInvParts DEF OwnersOK
  <1>6. AllWanted
    <2> SUFFICES ASSUME NEW t \in Users, NEW i \in DOMAIN memos'[t], i > Len(memos[t])
                 PROVE  memos'[t][i].from \notin ignores[t] /\ (t \in nomemo => memos'[t][i].from = MS)
      BY DEF AllWanted
    <2>0. memos[t] \in Seq(M!Memo)
      BY <1>2, BoxType
    <2>1. CASE t \in tos
      <3>1. memos'[t] = Append(memos[t], m)
        BY <2>1, <1>1
      <3>2. memos'[t][i] = m
        BY <3>1, <2>0, UnreadAdded
      <3> QED BY <3>2, <2>1
    <2>2. CASE t \notin tos
      <3>1. memos'[t] = memos[t]
        BY <2>2, <1>1
      <3> QED BY <3>1, <2>0
    <2> QED BY <2>1, <2>2
  <1> QED BY <1>4, <1>5, <1>6, MemosInvParts

LEMMA MemosRead ==
    ASSUME M!MemosAssumption, MemosInv, NEW u \in Users, NEW which \in SUBSET DOMAIN memos[u],
           NEW r \in Users \union {MS}, r # MS => Len(memos[r]) < M!Limit, M!Read(u, which, r)
    PROVE  MemosInv' /\ AllWanted
  <1> DEFINE marked == [i \in DOMAIN memos[u] |->
                 IF i \in which THEN [memos[u][i] EXCEPT !.read = TRUE] ELSE memos[u][i]]
             seen == Cardinality(which \intersect M!UnreadOf(memos[u]))
             lists == [memos EXCEPT ![u] = marked]
             counts == [new EXCEPT ![u] = @ - seen]
             note == M!Unread(MS, FALSE)
             ms == [v \in Users |-> IF v = r THEN Append(lists[v], note) ELSE lists[v]]
             ns == [v \in Users |-> IF v = r THEN counts[v] + 1 ELSE counts[v]]
  <1>1. /\ memos' = IF r = MS THEN lists ELSE [lists EXCEPT ![r] = Append(@, note)]
        /\ new' = IF r = MS THEN counts ELSE [counts EXCEPT ![r] = @ + 1]
        /\ UNCHANGED <<exist, ignores, nomemo>>
    BY MCardinality DEF M!Read
  <1>2. BoxesOK /\ OwnersOK
    BY MemosInvParts
  <1>3. lists \in [Users -> Seq(M!Memo)] /\ DOMAIN counts = Users
        /\ \A v \in Users : /\ lists[v] = IF v = u THEN marked ELSE memos[v]
                            /\ counts[v] = IF v = u THEN new[u] - seen ELSE new[v]
                            /\ Len(lists[v]) = Len(memos[v])
    <2>1. marked \in Seq(M!Memo) /\ Len(marked) = Len(memos[u])
      BY <1>2, UnreadMarked DEF BoxesOK
    <2> HIDE DEF marked, seen
    <2> QED BY <2>1, <1>2 DEF BoxesOK
  <1>4. \A v \in Users : GoodBox(lists[v], counts[v])
    <2>1. GoodBox(marked, new[u] - seen)
      <3>1. GoodBox(memos[u], new[u])
        BY <1>2 DEF BoxesOK
      <3> QED BY <3>1, UnreadMarked DEF GoodBox
    <2> HIDE DEF marked, seen
    <2> QED BY <2>1, <1>2, <1>3 DEF BoxesOK
  <1> HIDE DEF marked, seen, lists, counts
  <1>5. note \in M!Memo /\ ~note.read /\ note.from = MS
    BY DEF M!Memo, M!Unread
  <1> HIDE DEF note
  <1>6. memos' = ms /\ new' = ns
    <2>1. CASE r = MS
      <3>1. \A v \in Users : v # r
        BY <2>1, MemosConstants
      <3>2. ms = [v \in Users |-> lists[v]] /\ ns = [v \in Users |-> counts[v]]
        BY <3>1
      <3>3. lists = [v \in Users |-> lists[v]] /\ counts = [v \in Users |-> counts[v]]
        <4>1. counts = [new EXCEPT ![u] = @ - seen]
          BY DEF counts
        <4> QED BY <1>3, <4>1
      <3> QED BY <1>1, <2>1, <3>2, <3>3
    <2>2. CASE r # MS
      BY <1>1, <1>3, <2>2
    <2> QED BY <2>1, <2>2
  <1>7. \A v \in Users : GoodBox(ms[v], ns[v])
    <2> SUFFICES ASSUME NEW v \in Users PROVE GoodBox(ms[v], ns[v])
      OBVIOUS
    <2>1. CASE v = r
      <3>0. v # MS /\ Len(lists[v]) < M!Limit
        BY <2>1, <1>3, MemosConstants
      <3>1. GoodBox(Append(lists[v], note), counts[v] + 1)
        BY <3>0, <1>4, <1>5, BoxAdded
      <3> QED BY <3>1, <2>1
    <2>2. CASE v # r
      BY <2>2, <1>4
    <2> QED BY <2>1, <2>2
  <1>8. BoxesOK'
    <2>1. ms = [v \in Users |-> ms[v]] /\ ns = [v \in Users |-> ns[v]]
      OBVIOUS
    <2> HIDE DEF ms, ns
    <2> QED BY <1>6, <1>7, <2>1, BoxesFrom
  <1>9. OwnersOK'
    BY <1>1, <1>2 DEF OwnersOK
  <1>10. AllWanted
    <2> SUFFICES ASSUME NEW t \in Users, NEW i \in DOMAIN memos'[t], i > Len(memos[t])
                 PROVE  memos'[t][i].from \notin ignores[t] /\ (t \in nomemo => memos'[t][i].from = MS)
      BY DEF AllWanted
    <2>0. lists[t] \in Seq(M!Memo) /\ Len(lists[t]) = Len(memos[t])
      BY <1>3
    <2>1. CASE t = r
      <3>1. memos'[t] = Append(lists[t], note)
        BY <2>1, <1>6
      <3>2. memos'[t][i] = note
        BY <3>1, <2>0, <1>5, UnreadAdded
      <3>3. MS \notin ignores[t]
        BY <1>2, MemosConstants DEF OwnersOK
      <3> QED BY <3>2, <3>3, <1>5
    <2>2. CASE t # r
      <3>1. memos'[t] = lists[t]
        BY <2>2, <1>6
      <3> QED BY <3>1, <2>0
    <2> QED BY <2>1, <2>2
  <1> QED BY <1>8, <1>9, <1>10, MemosInvParts

LEMMA MemosDeleted ==
    ASSUME M!MemosAssumption, MemosInv, NEW u \in Users, NEW which \in SUBSET DOMAIN memos[u],
           M!Deleted(u, which), UNCHANGED <<exist, ignores, nomemo>>
    PROVE  MemosInv' /\ AllWanted
  <1> DEFINE left == M!Without(memos[u], which)
             seen == Cardinality(which \intersect M!UnreadOf(memos[u]))
             ms == [memos EXCEPT ![u] = left]
             ns == [new EXCEPT ![u] = @ - seen]
  <1>1. memos' = ms /\ new' = ns
    BY MCardinality DEF M!Deleted
  <1>2. BoxesOK /\ OwnersOK
    BY MemosInvParts
  <1>3. left \in Seq(M!Memo) /\ Len(left) <= Len(memos[u]) /\ GoodBox(left, new[u] - seen)
    <2>1. GoodBox(memos[u], new[u]) /\ memos[u] \in Seq(M!Memo)
      BY <1>2 DEF BoxesOK
    <2>2. /\ left \in Seq(M!Memo) /\ Len(left) <= Len(memos[u])
          /\ Cardinality(M!UnreadOf(left)) = Cardinality(M!UnreadOf(memos[u])) - seen
      BY <2>1, UnreadWithout
    <2>3. Len(left) \in Nat /\ Len(memos[u]) \in Nat /\ M!Limit \in Nat
      BY <2>1, <2>2, MemosConstants
    <2> QED BY <2>1, <2>2, <2>3 DEF GoodBox
  <1> HIDE DEF left, seen
  <1>4. DOMAIN memos = Users /\ DOMAIN new = Users
    BY <1>2 DEF BoxesOK
  <1>5. \A v \in Users : ms[v] = IF v = u THEN left ELSE memos[v]
    BY <1>4
  <1>6. \A v \in Users : ns[v] = IF v = u THEN new[u] - seen ELSE new[v]
    BY <1>4
  <1>7. ms = [v \in Users |-> ms[v]] /\ ns = [v \in Users |-> ns[v]]
    BY <1>4
  <1> HIDE DEF ms, ns
  <1>8. \A v \in Users : GoodBox(ms[v], ns[v])
    BY <1>2, <1>3, <1>5, <1>6 DEF BoxesOK
  <1>9. BoxesOK'
    BY <1>1, <1>7, <1>8, BoxesFrom
  <1>10. OwnersOK'
    BY <1>2 DEF OwnersOK
  <1>11. AllWanted
    <2>0. \A t \in Users : memos[t] \in Seq(M!Memo) /\ Len(memos[t]) \in Nat
      BY <1>2 DEF BoxesOK
    <2>1. \A t \in Users : memos'[t] \in Seq(M!Memo) /\ memos[t] \in Seq(M!Memo)
                           /\ Len(memos'[t]) <= Len(memos[t])
      <3> SUFFICES ASSUME NEW t \in Users
                   PROVE  /\ memos'[t] \in Seq(M!Memo) /\ memos[t] \in Seq(M!Memo)
                          /\ Len(memos'[t]) <= Len(memos[t])
        OBVIOUS
      <3>1. CASE t = u
        BY <3>1, <2>0, <1>1, <1>3, <1>5
      <3>2. CASE t # u
        <4>1. memos'[t] = memos[t]
          BY <3>2, <1>1, <1>5
        <4> QED BY <4>1, <2>0
      <3> QED BY <3>1, <3>2
    <2>2. \A t \in Users : \A i \in DOMAIN memos'[t] : ~(i > Len(memos[t]))
      BY <2>1
    <2> QED BY <2>2 DEF AllWanted
  <1> QED BY <1>9, <1>10, <1>11, MemosInvParts

\* The commands that send.
LEMMA MemosSend ==
    ASSUME M!MemosAssumption, MemosInv, NEW s \in exist, NEW tos, NEW ch \in BOOLEAN,
           M!send_user_memo(s, tos, ch)
    PROVE  MemosInv' /\ AllWanted
  <1> DEFINE to == M!Receives(tos, s)
             m == M!Unread(s, ch)
  <1>1. M!Add(to, m)
    BY DEF M!send_user_memo
  <1>2. OwnersOK /\ BoxesOK
    BY MemosInvParts
  <1>3. m \in M!Memo /\ ~m.read /\ m.from = s
    BY <1>2 DEF M!Memo, M!Unread, OwnersOK
  <1>4. \A t \in to \intersect Users : t \notin nomemo /\ Len(memos[t]) < MaxMemos /\ s \notin ignores[t]
    BY DEF M!Receives
  <1>5. \A t \in Users : Len(memos[t]) < MaxMemos => Len(memos[t]) < M!Limit
    <2>1. \A t \in Users : Len(memos[t]) \in Nat
      BY <1>2 DEF BoxesOK
    <2> QED BY <2>1, MemosConstants
  <1> HIDE DEF to, m
  <1> QED BY <1>1, <1>3, <1>4, <1>5, MemosAdd

LEMMA MemosSendOthers ==
    ASSUME M!MemosAssumption, MemosInv, NEW s \in exist,
           \/ M!ms_cmd_sendall(s) \/ M!send_user_memo_misc(s)
           \/ \E t \in exist : M!ms_cmd_forward(s, t)
    PROVE  MemosInv' /\ AllWanted
  <1>1. OwnersOK /\ BoxesOK
    BY MemosInvParts
  <1>2. \A t \in Users : Len(memos[t]) < MaxMemos \/ Len(memos[t]) < MdLimit => Len(memos[t]) < M!Limit
    <2>1. \A t \in Users : Len(memos[t]) \in Nat
      BY <1>1 DEF BoxesOK
    <2> QED BY <2>1, MemosConstants
  <1>3. \A f \in Users \union {MS}, ch \in BOOLEAN :
            M!Unread(f, ch) \in M!Memo /\ ~M!Unread(f, ch).read /\ M!Unread(f, ch).from = f
    BY DEF M!Memo, M!Unread
  <1>4. s \in Users /\ MS \notin Users /\ \A t \in Users : ignores[t] \subseteq Users
    BY <1>1, MemosConstants DEF OwnersOK
  <1>5. CASE M!ms_cmd_sendall(s)
    <2> DEFINE to == M!Listening(s)
               m == M!Unread(s, TRUE)
    <2>1. M!Add(to, m)
      BY <1>5 DEF M!ms_cmd_sendall
    <2>2. \A t \in to : t \in Users /\ t \notin nomemo /\ Len(memos[t]) < MaxMemos /\ s \notin ignores[t]
      BY <1>1 DEF M!Listening, OwnersOK
    <2>3. m \in M!Memo /\ ~m.read /\ m.from = s
      BY <1>3, <1>4
    <2> HIDE DEF to, m
    <2> QED BY <2>1, <2>2, <2>3, <1>2, MemosAdd
  <1>6. CASE M!send_user_memo_misc(s)
    <2>1. PICK ch \in BOOLEAN : M!Add({s}, M!Unread(MS, ch))
      BY <1>6 DEF M!send_user_memo_misc
    <2>2. s \notin nomemo /\ Len(memos[s]) < MaxMemos
      BY <1>6 DEF M!send_user_memo_misc
    <2> DEFINE m == M!Unread(MS, ch)
    <2>3. m \in M!Memo /\ ~m.read /\ m.from = MS
      BY <1>3
    <2>4. M!Add({s}, m)
      BY <2>1
    <2> HIDE DEF m
    <2>5. \A t \in {s} \intersect Users : Len(memos[t]) < M!Limit
      BY <2>2, <1>2
    <2>6. \A t \in {s} \intersect Users : m.from \notin ignores[t] /\ (t \in nomemo => m.from = MS)
      BY <2>2, <2>3, <1>4
    <2> QED BY <2>3, <2>4, <2>5, <2>6, MemosAdd
  <1>7. CASE \E t \in exist : M!ms_cmd_forward(s, t)
    <2>1. PICK t \in exist : M!ms_cmd_forward(s, t)
      BY <1>7
    <2>2. M!Add({t}, M!Unread(s, FALSE)) /\ t \notin nomemo /\ Len(memos[t]) < MdLimit /\ s \notin ignores[t]
      BY <2>1 DEF M!ms_cmd_forward
    <2> DEFINE m == M!Unread(s, FALSE)
    <2>3. m \in M!Memo /\ ~m.read /\ m.from = s /\ M!Add({t}, m)
      BY <2>2, <1>3, <1>4
    <2> HIDE DEF m
    <2>4. \A v \in {t} \intersect Users : Len(memos[v]) < M!Limit
      BY <2>2, <1>2
    <2>5. \A v \in {t} \intersect Users : m.from \notin ignores[v] /\ (v \in nomemo => m.from = MS)
      BY <2>2, <2>3
    <2> QED BY <2>3, <2>4, <2>5, MemosAdd
  <1> QED BY <1>5, <1>6, <1>7

\* READ, with its receipt.
LEMMA MemosReads ==
    ASSUME M!MemosAssumption, MemosInv, NEW u \in exist, NEW on, M!ms_cmd_read(u, on)
    PROVE  MemosInv' /\ AllWanted
  <1>1. OwnersOK /\ BoxesOK
    BY MemosInvParts
  <1>2. u \in Users
    BY <1>1 DEF OwnersOK
  <1>3. \A m : M!Receipted(m, on) => m.from \in Users /\ Len(memos[m.from]) < M!Limit
    <2> SUFFICES ASSUME NEW m, M!Receipted(m, on)
                 PROVE  m.from \in Users /\ Len(memos[m.from]) < M!Limit
      OBVIOUS
    <2>1. m.from \in exist /\ Len(memos[m.from]) < MdLimit
      BY DEF M!Receipted
    <2>2. m.from \in Users /\ Len(memos[m.from]) \in Nat
      BY <2>1, <1>1 DEF OwnersOK, BoxesOK
    <2> QED BY <2>1, <2>2, MemosConstants
  <1>4. \E which \in SUBSET DOMAIN memos[u], r \in Users \union {MS} :
            (r # MS => Len(memos[r]) < M!Limit) /\ M!Read(u, which, r)
    <2>1. CASE M!ReadNew(u, on)
      <3> DEFINE unread == M!UnreadOf(memos[u])
                 stops == {i \in unread :
                             \/ M!Receipted(memos[u][i], on)
                             \/ M!Cardinality({j \in unread : j <= i}) = ReadAtOnce}
                 last == IF stops = {} THEN Len(memos[u])
                         ELSE CHOOSE i \in stops : \A j \in stops : i <= j
                 which == {i \in unread : i <= last}
                 r == IF last \in stops /\ M!Receipted(memos[u][last], on) THEN memos[u][last].from ELSE MS
      <3>1. M!Read(u, which, r)
        BY <2>1, Zenon DEF M!ReadNew
      <3>2. which \subseteq DOMAIN memos[u]
        BY DEF M!UnreadOf
      <3>3. r \in Users \union {MS} /\ (r # MS => Len(memos[r]) < M!Limit)
        BY <1>3
      <3> HIDE DEF which, r
      <3> QED BY <3>1, <3>2, <3>3
    <2>2. CASE \E i \in 1 .. M!Limit : M!ReadOne(u, i, on)
      <3>1. PICK i : M!ReadOne(u, i, on)
        BY <2>2
      <3> DEFINE r == IF M!Receipted(memos[u][i], on) THEN memos[u][i].from ELSE MS
      <3>2. i \in DOMAIN memos[u] /\ M!Read(u, {i}, r)
        BY <3>1, Zenon DEF M!ReadOne
      <3>3. r \in Users \union {MS} /\ (r # MS => Len(memos[r]) < M!Limit)
        BY <1>3
      <3> HIDE DEF r
      <3>4. {i} \in SUBSET DOMAIN memos[u]
        BY <3>2
      <3> QED BY <3>2, <3>3, <3>4
    <2> QED BY <2>1, <2>2 DEF M!ms_cmd_read
  <1>5. PICK which \in SUBSET DOMAIN memos[u], r \in Users \union {MS} :
            (r # MS => Len(memos[r]) < M!Limit) /\ M!Read(u, which, r)
    BY <1>4
  <1>6. r # MS => Len(memos[r]) < M!Limit
    BY <1>5
  <1>7. M!Read(u, which, r)
    BY <1>5
  <1> QED BY <1>2, <1>6, <1>7, MemosRead

LEMMA MemosDelete ==
    ASSUME M!MemosAssumption, MemosInv, NEW u \in exist, M!ms_cmd_delete(u)
    PROVE  MemosInv' /\ AllWanted
  <1>1. u \in Users
    BY MemosInvParts DEF OwnersOK
  <1>2. PICK which \in M!Numbers(u) \union {M!All(u), M!Old(u)} : M!Deleted(u, which)
    BY DEF M!ms_cmd_delete
  <1>3. UNCHANGED <<exist, ignores, nomemo>>
    BY DEF M!ms_cmd_delete
  <1>4. which \in SUBSET DOMAIN memos[u]
    BY DEF M!Numbers, M!All, M!Old
  <1> QED BY <1>1, <1>2, <1>3, <1>4, MemosDeleted

\* The settings, and accounts and restarts.
LEMMA MemosSettings ==
    ASSUME MemosInv, NEW u \in exist,
           \/ \E t : M!ms_cmd_ignore_add(u, t) \/ M!ms_cmd_ignore_del(u, t)
           \/ M!ms_cmd_ignore_clear(u) \/ M!ns_cmd_set_nomemo(u)
    PROVE  MemosInv' /\ AllWanted
  <1>1. OwnersOK /\ BoxesOK
    BY MemosInvParts
  <1>2. UNCHANGED <<exist, memos, new>>
    BY DEF M!ms_cmd_ignore_add, M!ms_cmd_ignore_del, M!ms_cmd_ignore_clear, M!ns_cmd_set_nomemo
  <1>3. BoxesOK'
    BY <1>1, <1>2 DEF BoxesOK, GoodBox
  <1>4. ignores' \in [Users -> SUBSET Users] /\ nomemo' \subseteq exist
    <2>1. CASE M!ns_cmd_set_nomemo(u)
      BY <2>1, <1>1 DEF M!ns_cmd_set_nomemo, OwnersOK
    <2>2. CASE \E t : M!ms_cmd_ignore_add(u, t)
      BY <2>2, <1>1 DEF M!ms_cmd_ignore_add, OwnersOK
    <2>3. CASE M!ms_cmd_ignore_clear(u) \/ \E t : M!ms_cmd_ignore_del(u, t)
      BY <2>3, <1>1 DEF M!ms_cmd_ignore_clear, M!ms_cmd_ignore_del, OwnersOK
    <2> QED BY <2>1, <2>2, <2>3
  <1>5. OwnersOK'
    BY <1>1, <1>2, <1>4 DEF OwnersOK
  <1>6. AllWanted
    <2>1. \A t \in Users : memos[t] \in Seq(M!Memo)
      BY <1>1 DEF BoxesOK
    <2>2. \A t \in Users : \A i \in DOMAIN memos[t] : ~(i > Len(memos[t]))
      BY <2>1
    <2> QED BY <1>2, <2>2 DEF AllWanted
  <1> QED BY <1>3, <1>5, <1>6, MemosInvParts

LEMMA MemosAccounts ==
    ASSUME M!MemosAssumption, MemosInv,
           \/ \E u \in exist : M!myuser_delete(u)
           \/ \E u \in Users : M!Register(u)
           \/ M!corestorage_h_me
    PROVE  MemosInv' /\ AllWanted
  <1>1. OwnersOK /\ BoxesOK
    BY MemosInvParts
  <1>2. \A t \in Users : memos[t] \in Seq(M!Memo) /\ \A i \in DOMAIN memos[t] : ~(i > Len(memos[t]))
    BY <1>1 DEF BoxesOK
  <1>3. CASE \E u \in exist : M!myuser_delete(u)
    <2>1. PICK u \in exist : M!myuser_delete(u)
      BY <1>3
    <2>2. \A t \in Users : /\ memos'[t] = IF t = u THEN <<>> ELSE memos[t]
                           /\ new'[t] = IF t = u THEN 0 ELSE new[t]
      BY <2>1, <1>1 DEF M!myuser_delete, BoxesOK
    <2>3. OwnersOK'
      BY <2>1, <1>1 DEF M!myuser_delete, OwnersOK
    <2>4. GoodBox(<<>>, 0)
      BY EmptyBox
    <2>5. \A t \in Users : GoodBox(memos'[t], new'[t])
      BY <2>2, <2>4, <1>1 DEF BoxesOK
    <2>6. memos' = [t \in Users |-> memos'[t]] /\ new' = [t \in Users |-> new'[t]]
      BY <2>1, <1>1 DEF M!myuser_delete, BoxesOK
    <2>7. BoxesOK'
      BY <2>5, <2>6, BoxesFrom
    <2>8. AllWanted
      <3>1. \A t \in Users : \A i \in DOMAIN memos'[t] : ~(i > Len(memos[t]))
        BY <1>2, <2>2
      <3> QED BY <3>1 DEF AllWanted
    <2> QED BY <2>3, <2>7, <2>8, MemosInvParts
  <1>4. CASE \E u \in Users : M!Register(u)
    <2>1. UNCHANGED <<memos, new, ignores, nomemo>> /\ exist \subseteq exist' /\ exist' \subseteq Users
      BY <1>4, <1>1 DEF M!Register, OwnersOK
    <2>2. OwnersOK' /\ BoxesOK'
      BY <2>1, <1>1 DEF OwnersOK, BoxesOK, GoodBox
    <2> QED BY <2>1, <2>2, <1>2, MemosInvParts DEF AllWanted
  <1>5. CASE M!corestorage_h_me
    <2>1. UNCHANGED <<exist, memos, ignores, nomemo>>
      BY <1>5 DEF M!corestorage_h_me
    <2>2. new' = [u \in Users |-> Cardinality(M!UnreadOf(memos[u]))]
      BY <1>5, MCardinality DEF M!corestorage_h_me
    <2>3. \A u \in Users : new'[u] = new[u]
      BY <2>2, <1>1 DEF BoxesOK, GoodBox
    <2>4. OwnersOK' /\ BoxesOK'
      <3>1. new' = new
        BY <2>2, <2>3, <1>1 DEF BoxesOK
      <3> QED BY <3>1, <2>1, <1>1 DEF OwnersOK, BoxesOK, GoodBox
    <2> QED BY <2>1, <2>4, <1>2, MemosInvParts DEF AllWanted
  <1> QED BY <1>3, <1>4, <1>5

LEMMA MemosInit == ASSUME M!MemosAssumption, M!Init PROVE MemosInv
  <1>1. GoodBox(<<>>, 0)
    BY EmptyBox
  <1>2. memos = [u \in Users |-> <<>>] /\ new = [u \in Users |-> 0] /\ OwnersOK
    BY DEF M!Init, OwnersOK
  <1>3. BoxesOK
    BY <1>1, <1>2 DEF BoxesOK
  <1> QED BY <1>2, <1>3, MemosInvParts

LEMMA MemosNext ==
    ASSUME M!MemosAssumption, MemosInv, M!Next PROVE MemosInv' /\ AllWanted
  <1> DEFINE Goal == MemosInv' /\ AllWanted
  <1> HIDE DEF Goal
  <1>1. ASSUME NEW s \in exist, NEW t \in exist, M!ms_cmd_send(s, t) PROVE Goal
    BY <1>1, MemosSend DEF M!ms_cmd_send, Goal
  <1>2. ASSUME NEW s \in exist, NEW tos \in SUBSET exist,
               M!ms_cmd_sendops(s, tos) \/ M!ms_cmd_sendgroup(s, tos) PROVE Goal
    BY <1>2, MemosSend DEF M!ms_cmd_sendops, M!ms_cmd_sendgroup, Goal
  <1>3. ASSUME NEW s \in exist,
               \/ M!ms_cmd_sendall(s) \/ M!send_user_memo_misc(s)
               \/ \E t \in exist : M!ms_cmd_forward(s, t) PROVE Goal
    BY <1>3, MemosSendOthers DEF Goal
  <1>4. ASSUME NEW s \in exist, NEW on \in SUBSET exist, M!ms_cmd_read(s, on) PROVE Goal
    BY <1>4, MemosReads DEF Goal
  <1>5. ASSUME NEW s \in exist, M!ms_cmd_delete(s) PROVE Goal
    BY <1>5, MemosDelete DEF Goal
  <1>6. ASSUME NEW s \in exist, NEW t, M!ms_cmd_ignore_add(s, t) \/ M!ms_cmd_ignore_del(s, t) PROVE Goal
    BY <1>6, MemosSettings DEF Goal
  <1>7. ASSUME NEW s \in exist, M!ms_cmd_ignore_clear(s) \/ M!ns_cmd_set_nomemo(s) PROVE Goal
    BY <1>7, MemosSettings DEF Goal
  <1>8. ASSUME \/ \E u \in exist : M!myuser_delete(u)
               \/ \E u \in Users : M!Register(u)
               \/ M!corestorage_h_me PROVE Goal
    BY <1>8, MemosAccounts DEF Goal
  <1>9. Goal
    BY <1>1, <1>2, <1>3, <1>4, <1>5, <1>6, <1>7, <1>8, Zenon DEF M!Next
  <1> QED BY <1>9 DEF Goal

\* A step with its two results.
LEMMA MemosStep ==
    ASSUME M!MemosAssumption
    PROVE  MemosInv /\ [M!Next]_(M!vars) => MemosInv' /\ [~M!Unwanted]_(M!vars)
  <1>1. ASSUME MemosInv, M!Next PROVE MemosInv' /\ ~M!Unwanted
    <2>1. MemosInv' /\ AllWanted
      BY <1>1, MemosNext
    <2>2. exist \subseteq Users
      BY <1>1, MemosInvParts DEF OwnersOK
    <2>3. ~M!Unwanted
      BY <2>1, <2>2 DEF M!Unwanted, AllWanted
    <2> QED BY <2>1, <2>3
  <1>2. ASSUME MemosInv, UNCHANGED M!vars PROVE MemosInv'
    <2>1. BoxesOK /\ OwnersOK
      BY <1>2, MemosInvParts
    <2>2. BoxesOK' /\ OwnersOK'
      BY <1>2, <2>1 DEF M!vars, BoxesOK, OwnersOK, GoodBox
    <2> QED BY <2>2, MemosInvParts
  <1> QED BY <1>1, <1>2

\* memoct_new is the number of unread memos in the list, whatever READ, DELETE and
\* receipts do to both, and no list grows past the limit (memoserv/read.c:95,
\* delete.c:108, main.c:196).
THEOREM UnreadAlwaysCounted ==
    ASSUME M!MemosAssumption PROVE M!Spec => [](M!TypeOK /\ M!UnreadCounted)
  <1>1. M!Init => MemosInv
    BY MemosInit
  <1>2. MemosInv /\ [M!Next]_(M!vars) => MemosInv'
    BY MemosStep
  <1>3. MemosInv => M!TypeOK /\ M!UnreadCounted
    BY DEF MemosInv
  <1> QED BY <1>1, <1>2, <1>3, PTL DEF M!Spec

\* No command brings an account a memo from one it ignores, or any but receipts
\* while it takes none (memoserv/main.c:152, sendall.c:96, forward.c:130).
THEOREM UnwantedNeverSent ==
    ASSUME M!MemosAssumption PROVE M!Spec => [][~M!Unwanted]_(M!vars)
  <1>1. M!Init => MemosInv
    BY MemosInit
  <1>2. MemosInv /\ [M!Next]_(M!vars) => MemosInv'
    BY MemosStep
  <1>3. MemosInv /\ [M!Next]_(M!vars) => [~M!Unwanted]_(M!vars)
    BY MemosStep
  <1> QED BY <1>1, <1>2, <1>3, PTL DEF M!Spec

-----------------------------------------------------------------------------
(* Presence: the services in a channel. *)

CONSTANTS Immune, Bots, CS

VARIABLES chan, guard, closed, assigned, bots, unwanted, pconf, called

P == INSTANCE Presence WITH conf <- pconf

\* The channel in the loops of syncs, of CLOSE and of CLEAR USERS.

SyncTypes(X, U) == \A x \in X, u \in U : P!do_chanuser_sync(x, u) \in X

SyncLoop(s0, n, order) ==
    \E f : /\ f[0] = s0 /\ \A m \in 1 .. n : f[m] = P!do_chanuser_sync(f[m - 1], order[m])
           /\ P!FoldLeft(P!do_chanuser_sync, s0, order) = f[n]

LEMMA SyncPath ==
    ASSUME NEW X, NEW U, SyncTypes(X, U),
           NEW s0 \in X, NEW n \in Nat, NEW order, DOMAIN order = 1 .. n, Holds(order, n, U)
    PROVE  SyncLoop(s0, n, order)
  <1> DEFINE D == SUBSET (1 .. n)
             Q(g) == g = [s \in D |-> IF s = {} THEN s0
                                      ELSE P!do_chanuser_sync(g[s \ {MaxOf(s)}], order[MaxOf(s)])]
             h == CHOOSE g : Q(g)
             f == [m \in 0 .. n |-> h[1 .. m]]
  <1>1. P!FoldLeft(P!do_chanuser_sync, s0, order) = h[1 .. n]
    BY Zenon DEF P!FoldLeft, P!MapThenFoldSet, P!Max, MaxOf
  <1>2. \E g : Q(g)
    <2>1. PICK step \in [X \X U -> X] : \A x \in X, u \in U : step[<<x, u>>] = P!do_chanuser_sync(x, u)
      <3>0. \A x \in X, u \in U : P!do_chanuser_sync(x, u) \in X
        BY DEF SyncTypes
      <3> DEFINE st == [p \in X \X U |-> P!do_chanuser_sync(p[1], p[2])]
      <3>1. st \in [X \X U -> X] /\ \A x \in X, u \in U : st[<<x, u>>] = P!do_chanuser_sync(x, u)
        BY <3>0
      <3> HIDE DEF st
      <3> QED BY <3>1
    <2>2. PICK g \in [SUBSET (1 .. n) -> X] : Iterates(g, step, s0, order, n)
      <3>1. HasIterate(X, step, s0, order, n)
        BY IteratesExists
      <3> QED BY <3>1 DEF HasIterate
    <2>3. \A s \in D : s # {} => g[s \ {MaxOf(s)}] \in X /\ order[MaxOf(s)] \in U
      <3>1. \A s \in D : s # {} => MaxOf(s) \in 1 .. n
        BY MaxIs
      <3>2. \A s \in D : s \ {MaxOf(s)} \in D
        OBVIOUS
      <3> QED BY <3>1, <3>2 DEF Holds
    <2>4. \A s \in D : s # {} => step[<<g[s \ {MaxOf(s)}], order[MaxOf(s)]>>]
                                     = P!do_chanuser_sync(g[s \ {MaxOf(s)}], order[MaxOf(s)])
      BY <2>1, <2>3
    <2>5. g = [s \in D |-> IF s = {} THEN s0 ELSE step[<<g[s \ {MaxOf(s)}], order[MaxOf(s)]>>]]
      BY <2>2, Zenon DEF Iterates
    <2> HIDE DEF D
    <2>6. \A s \in D : (IF s = {} THEN s0 ELSE step[<<g[s \ {MaxOf(s)}], order[MaxOf(s)]>>])
                 = (IF s = {} THEN s0 ELSE P!do_chanuser_sync(g[s \ {MaxOf(s)}], order[MaxOf(s)]))
      BY <2>4, Zenon
    <2>7. Q(g)
      BY <2>5, <2>6, Zenon
    <2> QED BY <2>7
  <1>3. Q(h)
    BY <1>2, Zenon
  <1> HIDE DEF h
  <1>4. \A s \in D : h[s] = IF s = {} THEN s0 ELSE P!do_chanuser_sync(h[s \ {MaxOf(s)}], order[MaxOf(s)])
    BY <1>3, Zenon
  <1>5. f[0] = s0
    <2>1. 1 .. 0 = {} /\ 0 \in 0 .. n /\ {} \in D
      OBVIOUS
    <2> HIDE DEF D
    <2> QED BY <2>1, <1>4
  <1>6. ASSUME NEW m \in 1 .. n PROVE f[m] = P!do_chanuser_sync(f[m - 1], order[m])
    <2>1. m \in 0 .. n /\ m - 1 \in 0 .. n /\ (1 .. m) \in D /\ m \in Nat \ {0}
      OBVIOUS
    <2>a. 1 .. m # {}
      <3>1. 1 \in 1 .. m
        BY <2>1
      <3> QED BY <3>1
    <2>2. MaxOf(1 .. m) = m /\ (1 .. m) \ {m} = 1 .. m - 1
      BY <2>1, MaxOfFirst
    <2>3. f[m] = h[1 .. m] /\ f[m - 1] = h[1 .. m - 1]
      BY <2>1
    <2> HIDE DEF D, f
    <2> QED BY <2>1, <2>a, <2>2, <2>3, <1>4, Zenon
  <1>7. f[n] = h[1 .. n]
    <2>1. n \in 0 .. n
      OBVIOUS
    <2> QED BY <2>1, Zenon
  <1> HIDE DEF f
  <1> QED BY <1>1, <1>5, <1>6, <1>7 DEF SyncLoop

CloseTypes(X, U) == \A x \in X, u \in U : P!chanuser_delete(x, u) \in X

CloseLoop(s0, n, order) ==
    \E f : /\ f[0] = s0 /\ \A m \in 1 .. n : f[m] = P!chanuser_delete(f[m - 1], order[m])
           /\ P!FoldLeft(P!chanuser_delete, s0, order) = f[n]

LEMMA ClosePath ==
    ASSUME NEW X, NEW U, CloseTypes(X, U),
           NEW s0 \in X, NEW n \in Nat, NEW order, DOMAIN order = 1 .. n, Holds(order, n, U)
    PROVE  CloseLoop(s0, n, order)
  <1> DEFINE D == SUBSET (1 .. n)
             Q(g) == g = [s \in D |-> IF s = {} THEN s0
                                      ELSE P!chanuser_delete(g[s \ {MaxOf(s)}], order[MaxOf(s)])]
             h == CHOOSE g : Q(g)
             f == [m \in 0 .. n |-> h[1 .. m]]
  <1>1. P!FoldLeft(P!chanuser_delete, s0, order) = h[1 .. n]
    BY Zenon DEF P!FoldLeft, P!MapThenFoldSet, P!Max, MaxOf
  <1>2. \E g : Q(g)
    <2>1. PICK step \in [X \X U -> X] : \A x \in X, u \in U : step[<<x, u>>] = P!chanuser_delete(x, u)
      <3>0. \A x \in X, u \in U : P!chanuser_delete(x, u) \in X
        BY DEF CloseTypes
      <3> DEFINE st == [p \in X \X U |-> P!chanuser_delete(p[1], p[2])]
      <3>1. st \in [X \X U -> X] /\ \A x \in X, u \in U : st[<<x, u>>] = P!chanuser_delete(x, u)
        BY <3>0
      <3> HIDE DEF st
      <3> QED BY <3>1
    <2>2. PICK g \in [SUBSET (1 .. n) -> X] : Iterates(g, step, s0, order, n)
      <3>1. HasIterate(X, step, s0, order, n)
        BY IteratesExists
      <3> QED BY <3>1 DEF HasIterate
    <2>3. \A s \in D : s # {} => g[s \ {MaxOf(s)}] \in X /\ order[MaxOf(s)] \in U
      <3>1. \A s \in D : s # {} => MaxOf(s) \in 1 .. n
        BY MaxIs
      <3>2. \A s \in D : s \ {MaxOf(s)} \in D
        OBVIOUS
      <3> QED BY <3>1, <3>2 DEF Holds
    <2>4. \A s \in D : s # {} => step[<<g[s \ {MaxOf(s)}], order[MaxOf(s)]>>]
                                     = P!chanuser_delete(g[s \ {MaxOf(s)}], order[MaxOf(s)])
      BY <2>1, <2>3
    <2>5. g = [s \in D |-> IF s = {} THEN s0 ELSE step[<<g[s \ {MaxOf(s)}], order[MaxOf(s)]>>]]
      BY <2>2, Zenon DEF Iterates
    <2> HIDE DEF D
    <2>6. \A s \in D : (IF s = {} THEN s0 ELSE step[<<g[s \ {MaxOf(s)}], order[MaxOf(s)]>>])
                 = (IF s = {} THEN s0 ELSE P!chanuser_delete(g[s \ {MaxOf(s)}], order[MaxOf(s)]))
      BY <2>4, Zenon
    <2>7. Q(g)
      BY <2>5, <2>6, Zenon
    <2> QED BY <2>7
  <1>3. Q(h)
    BY <1>2, Zenon
  <1> HIDE DEF h
  <1>4. \A s \in D : h[s] = IF s = {} THEN s0 ELSE P!chanuser_delete(h[s \ {MaxOf(s)}], order[MaxOf(s)])
    BY <1>3, Zenon
  <1>5. f[0] = s0
    <2>1. 1 .. 0 = {} /\ 0 \in 0 .. n /\ {} \in D
      OBVIOUS
    <2> HIDE DEF D
    <2> QED BY <2>1, <1>4
  <1>6. ASSUME NEW m \in 1 .. n PROVE f[m] = P!chanuser_delete(f[m - 1], order[m])
    <2>1. m \in 0 .. n /\ m - 1 \in 0 .. n /\ (1 .. m) \in D /\ m \in Nat \ {0}
      OBVIOUS
    <2>a. 1 .. m # {}
      <3>1. 1 \in 1 .. m
        BY <2>1
      <3> QED BY <3>1
    <2>2. MaxOf(1 .. m) = m /\ (1 .. m) \ {m} = 1 .. m - 1
      BY <2>1, MaxOfFirst
    <2>3. f[m] = h[1 .. m] /\ f[m - 1] = h[1 .. m - 1]
      BY <2>1
    <2> HIDE DEF D, f
    <2> QED BY <2>1, <2>a, <2>2, <2>3, <1>4, Zenon
  <1>7. f[n] = h[1 .. n]
    <2>1. n \in 0 .. n
      OBVIOUS
    <2> QED BY <2>1, Zenon
  <1> HIDE DEF f
  <1> QED BY <1>1, <1>5, <1>6, <1>7 DEF CloseLoop

ClearTypes(X, U) == \A x \in X, u \in U : P!try_kick(x, u) \in X

ClearLoop(s0, n, order) ==
    \E f : /\ f[0] = s0 /\ \A m \in 1 .. n : f[m] = P!try_kick(f[m - 1], order[m])
           /\ P!FoldLeft(P!try_kick, s0, order) = f[n]

LEMMA ClearPath ==
    ASSUME NEW X, NEW U, ClearTypes(X, U),
           NEW s0 \in X, NEW n \in Nat, NEW order, DOMAIN order = 1 .. n, Holds(order, n, U)
    PROVE  ClearLoop(s0, n, order)
  <1> DEFINE D == SUBSET (1 .. n)
             Q(g) == g = [s \in D |-> IF s = {} THEN s0
                                      ELSE P!try_kick(g[s \ {MaxOf(s)}], order[MaxOf(s)])]
             h == CHOOSE g : Q(g)
             f == [m \in 0 .. n |-> h[1 .. m]]
  <1>1. P!FoldLeft(P!try_kick, s0, order) = h[1 .. n]
    BY Zenon DEF P!FoldLeft, P!MapThenFoldSet, P!Max, MaxOf
  <1>2. \E g : Q(g)
    <2>1. PICK step \in [X \X U -> X] : \A x \in X, u \in U : step[<<x, u>>] = P!try_kick(x, u)
      <3>0. \A x \in X, u \in U : P!try_kick(x, u) \in X
        BY DEF ClearTypes
      <3> DEFINE st == [p \in X \X U |-> P!try_kick(p[1], p[2])]
      <3>1. st \in [X \X U -> X] /\ \A x \in X, u \in U : st[<<x, u>>] = P!try_kick(x, u)
        BY <3>0
      <3> HIDE DEF st
      <3> QED BY <3>1
    <2>2. PICK g \in [SUBSET (1 .. n) -> X] : Iterates(g, step, s0, order, n)
      <3>1. HasIterate(X, step, s0, order, n)
        BY IteratesExists
      <3> QED BY <3>1 DEF HasIterate
    <2>3. \A s \in D : s # {} => g[s \ {MaxOf(s)}] \in X /\ order[MaxOf(s)] \in U
      <3>1. \A s \in D : s # {} => MaxOf(s) \in 1 .. n
        BY MaxIs
      <3>2. \A s \in D : s \ {MaxOf(s)} \in D
        OBVIOUS
      <3> QED BY <3>1, <3>2 DEF Holds
    <2>4. \A s \in D : s # {} => step[<<g[s \ {MaxOf(s)}], order[MaxOf(s)]>>]
                                     = P!try_kick(g[s \ {MaxOf(s)}], order[MaxOf(s)])
      BY <2>1, <2>3
    <2>5. g = [s \in D |-> IF s = {} THEN s0 ELSE step[<<g[s \ {MaxOf(s)}], order[MaxOf(s)]>>]]
      BY <2>2, Zenon DEF Iterates
    <2> HIDE DEF D
    <2>6. \A s \in D : (IF s = {} THEN s0 ELSE step[<<g[s \ {MaxOf(s)}], order[MaxOf(s)]>>])
                 = (IF s = {} THEN s0 ELSE P!try_kick(g[s \ {MaxOf(s)}], order[MaxOf(s)]))
      BY <2>4, Zenon
    <2>7. Q(g)
      BY <2>5, <2>6, Zenon
    <2> QED BY <2>7
  <1>3. Q(h)
    BY <1>2, Zenon
  <1> HIDE DEF h
  <1>4. \A s \in D : h[s] = IF s = {} THEN s0 ELSE P!try_kick(h[s \ {MaxOf(s)}], order[MaxOf(s)])
    BY <1>3, Zenon
  <1>5. f[0] = s0
    <2>1. 1 .. 0 = {} /\ 0 \in 0 .. n /\ {} \in D
      OBVIOUS
    <2> HIDE DEF D
    <2> QED BY <2>1, <1>4
  <1>6. ASSUME NEW m \in 1 .. n PROVE f[m] = P!try_kick(f[m - 1], order[m])
    <2>1. m \in 0 .. n /\ m - 1 \in 0 .. n /\ (1 .. m) \in D /\ m \in Nat \ {0}
      OBVIOUS
    <2>a. 1 .. m # {}
      <3>1. 1 \in 1 .. m
        BY <2>1
      <3> QED BY <3>1
    <2>2. MaxOf(1 .. m) = m /\ (1 .. m) \ {m} = 1 .. m - 1
      BY <2>1, MaxOfFirst
    <2>3. f[m] = h[1 .. m] /\ f[m - 1] = h[1 .. m - 1]
      BY <2>1
    <2> HIDE DEF D, f
    <2> QED BY <2>1, <2>a, <2>2, <2>3, <1>4, Zenon
  <1>7. f[n] = h[1 .. n]
    <2>1. n \in 0 .. n
      OBVIOUS
    <2> QED BY <2>1, Zenon
  <1> HIDE DEF f
  <1> QED BY <1>1, <1>5, <1>6, <1>7 DEF ClearLoop

-----------------------------------------------------------------------------
(* What the handlers make of the channel. *)

Chans == [users : SUBSET Users, svc : SUBSET (Bots \union {CS}), inhabit : BOOLEAN]

\* From s to t no users have come and no services but ChanServ, and no service
\* has gone while there are users.
Served(s, t) ==
    /\ t \in Chans /\ t.users \subseteq s.users /\ t.svc \subseteq s.svc \union {CS}
    /\ t.users # {} => s.svc \subseteq t.svc

LEMMA ServedOn ==
    ASSUME NEW r, NEW s, NEW t, Served(r, s), Served(s, t) PROVE Served(r, t)
  <1>1. t.users # {} => s.users # {}
    BY DEF Served
  <1> QED BY <1>1 DEF Served

LEMMA ServedStill == ASSUME NEW s \in Chans PROVE Served(s, s)
  BY DEF Served

LEMMA PCardinality == \A S : P!Cardinality(S) = Cardinality(S) /\ (P!IsFiniteSet(S) <=> IsFiniteSet(S))
  <1>1. \A S : P!Cardinality(S) = Cardinality(S)
    BY DEF P!Cardinality, Cardinality
  <1>2. \A S : P!IsFiniteSet(S) <=> IsFiniteSet(S)
    BY Zenon DEF P!IsFiniteSet, IsFiniteSet
  <1> QED BY <1>1, <1>2

LEMMA PresenceConstants ==
    ASSUME P!PresenceAssumption
    PROVE  /\ CS \notin Bots /\ CS \notin Users /\ Users \intersect Bots = {}
           /\ None \notin Bots /\ None # CS
           /\ IsFiniteSet(Users) /\ IsFiniteSet(Bots)
  BY PCardinality DEF P!PresenceAssumption

LEMMA PartType ==
    ASSUME NEW s \in Chans, NEW n
    PROVE  /\ P!part(s, n) \in Chans /\ P!part(s, n).users = s.users
           /\ P!part(s, n).svc = s.svc \ {n} /\ P!part(s, n).inhabit = s.inhabit
  BY DEF Chans, P!part

LEMMA JoinType ==
    ASSUME NEW s \in Chans, NEW n \in Bots \union {CS}
    PROVE  /\ P!join(s, n) \in Chans /\ P!join(s, n).users = s.users
           /\ P!join(s, n).svc = s.svc \union {n} /\ P!join(s, n).inhabit = s.inhabit
  BY DEF Chans, P!join

\* A user is taken out: only with the last one a service goes.
LEMMA DeleteServed ==
    ASSUME NEW s \in Chans, NEW u
    PROVE  LET t == P!chanuser_delete(s, u)
           IN  /\ Served(s, t) /\ t.users = s.users \ {u} /\ t.svc \subseteq s.svc
               /\ s.inhabit => t.svc = s.svc /\ t.inhabit
  <1> DEFINE a == P!cs_part(s, u)
             b == P!bs_part(a, u)
             t == [b EXCEPT !.users = @ \ {u}]
  <1>1. a \in Chans /\ a.users = s.users /\ a.inhabit = s.inhabit
        /\ a.svc \subseteq s.svc /\ (a.svc = s.svc \/ (s.users = {u} /\ ~s.inhabit))
    BY PartType DEF P!cs_part, P!LastLeaves
  <1> HIDE DEF a
  <1>2. b \in Chans /\ b.users = s.users /\ b.inhabit = s.inhabit
        /\ b.svc \subseteq s.svc /\ (b.svc = s.svc \/ (s.users = {u} /\ ~s.inhabit))
    BY <1>1, PartType DEF P!bs_part, P!LastLeaves
  <1> HIDE DEF b
  <1>3. t \in Chans /\ t.users = s.users \ {u} /\ t.svc = b.svc /\ t.inhabit = s.inhabit
    BY <1>2 DEF Chans
  <1>4. P!chanuser_delete(s, u) = t
    BY DEF P!chanuser_delete, b, a
  <1> HIDE DEF t
  <1>5. Served(s, t)
    BY <1>2, <1>3 DEF Served
  <1> QED BY <1>2, <1>3, <1>4, <1>5

LEMMA StayServed ==
    ASSUME NEW s \in Chans
    PROVE  P!Stay(s) \in Chans /\ P!Stay(s).users = s.users
           /\ s.svc \subseteq P!Stay(s).svc /\ P!Stay(s).svc \subseteq s.svc \union {CS}
  <1> DEFINE v == IF s.svc = {} THEN {CS} ELSE s.svc
             t == [s EXCEPT !.inhabit = TRUE, !.svc = v]
  <1>1. v \in SUBSET (Bots \union {CS}) /\ s.svc \subseteq v /\ v \subseteq s.svc \union {CS}
    BY DEF Chans
  <1>2. P!Stay(s) = s \/ P!Stay(s) = t
    BY DEF P!Stay
  <1> HIDE DEF v
  <1>3. t \in Chans /\ t.users = s.users /\ t.svc = v
    BY <1>1 DEF Chans
  <1> QED BY <1>1, <1>2, <1>3

LEMMA KickServed == ASSUME NEW s \in Chans, NEW u PROVE Served(s, P!try_kick(s, u))
  BY DeleteServed, ServedStill DEF P!try_kick

LEMMA RemovedServed == ASSUME NEW s \in Chans, NEW u PROVE Served(s, P!Removed(s, u))
  <1>1. P!Stay(s) \in Chans /\ Served(s, P!Stay(s))
    BY StayServed DEF Served
  <1>2. Served(P!Stay(s), P!try_kick(P!Stay(s), u))
    BY <1>1, KickServed
  <1> QED BY <1>1, <1>2, ServedOn DEF P!Removed

LEMMA SyncServed == ASSUME NEW s \in Chans, NEW u PROVE Served(s, P!do_chanuser_sync(s, u))
  BY RemovedServed, ServedStill DEF P!do_chanuser_sync

\* The same of a loop over users.
LEMMA PathServed ==
    ASSUME NEW s \in Chans, NEW n \in Nat, NEW f, f[0] = s,
           \A m \in 1 .. n : f[m - 1] \in Chans => Served(f[m - 1], f[m])
    PROVE  Served(s, f[n])
  <1> DEFINE S == {m \in Nat : m <= n => Served(s, f[m])}
  <1>1. 0 \in S
    BY ServedStill
  <1>2. ASSUME NEW m \in Nat, m \in S PROVE m + 1 \in S
    <2> SUFFICES ASSUME m + 1 <= n PROVE Served(s, f[m + 1])
      OBVIOUS
    <2>1. Served(s, f[m])
      BY <1>2
    <2>2. m + 1 \in 1 .. n /\ (m + 1) - 1 = m
      OBVIOUS
    <2>3. Served(f[m], f[m + 1])
      BY <2>1, <2>2 DEF Served
    <2> QED BY <2>1, <2>3, ServedOn
  <1> HIDE DEF S
  <1>3. Nat \subseteq S
    BY <1>1, <1>2, NatInductionSet
  <1> QED BY <1>3 DEF S

\* The lists that sets are visited in.
LEMMA OrderOf ==
    ASSUME NEW S, IsFiniteSet(S), NEW order \in P!SetToSeqs(S)
    PROVE  \E n \in Nat : DOMAIN order = 1 .. n /\ \A i \in 1 .. n : order[i] \in S
  <1>1. Cardinality(S) \in Nat
    BY FS_CardinalityType
  <1>2. order \in [1 .. Cardinality(S) -> S]
    BY PCardinality DEF P!SetToSeqs
  <1> QED BY <1>1, <1>2

LEMMA SetToSeqIs ==
    ASSUME NEW S, IsFiniteSet(S)
    PROVE  \E n \in Nat : /\ DOMAIN P!SetToSeq(S) = 1 .. n /\ \A i \in 1 .. n : P!SetToSeq(S)[i] \in S
                          /\ \A x \in S : \E i \in 1 .. n : P!SetToSeq(S)[i] = x
  <1> DEFINE n == Cardinality(S)
             Q(f) == f \in [1 .. n -> S] /\ \A i, j \in 1 .. n : f[i] = f[j] => i = j
             f == CHOOSE f \in [1 .. n -> S] : P!IsInjective(f)
  <1>1. n \in Nat /\ ExistsBijection(1 .. n, S)
    BY FS_CardinalityType
  <1>2. f = P!SetToSeq(S)
    BY PCardinality DEF P!SetToSeq
  <1>3. \A g \in [1 .. n -> S] : P!IsInjective(g) <=> \A i, j \in 1 .. n : g[i] = g[j] => i = j
    BY DEF P!IsInjective
  <1>4. \E g \in [1 .. n -> S] : P!IsInjective(g)
    <2>1. PICK g : g \in Bijection(1 .. n, S)
      BY <1>1 DEF ExistsBijection
    <2>2. g \in [1 .. n -> S] /\ \A i, j \in 1 .. n : g[i] = g[j] => i = j
      BY <2>1 DEF Bijection, Injection, IsInjective
    <2> QED BY <2>2, <1>3
  <1>5. f \in [1 .. n -> S] /\ P!IsInjective(f)
    BY <1>4, Zenon
  <1> HIDE DEF f
  <1>6. f \in Injection(1 .. n, S)
    BY <1>3, <1>5 DEF Injection, IsInjective
  <1>7. Cardinality(1 .. n) = n
    <2> HIDE DEF n
    <2>1. Cardinality(1 .. n) = IF 1 > n THEN 0 ELSE n - 1 + 1
      BY <1>1, FS_Interval
    <2> QED BY <2>1, <1>1
  <1>8. f \in Surjection(1 .. n, S)
    <2>1. Cardinality(1 .. n) = Cardinality(S) <=> f \in Surjection(1 .. n, S)
      BY <1>6, FS_Injection
    <2> QED BY <2>1, <1>7
  <1>9. \A x \in S : \E i \in 1 .. n : f[i] = x
    BY <1>8 DEF Surjection
  <1> HIDE DEF n
  <1> QED BY <1>1, <1>2, <1>5, <1>9

-----------------------------------------------------------------------------
(* The invariant: nobody is in a closed channel, only registered channels are *)
(* closed, guarded or have a bot, and no service is where it has no use.      *)

PresenceInv ==
    /\ P!TypeOK
    /\ guard \/ assigned # None => registered
    /\ closed => registered /\ chan.users = {}
    /\ P!NoStrayService

\* The action property, without the exemption.
KeepsGuard == P!Guarded /\ guard' /\ chan'.users # {} => P!Guarded'

Confs == [leave : BOOLEAN, changets : BOOLEAN, guard : BOOLEAN]

LEMMA PresenceTypes ==
    PresenceInv <=> /\ chan \in Chans
                    /\ registered \in BOOLEAN /\ guard \in BOOLEAN /\ closed \in BOOLEAN
                    /\ assigned \in bots \union {None} /\ bots \subseteq Bots
                    /\ unwanted \subseteq Users /\ called \in BOOLEAN /\ pconf \in Confs
                    /\ guard \/ assigned # None => registered
                    /\ closed => registered /\ chan.users = {}
                    /\ chan.svc \subseteq {CS, assigned} /\ (~registered => chan.svc = {})
  BY Zenon DEF PresenceInv, P!TypeOK, P!NoStrayService, Chans, Confs

LEMMA PresenceTypes2 ==
    PresenceInv' <=> /\ chan' \in Chans
                     /\ registered' \in BOOLEAN /\ guard' \in BOOLEAN /\ closed' \in BOOLEAN
                     /\ assigned' \in bots' \union {None} /\ bots' \subseteq Bots
                     /\ unwanted' \subseteq Users /\ called' \in BOOLEAN /\ pconf' \in Confs
                     /\ guard' \/ assigned' # None => registered'
                     /\ closed' => registered' /\ chan'.users = {}
                     /\ chan'.svc \subseteq {CS, assigned'} /\ (~registered' => chan'.svc = {})
  BY Zenon DEF PresenceInv, P!TypeOK, P!NoStrayService, Chans, Confs

LEMMA NowIs ==
    ASSUME NEW s, NEW calling, P!Now(s, calling)
    PROVE  chan' = s /\ called' \in BOOLEAN
  BY DEF P!Now

\* A step that only serves the channel.
LEMMA ServedKeeps ==
    ASSUME PresenceInv, NEW s, registered \/ s.svc \subseteq chan.svc, Served(chan, s), chan' = s, called' \in BOOLEAN,
           unwanted' \subseteq Users, UNCHANGED P!regVars
    PROVE  PresenceInv' /\ KeepsGuard
  <1>0. UNCHANGED <<registered, guard, closed, assigned, bots, pconf>>
    BY DEF P!regVars
  <1>1. PresenceInv'
    BY <1>0, PresenceTypes, PresenceTypes2 DEF Served
  <1>2. KeepsGuard
    BY <1>0 DEF Served, KeepsGuard, P!Guarded
  <1> QED BY <1>1, <1>2

LEMMA SyncedServed ==
    ASSUME P!PresenceAssumption, chan \in Chans, NEW about, NEW s \in P!do_channel_sync(chan, about)
    PROVE  Served(chan, s)
  <1> DEFINE S == chan.users \intersect about
  <1>1. IsFiniteSet(S)
    BY PresenceConstants, FS_Subset DEF Chans
  <1>2. PICK order \in P!SetToSeqs(S) : s = P!FoldLeft(P!do_chanuser_sync, chan, order)
    BY DEF P!do_channel_sync
  <1>3. PICK n \in Nat : DOMAIN order = 1 .. n /\ \A i \in 1 .. n : order[i] \in S
    BY <1>1, OrderOf
  <1>4. \A x \in Chans, u \in S : P!do_chanuser_sync(x, u) \in Chans
    BY SyncServed DEF Served
  <1> HIDE DEF S
  <1>5. PICK f : /\ f[0] = chan /\ \A m \in 1 .. n : f[m] = P!do_chanuser_sync(f[m - 1], order[m])
                 /\ P!FoldLeft(P!do_chanuser_sync, chan, order) = f[n]
    <2>1. SyncTypes(Chans, S) /\ Holds(order, n, S)
      BY <1>3, <1>4 DEF SyncTypes, Holds
    <2>2. SyncLoop(chan, n, order)
      BY <2>1, <1>3, SyncPath
    <2> QED BY <2>2 DEF SyncLoop
  <1>6. \A m \in 1 .. n : f[m - 1] \in Chans => Served(f[m - 1], f[m])
    BY <1>5, SyncServed
  <1>7. Served(chan, f[n])
    BY <1>5, <1>6, PathServed
  <1> QED BY <1>2, <1>5, <1>7

LEMMA ClearedServed ==
    ASSUME P!PresenceAssumption, chan \in Chans, NEW r
    PROVE  Served(chan, P!FoldLeft(P!try_kick, chan, P!SetToSeq(chan.users \ {r})))
  <1> DEFINE S == chan.users \ {r}
             order == P!SetToSeq(S)
  <1>1. IsFiniteSet(S)
    BY PresenceConstants, FS_Subset DEF Chans
  <1>3. PICK n \in Nat : DOMAIN order = 1 .. n /\ \A i \in 1 .. n : order[i] \in S
    BY <1>1, SetToSeqIs
  <1>4. \A x \in Chans, u \in S : P!try_kick(x, u) \in Chans
    BY KickServed DEF Served
  <1> HIDE DEF S, order
  <1>5. PICK f : /\ f[0] = chan /\ \A m \in 1 .. n : f[m] = P!try_kick(f[m - 1], order[m])
                 /\ P!FoldLeft(P!try_kick, chan, order) = f[n]
    <2>1. ClearTypes(Chans, S) /\ Holds(order, n, S)
      BY <1>3, <1>4 DEF ClearTypes, Holds
    <2>2. ClearLoop(chan, n, order)
      BY <2>1, <1>3, ClearPath
    <2> QED BY <2>2 DEF ClearLoop
  <1>6. \A m \in 1 .. n : f[m - 1] \in Chans => Served(f[m - 1], f[m])
    BY <1>5, KickServed
  <1>7. Served(chan, f[n])
    BY <1>5, <1>6, PathServed
  <1> QED BY <1>5, <1>7 DEF order, S

\* CLOSE takes everyone out.
LEMMA ClosedEmpty ==
    ASSUME P!PresenceAssumption, NEW s \in Chans
    PROVE  LET t == P!FoldLeft(P!chanuser_delete, s, P!SetToSeq(s.users))
           IN  t \in Chans /\ t.users = {} /\ t.svc \subseteq s.svc
  <1> DEFINE S == s.users
             order == P!SetToSeq(S)
  <1>1. IsFiniteSet(S)
    BY PresenceConstants, FS_Subset DEF Chans
  <1>3. PICK n \in Nat : /\ DOMAIN order = 1 .. n /\ \A i \in 1 .. n : order[i] \in S
                         /\ \A u \in S : \E i \in 1 .. n : order[i] = u
    BY <1>1, SetToSeqIs
  <1>4. \A x \in Chans, u \in S : P!chanuser_delete(x, u) \in Chans
    BY DeleteServed DEF Served
  <1> HIDE DEF order
  <1>5. PICK f : /\ f[0] = s /\ \A m \in 1 .. n : f[m] = P!chanuser_delete(f[m - 1], order[m])
                 /\ P!FoldLeft(P!chanuser_delete, s, order) = f[n]
    <2>1. CloseTypes(Chans, S) /\ Holds(order, n, S)
      BY <1>3, <1>4 DEF CloseTypes, Holds
    <2>2. CloseLoop(s, n, order)
      BY <2>1, <1>3, ClosePath
    <2> QED BY <2>2 DEF CloseLoop
  <1> DEFINE T == {m \in Nat : m <= n => /\ f[m] \in Chans /\ f[m].users \subseteq S
                                         /\ f[m].svc \subseteq s.svc
                                         /\ \A i \in 1 .. m : order[i] \notin f[m].users}
  <1>6. 0 \in T
    BY <1>5
  <1>7. ASSUME NEW m \in Nat, m \in T PROVE m + 1 \in T
    <2> SUFFICES ASSUME m + 1 <= n
                 PROVE  /\ f[m + 1] \in Chans /\ f[m + 1].users \subseteq S
                        /\ f[m + 1].svc \subseteq s.svc
                        /\ \A i \in 1 .. m + 1 : order[i] \notin f[m + 1].users
      OBVIOUS
    <2>1. f[m] \in Chans /\ f[m].users \subseteq S /\ f[m].svc \subseteq s.svc
          /\ \A i \in 1 .. m : order[i] \notin f[m].users
      BY <1>7
    <2>2. f[m + 1] = P!chanuser_delete(f[m], order[m + 1])
      <3>1. m + 1 \in 1 .. n /\ (m + 1) - 1 = m
        OBVIOUS
      <3> QED BY <3>1, <1>5
    <2>3. f[m + 1] \in Chans /\ f[m + 1].users = f[m].users \ {order[m + 1]}
          /\ f[m + 1].svc \subseteq f[m].svc
      BY <2>1, <2>2, DeleteServed DEF Served
    <2>4. \A i \in 1 .. m + 1 : i \in 1 .. m \/ i = m + 1
      OBVIOUS
    <2> QED BY <2>1, <2>3, <2>4
  <1> HIDE DEF T
  <1>8. n \in T
    <2>1. Nat \subseteq T
      BY <1>6, <1>7, NatInductionSet
    <2> QED BY <2>1
  <1>9. f[n] \in Chans /\ f[n].users \subseteq S /\ f[n].svc \subseteq s.svc
        /\ \A i \in 1 .. n : order[i] \notin f[n].users
    BY <1>8 DEF T
  <1>10. f[n].users = {}
    BY <1>3, <1>9
  <1> QED BY <1>5, <1>9, <1>10 DEF order

-----------------------------------------------------------------------------
(* The steps. *)

LEMMA AssignedType ==
    ASSUME P!PresenceAssumption, PresenceInv
    PROVE  /\ assigned # None => assigned \in Bots /\ assigned # CS
           /\ P!Guardian \in Bots \union {CS}
  BY PresenceTypes, PresenceConstants DEF P!Guardian

\* A channel that a user joins keeps its services.
LEMMA JoinHooksServe ==
    ASSUME P!PresenceAssumption, PresenceInv, NEW s \in Chans, NEW u
    PROVE  LET r == P!JoinHooks(s, u)
           IN  /\ r \in Chans
               /\ closed => r.users = s.users \ {u}
               /\ guard /\ ~closed /\ r.users # {} => s.svc \subseteq r.svc
               /\ r = s \/ (registered /\ r.svc \subseteq s.svc \union {CS, assigned})
  <1> DEFINE b == P!bs_join(s)
             t == IF guard /\ assigned = None /\ Cardinality(P!Members(b)) = 1 THEN P!join(b, CS) ELSE b
             r == P!JoinHooks(s, u)
  <1>1. b \in Chans /\ b.users = s.users /\ s.svc \subseteq b.svc
        /\ b.svc \subseteq s.svc \union {CS, assigned}
    BY AssignedType, JoinType DEF P!bs_join
  <1> HIDE DEF b
  <1>2. t \in Chans /\ t.users = s.users /\ s.svc \subseteq t.svc
        /\ t.svc \subseteq s.svc \union {CS, assigned}
    BY <1>1, JoinType
  <1>3. CASE ~registered
    <2>1. r = s /\ ~closed
      BY <1>3, PresenceTypes DEF P!JoinHooks
    <2> QED BY <2>1
  <1>4. CASE registered /\ closed
    <2> DEFINE j == [P!join(b, CS) EXCEPT !.inhabit = TRUE]
    <2>1. r = P!chanuser_delete(j, u)
      BY <1>4 DEF P!JoinHooks, P!close_check_join, b
    <2>2. j \in Chans /\ j.users = s.users /\ j.svc = b.svc \union {CS}
      <3>1. P!join(b, CS) \in Chans /\ P!join(b, CS).users = s.users
            /\ P!join(b, CS).svc = b.svc \union {CS}
        BY <1>1, JoinType
      <3> QED BY <3>1 DEF Chans
    <2> HIDE DEF j, r
    <2>3. r \in Chans /\ r.users = s.users \ {u} /\ r.svc \subseteq j.svc
      BY <2>1, <2>2, DeleteServed DEF Served
    <2>4. r.svc \subseteq s.svc \union {CS, assigned}
      BY <1>1, <2>2, <2>3
    <2> QED BY <2>3, <2>4, <1>4 DEF r
  <1>5. CASE registered /\ ~closed
    <2>1. r = IF u \in unwanted THEN P!Removed(t, u) ELSE P!NotNeeded(t)
      BY <1>5, PCardinality DEF P!JoinHooks, P!cs_join, b
    <2> HIDE DEF t, r
    <2>2. CASE u \in unwanted
      <3>1. Served(t, r)
        BY <2>1, <2>2, <1>2, RemovedServed
      <3> QED BY <3>1, <1>2, <1>5 DEF Served, r
    <2>3. CASE u \notin unwanted
      <3> DEFINE n == [t EXCEPT !.inhabit = FALSE]
      <3>1. n \in Chans /\ n.users = t.users /\ n.svc = t.svc
        BY <1>2 DEF Chans
      <3>2. r = t \/ r = IF guard THEN n ELSE P!part(n, CS)
        BY <2>1, <2>3 DEF P!NotNeeded
      <3> HIDE DEF n
      <3>3. r \in Chans /\ (guard => t.svc \subseteq r.svc) /\ r.svc \subseteq t.svc
        BY <3>1, <3>2, <1>2, PartType
      <3> QED BY <3>3, <1>2, <1>5 DEF r
    <2> QED BY <2>2, <2>3
  <1> QED BY <1>3, <1>4, <1>5

LEMMA UserJoins ==
    ASSUME P!PresenceAssumption, PresenceInv, NEW u \in Users, NEW newer, P!chanuser_add(u, newer)
    PROVE  PresenceInv' /\ KeepsGuard
  <1> DEFINE n == P!cs_newchan(chan, newer)
             s == [n EXCEPT !.users = @ \union {u}]
             r == P!JoinHooks(s, u)
  <1>1. n \in Chans /\ n.users = chan.users /\ chan.svc \subseteq n.svc
        /\ (n = chan \/ (registered /\ n.svc \subseteq chan.svc \union {CS, assigned}))
    <2> DEFINE j == P!join(chan, P!Guardian)
               m == [j EXCEPT !.inhabit = TRUE]
    <2>1. j \in Chans /\ j.users = chan.users /\ chan.svc \subseteq j.svc
          /\ j.svc \subseteq chan.svc \union {CS, assigned}
      <3>1. P!Guardian \in {CS, assigned}
        BY DEF P!Guardian
      <3> QED BY <3>1, AssignedType, JoinType, PresenceTypes
    <2>2. n = chan \/ (registered /\ n = m)
      BY DEF P!cs_newchan
    <2> HIDE DEF j
    <2>3. m \in Chans /\ m.users = j.users /\ m.svc = j.svc
      BY <2>1 DEF Chans
    <2> HIDE DEF m, n
    <2> QED BY <2>1, <2>2, <2>3, PresenceTypes
  <1>2. P!Now(r, FALSE) /\ UNCHANGED <<P!regVars, unwanted>>
    BY DEF P!chanuser_add
  <1> HIDE DEF n
  <1>3. s \in Chans /\ s.users = chan.users \union {u} /\ s.svc = n.svc
    BY <1>1 DEF Chans
  <1> HIDE DEF s
  <1>4. /\ r \in Chans
        /\ closed => r.users = s.users \ {u}
        /\ guard /\ ~closed /\ r.users # {} => s.svc \subseteq r.svc
        /\ r = s \/ (registered /\ r.svc \subseteq s.svc \union {CS, assigned})
    BY <1>3, JoinHooksServe
  <1> HIDE DEF r
  <1>5. chan' = r /\ called' \in BOOLEAN
    BY <1>2, NowIs
  <1>6. UNCHANGED <<registered, guard, closed, assigned, bots, pconf, unwanted>>
    BY <1>2 DEF P!regVars
  <1>7. closed => r.users = {}
    BY <1>3, <1>4, PresenceTypes
  <1>8. r.svc \subseteq {CS, assigned} /\ (~registered => r.svc = {})
    BY <1>1, <1>3, <1>4, PresenceTypes
  <1>9. PresenceInv'
    BY <1>4, <1>5, <1>6, <1>7, <1>8, PresenceTypes, PresenceTypes2
  <1>10. KeepsGuard
    <2>1. P!Guarded => guard /\ ~closed
      BY PresenceTypes DEF P!Guarded
    <2> QED BY <2>1, <1>1, <1>3, <1>4, <1>5, <1>6 DEF KeepsGuard, P!Guarded
  <1> QED BY <1>9, <1>10

LEMMA UsersServed ==
    ASSUME P!PresenceAssumption, PresenceInv, NEW u,
           \/ P!UserParts(u)
           \/ u \in Users /\ \E about \in SUBSET Users : P!sync_channel_acl_change(u, about)
           \/ P!sync_user(u)
           \/ P!cs_cmd_sync
           \/ P!chanserv_config_ready
    PROVE  PresenceInv' /\ KeepsGuard
  <1>0. chan \in Chans /\ unwanted \subseteq Users
    BY PresenceTypes
  <1>1. CASE P!UserParts(u)
    <2>1. P!Now(P!chanuser_delete(chan, u), FALSE) /\ UNCHANGED <<P!regVars, unwanted>>
      BY <1>1 DEF P!UserParts
    <2>2. Served(chan, P!chanuser_delete(chan, u)) /\ P!chanuser_delete(chan, u).svc \subseteq chan.svc
      BY <1>0, DeleteServed
    <2>3. chan' = P!chanuser_delete(chan, u) /\ called' \in BOOLEAN
      BY <2>1, NowIs
    <2>4. unwanted' \subseteq Users /\ UNCHANGED P!regVars
      BY <2>1, <1>0
    <2> QED BY <2>2, <2>3, <2>4, ServedKeeps
  <1>2. CASE u \in Users /\ \E about \in SUBSET Users : P!sync_channel_acl_change(u, about)
    <2>1. PICK about \in SUBSET Users : P!sync_channel_acl_change(u, about)
      BY <1>2
    <2>2. PICK s \in P!do_channel_sync(chan, about) : P!Now(s, FALSE)
      BY <2>1 DEF P!sync_channel_acl_change
    <2>3. Served(chan, s)
      BY <1>0, <2>2, SyncedServed
    <2>4. chan' = s /\ called' \in BOOLEAN
      BY <2>2, NowIs
    <2>5. registered /\ unwanted' \subseteq Users /\ UNCHANGED P!regVars
      BY <2>1, <1>0, <1>2 DEF P!sync_channel_acl_change
    <2> QED BY <2>3, <2>4, <2>5, ServedKeeps
  <1>3. CASE P!sync_user(u)
    <2> DEFINE s == P!do_chanuser_sync(chan, u)
               g == P!grant_channel_access_hook(s, u)
    <2>1. PICK t \in {s, g} : P!Now(t, FALSE)
      BY <1>3 DEF P!sync_user
    <2>2. Served(chan, s)
      BY <1>0, SyncServed
    <2> HIDE DEF s
    <2>3. Served(s, g)
      <3>1. s \in Chans
        BY <2>2 DEF Served
      <3>2. P!Stay(s) \in Chans /\ Served(s, P!Stay(s))
        BY <3>1, StayServed DEF Served
      <3>3. Served(P!Stay(s), P!chanuser_delete(P!Stay(s), u))
        BY <3>2, DeleteServed
      <3>4. Served(s, P!chanuser_delete(P!Stay(s), u)) /\ Served(s, s)
        BY <3>1, <3>2, <3>3, ServedOn, ServedStill
      <3> QED BY <3>4 DEF P!grant_channel_access_hook
    <2> HIDE DEF g
    <2>4. Served(chan, t)
      BY <2>1, <2>2, <2>3, ServedOn
    <2>5. chan' = t /\ called' \in BOOLEAN
      BY <2>1, NowIs
    <2>6. registered /\ unwanted' \subseteq Users /\ UNCHANGED P!regVars
      BY <1>0, <1>3 DEF P!sync_user
    <2> QED BY <2>4, <2>5, <2>6, ServedKeeps
  <1>4. CASE P!cs_cmd_sync
    <2>2. PICK s \in P!do_channel_sync(chan, Users) : P!Now(s, FALSE)
      BY <1>4 DEF P!cs_cmd_sync
    <2>3. Served(chan, s)
      BY <1>0, <2>2, SyncedServed
    <2>4. chan' = s /\ called' \in BOOLEAN
      BY <2>2, NowIs
    <2>5. registered /\ unwanted' \subseteq Users /\ UNCHANGED P!regVars
      BY <1>4, <1>0 DEF P!cs_cmd_sync
    <2> QED BY <2>3, <2>4, <2>5, ServedKeeps
  <1>5. CASE P!chanserv_config_ready
    <2> DEFINE s == P!join_registered(chan)
    <2>1. P!Now(s, FALSE) /\ UNCHANGED <<P!regVars, unwanted>>
      BY <1>5 DEF P!chanserv_config_ready
    <2>2. Served(chan, s)
      BY <1>0, JoinType, ServedStill DEF P!join_registered, Served
    <2> HIDE DEF s
    <2>3. chan' = s /\ called' \in BOOLEAN
      BY <2>1, NowIs
    <2>4. registered /\ unwanted' \subseteq Users /\ UNCHANGED P!regVars
      BY <1>0, <1>5 DEF P!chanserv_config_ready
    <2> QED BY <2>2, <2>3, <2>4, ServedKeeps
  <1> QED BY <1>1, <1>2, <1>3, <1>4, <1>5

LEMMA ChanServLeaves ==
    ASSUME PresenceInv, P!cs_leave_empty PROVE PresenceInv' /\ KeepsGuard
  <1> DEFINE s == [chan EXCEPT !.inhabit = FALSE]
             r == IF P!Leaves THEN P!part(s, CS) ELSE s
  <1>1. P!Now(r, FALSE) /\ UNCHANGED <<P!regVars, unwanted>>
    BY DEF P!cs_leave_empty
  <1>2. s \in Chans /\ s.users = chan.users /\ s.svc = chan.svc
    BY PresenceTypes DEF Chans
  <1> HIDE DEF s
  <1>3. r \in Chans /\ r.users = chan.users /\ (~P!Leaves => r.svc = chan.svc) /\ r.svc \subseteq chan.svc
    BY <1>2, PartType
  <1> HIDE DEF r
  <1>4. chan' = r /\ called' \in BOOLEAN
    BY <1>1, NowIs
  <1>5. UNCHANGED <<registered, guard, closed, assigned, bots, pconf, unwanted>>
    BY <1>1 DEF P!regVars
  <1>6. P!Guarded => ~P!Leaves
    BY PresenceTypes DEF P!Guarded, P!Leaves
  <1>7. PresenceInv'
    BY <1>3, <1>4, <1>5, PresenceTypes, PresenceTypes2
  <1>8. KeepsGuard
    BY <1>3, <1>4, <1>5, <1>6 DEF KeepsGuard, P!Guarded
  <1> QED BY <1>7, <1>8

\* Registrations come and go.
LEMMA Registrations ==
    ASSUME P!PresenceAssumption, PresenceInv,
           P!cs_register \/ P!cs_cmd_activate \/ P!Dropped
    PROVE  PresenceInv' /\ KeepsGuard
  <1>1. CASE P!cs_register \/ P!cs_cmd_activate
    <2> DEFINE s == IF pconf.guard THEN P!join(chan, CS) ELSE chan
    <2>1. PICK calling : P!Now(s, calling)
      BY <1>1 DEF P!cs_register, P!cs_cmd_activate
    <2>2. s \in Chans /\ s.users = chan.users /\ s.svc \subseteq chan.svc \union {CS}
      BY PresenceTypes, JoinType
    <2> HIDE DEF s
    <2>3. chan' = s /\ called' \in BOOLEAN
      BY <2>1, NowIs
    <2>4. ~registered /\ registered' = TRUE /\ guard' = pconf.guard
          /\ UNCHANGED <<closed, assigned, bots, unwanted, pconf>>
      BY <1>1 DEF P!cs_register, P!cs_cmd_activate
    <2>5. pconf.guard \in BOOLEAN
      BY PresenceTypes DEF Confs
    <2>6. PresenceInv'
      BY <2>2, <2>3, <2>4, <2>5, PresenceTypes, PresenceTypes2
    <2>7. ~P!Guarded
      BY <2>4, PresenceTypes DEF P!Guarded
    <2> QED BY <2>6, <2>7 DEF KeepsGuard
  <1>2. CASE P!Dropped
    <2> DEFINE p == P!part(P!bs_channel_drop(chan), CS)
               s == [p EXCEPT !.inhabit = FALSE]
    <2>1. P!Now(s, FALSE)
      BY <1>2 DEF P!Dropped
    <2>2. p \in Chans /\ p.svc = {}
      BY PresenceTypes, PartType DEF P!bs_channel_drop
    <2> HIDE DEF p
    <2>3. s \in Chans /\ s.svc = {}
      BY <2>2 DEF Chans
    <2> HIDE DEF s
    <2>4. chan' = s /\ called' \in BOOLEAN
      BY <2>1, NowIs
    <2>5. registered' = FALSE /\ guard' = FALSE /\ closed' = FALSE /\ assigned' = None
          /\ unwanted' = {} /\ UNCHANGED <<bots, pconf>>
      BY <1>2 DEF P!Dropped
    <2>6. PresenceInv'
      BY <2>3, <2>4, <2>5, PresenceTypes, PresenceTypes2
    <2> QED BY <2>5, <2>6 DEF KeepsGuard
  <1> QED BY <1>1, <1>2

LEMMA GuardSet ==
    ASSUME PresenceInv, NEW on \in BOOLEAN, P!cs_cmd_set_guard(on)
    PROVE  PresenceInv' /\ KeepsGuard
  <1> DEFINE j == IF on THEN P!join(chan, CS) ELSE P!part(chan, CS)
             s == IF chan.inhabit THEN chan ELSE j
  <1>1. P!Now(s, on /\ chan.users = {})
    BY DEF P!cs_cmd_set_guard
  <1>2. s \in Chans /\ s.users = chan.users /\ s.svc \subseteq chan.svc \union {CS}
    BY PresenceTypes, PartType, JoinType
  <1> HIDE DEF s
  <1>3. chan' = s /\ called' \in BOOLEAN
    BY <1>1, NowIs
  <1>4. registered /\ guard # on /\ guard' = on
        /\ UNCHANGED <<registered, closed, assigned, bots, unwanted, pconf>>
    BY DEF P!cs_cmd_set_guard
  <1>5. PresenceInv'
    BY <1>2, <1>3, <1>4, PresenceTypes, PresenceTypes2
  <1>6. P!Guarded => ~guard'
    BY <1>4, PresenceTypes DEF P!Guarded
  <1> QED BY <1>5, <1>6 DEF KeepsGuard

LEMMA ChannelCloses ==
    ASSUME P!PresenceAssumption, PresenceInv, NEW on \in BOOLEAN, P!cs_cmd_close(on)
    PROVE  PresenceInv' /\ KeepsGuard
  <1> DEFINE j == [P!join(chan, CS) EXCEPT !.inhabit = TRUE]
             f == P!FoldLeft(P!chanuser_delete, j, P!SetToSeq(chan.users))
             w == [chan EXCEPT !.inhabit = FALSE]
             s == IF on THEN IF P!Exists(chan) THEN f ELSE chan ELSE P!part(w, CS)
  <1>1. P!Now(s, FALSE)
    BY DEF P!cs_cmd_close
  <1>2. registered /\ closed # on /\ closed' = on
        /\ UNCHANGED <<registered, guard, assigned, bots, unwanted, pconf>>
    BY DEF P!cs_cmd_close
  <1>3. j \in Chans /\ j.users = chan.users /\ j.svc = chan.svc \union {CS}
    <2>1. P!join(chan, CS) \in Chans /\ P!join(chan, CS).users = chan.users
          /\ P!join(chan, CS).svc = chan.svc \union {CS}
      BY PresenceTypes, JoinType
    <2> QED BY <2>1 DEF Chans
  <1> HIDE DEF j
  <1>4. f \in Chans /\ f.users = {} /\ f.svc \subseteq chan.svc \union {CS}
    <2>1. f = P!FoldLeft(P!chanuser_delete, j, P!SetToSeq(j.users))
      BY <1>3
    <2> QED BY <1>3, <2>1, ClosedEmpty
  <1> HIDE DEF f
  <1>5. w \in Chans /\ w.users = chan.users /\ w.svc = chan.svc
    BY PresenceTypes DEF Chans
  <1> HIDE DEF w
  <1>6. chan \in Chans /\ (~P!Exists(chan) => chan.users = {}) /\ (~on => chan.users = {})
    BY <1>2, PresenceTypes DEF P!Exists, P!Members
  <1>7. s \in Chans /\ s.users = {} /\ s.svc \subseteq chan.svc \union {CS}
    BY <1>4, <1>5, <1>6, PartType
  <1> HIDE DEF s
  <1>8. chan' = s /\ called' \in BOOLEAN
    BY <1>1, NowIs
  <1>9. PresenceInv'
    BY <1>2, <1>7, <1>8, PresenceTypes, PresenceTypes2
  <1> QED BY <1>7, <1>8, <1>9 DEF KeepsGuard

LEMMA ChannelRecovers ==
    ASSUME PresenceInv, P!cs_cmd_recover PROVE PresenceInv' /\ KeepsGuard
  <1> DEFINE j == P!join(chan, CS)
             s == [j EXCEPT !.inhabit = TRUE]
  <1>1. registered /\ P!Now(s, assigned # None) /\ UNCHANGED <<P!regVars, unwanted>> /\ ~P!Exists(chan)
    BY DEF P!cs_cmd_recover
  <1>2. j \in Chans /\ j.users = chan.users /\ j.svc = chan.svc \union {CS}
    BY PresenceTypes, JoinType
  <1> HIDE DEF j
  <1>3. s \in Chans /\ s.users = {} /\ s.svc \subseteq chan.svc \union {CS}
    BY <1>1, <1>2 DEF Chans, P!Exists, P!Members
  <1> HIDE DEF s
  <1>4. chan' = s /\ called' \in BOOLEAN
    BY <1>1, NowIs
  <1>5. UNCHANGED <<registered, guard, closed, assigned, bots, pconf, unwanted>>
    BY <1>1 DEF P!regVars
  <1>6. PresenceInv'
    BY <1>1, <1>3, <1>4, <1>5, PresenceTypes, PresenceTypes2
  <1> QED BY <1>3, <1>4, <1>6 DEF KeepsGuard

\* CLEAR USERS keeps the invariant only.
LEMMA UsersCleared ==
    ASSUME P!PresenceAssumption, PresenceInv, NEW r, P!cs_cmd_clear_users(r)
    PROVE  PresenceInv'
  <1> DEFINE s == P!FoldLeft(P!try_kick, chan, P!SetToSeq(chan.users \ {r}))
             t == IF guard /\ ~pconf.leave /\ r \notin s.users THEN P!part(s, CS) ELSE s
  <1>1. P!Now(t, FALSE) /\ UNCHANGED <<P!regVars, unwanted>> /\ registered /\ ~closed
    BY DEF P!cs_cmd_clear_users
  <1>2. Served(chan, s)
    BY PresenceTypes, ClearedServed
  <1> HIDE DEF s
  <1>3. t \in Chans /\ t.svc \subseteq chan.svc \union {CS}
    BY <1>2, PartType DEF Served
  <1> HIDE DEF t
  <1>4. chan' = t /\ called' \in BOOLEAN
    BY <1>1, NowIs
  <1>5. UNCHANGED <<registered, guard, closed, assigned, bots, pconf, unwanted>>
    BY <1>1 DEF P!regVars
  <1> QED BY <1>1, <1>3, <1>4, <1>5, PresenceTypes, PresenceTypes2

-----------------------------------------------------------------------------
(* The bots. *)

LEMMA BotAssigned ==
    ASSUME P!PresenceAssumption, PresenceInv, NEW b \in Bots, P!bs_cmd_assign(b)
    PROVE  PresenceInv' /\ KeepsGuard
  <1> DEFINE j == P!join(chan, b)
             k == P!part(j, assigned)
             s == P!part(k, CS)
  <1>1. P!Now(s, FALSE)
    BY DEF P!bs_cmd_assign
  <1>2. registered /\ b \in bots /\ b # assigned /\ assigned' = b
        /\ UNCHANGED <<registered, guard, closed, bots, unwanted, pconf>>
    BY DEF P!bs_cmd_assign
  <1>3. j \in Chans /\ j.users = chan.users /\ j.svc = chan.svc \union {b}
    BY PresenceTypes, JoinType
  <1> HIDE DEF j
  <1>4. k \in Chans /\ k.users = chan.users /\ b \in k.svc /\ k.svc = j.svc \ {assigned}
    BY <1>2, <1>3, PartType
  <1> HIDE DEF k
  <1>5. s \in Chans /\ s.users = chan.users /\ b \in s.svc /\ s.svc \subseteq {b}
    BY <1>3, <1>4, PartType, PresenceConstants, PresenceTypes
  <1> HIDE DEF s
  <1>6. chan' = s /\ called' \in BOOLEAN
    BY <1>1, NowIs
  <1>7. PresenceInv'
    BY <1>2, <1>5, <1>6, PresenceTypes, PresenceTypes2
  <1>8. KeepsGuard
    BY <1>2, <1>5, <1>6 DEF KeepsGuard, P!Guarded
  <1> QED BY <1>7, <1>8

\* A service and a user are two members.
LEMMA NotAlone ==
    ASSUME P!PresenceAssumption, NEW s \in Chans, NEW x \in s.users, NEW y \in s.svc
    PROVE  Cardinality(P!Members(s)) > 1
  <1> DEFINE S == P!Members(s)
  <1>1. x \in Users /\ y \in Bots \union {CS} /\ x # y
    BY PresenceConstants DEF Chans
  <1>2. IsFiniteSet(S)
    <2>1. s.users \subseteq Users /\ s.svc \subseteq Bots \union {CS}
      BY DEF Chans
    <2>2. IsFiniteSet(Bots \union {CS})
      BY PresenceConstants, FS_AddElement
    <2>3. IsFiniteSet(s.users) /\ IsFiniteSet(s.svc)
      BY <2>1, <2>2, PresenceConstants, FS_Subset
    <2> QED BY <2>3, FS_Union DEF P!Members
  <1>3. {x, y} \subseteq S
    BY DEF P!Members
  <1> HIDE DEF S
  <1>4. Cardinality({x, y}) = 2
    <2>1. Cardinality({x}) = 1 /\ IsFiniteSet({x})
      BY FS_Singleton
    <2>2. y \notin {x} /\ {x} \union {y} = {x, y}
      BY <1>1
    <2>3. Cardinality({x} \union {y}) = 2
      <3>1. Cardinality({x} \union {y}) = IF y \in {x} THEN Cardinality({x}) ELSE Cardinality({x}) + 1
        BY <2>1, FS_AddElement
      <3> QED BY <3>1, <2>1, <2>2
    <2> QED BY <2>2, <2>3
  <1>5. Cardinality({x, y}) <= Cardinality(S)
    BY <1>2, <1>3, FS_Subset
  <1>6. Cardinality(S) \in Nat
    BY <1>2, FS_CardinalityType
  <1> QED BY <1>4, <1>5, <1>6 DEF S

\* When the bot goes, ChanServ is there for the users that had a service.
LEMMA RelievedServes ==
    ASSUME P!PresenceAssumption, PresenceInv, assigned # None
    PROVE  LET s == P!Relieved(chan, assigned)
           IN  /\ s \in Chans /\ s.users = chan.users /\ (P!Guarded => CS \in s.svc)
               /\ s.svc \subseteq {CS}
  <1> DEFINE j == IF guard /\ (~pconf.leave \/ Cardinality(P!Members(chan)) > 1)
                  THEN P!join(chan, CS) ELSE chan
             s == P!part(j, assigned)
  <1>1. P!Relieved(chan, assigned) = s
    BY PCardinality DEF P!Relieved
  <1>2. P!Guarded => guard /\ Cardinality(P!Members(chan)) > 1
    <2> SUFFICES ASSUME P!Guarded PROVE Cardinality(P!Members(chan)) > 1
      BY DEF P!Guarded
    <2>1. PICK x : x \in chan.users
      BY DEF P!Guarded
    <2>2. PICK y : y \in chan.svc
      BY DEF P!Guarded
    <2> QED BY <2>1, <2>2, NotAlone, PresenceTypes
  <1>3. j \in Chans /\ j.users = chan.users /\ (P!Guarded => CS \in j.svc)
        /\ j.svc \subseteq {CS, assigned}
    BY <1>2, PresenceTypes, JoinType
  <1> HIDE DEF j
  <1>4. s \in Chans /\ s.users = chan.users /\ (P!Guarded => CS \in s.svc)
        /\ s.svc \subseteq {CS}
    BY <1>3, PartType, AssignedType
  <1> QED BY <1>1, <1>4

LEMMA BotRelieved ==
    ASSUME P!PresenceAssumption, PresenceInv, assigned # None,
           P!Now(P!Relieved(chan, assigned), FALSE), assigned' = None,
           bots' \subseteq bots, UNCHANGED <<registered, guard, closed, unwanted, pconf>>
    PROVE  PresenceInv' /\ KeepsGuard
  <1> DEFINE s == P!Relieved(chan, assigned)
  <1>1. s \in Chans /\ s.users = chan.users /\ (P!Guarded => CS \in s.svc)
        /\ s.svc \subseteq {CS}
    BY RelievedServes
  <1>2. chan' = s /\ called' \in BOOLEAN
    BY NowIs
  <1> HIDE DEF s
  <1>3. PresenceInv'
    BY <1>1, <1>2, PresenceTypes, PresenceTypes2
  <1>4. KeepsGuard
    BY <1>1, <1>2 DEF KeepsGuard, P!Guarded
  <1> QED BY <1>3, <1>4

LEMMA BotsChange ==
    ASSUME P!PresenceAssumption, PresenceInv, NEW b \in Bots,
           P!Unassigned \/ P!bs_cmd_add(b) \/ P!bs_cmd_delete(b)
    PROVE  PresenceInv' /\ KeepsGuard
  <1>1. CASE P!Unassigned
    BY <1>1, BotRelieved DEF P!Unassigned
  <1>2. CASE P!bs_cmd_add(b)
    <2>1. bots' = bots \union {b}
          /\ UNCHANGED <<chan, registered, guard, closed, assigned, unwanted, pconf, called>>
      BY <1>2 DEF P!bs_cmd_add
    <2>2. PresenceInv'
      BY <2>1, PresenceTypes, PresenceTypes2
    <2>3. KeepsGuard
      BY <2>1 DEF KeepsGuard, P!Guarded
    <2> QED BY <2>2, <2>3
  <1>3. CASE P!bs_cmd_delete(b) /\ assigned = b
    <2>1. P!Now(P!Relieved(chan, assigned), FALSE) /\ assigned' = None /\ bots' \subseteq bots
          /\ UNCHANGED <<registered, guard, closed, unwanted, pconf>>
      BY <1>3 DEF P!bs_cmd_delete
    <2>2. assigned # None
      BY <1>3, PresenceConstants
    <2> QED BY <2>1, <2>2, BotRelieved
  <1>4. CASE P!bs_cmd_delete(b) /\ assigned # b
    <2>1. bots' = bots \ {b} /\ UNCHANGED <<chan, assigned, called>>
          /\ UNCHANGED <<registered, guard, closed, unwanted, pconf>>
      BY <1>4 DEF P!bs_cmd_delete
    <2>2. PresenceInv'
      BY <2>1, <1>4, PresenceTypes, PresenceTypes2
    <2>3. KeepsGuard
      BY <2>1 DEF KeepsGuard, P!Guarded
    <2> QED BY <2>2, <2>3
  <1> QED BY <1>1, <1>2, <1>3, <1>4

LEMMA BotRenamed ==
    ASSUME P!PresenceAssumption, PresenceInv, NEW b \in Bots, NEW n \in Bots, P!bs_cmd_change(b, n)
    PROVE  PresenceInv' /\ KeepsGuard
  <1> DEFINE s == P!part(chan, b)
             t == IF ~pconf.leave \/ P!Exists(s) THEN P!join(s, n) ELSE s
  <1>0. bots' = (bots \ {b}) \union {n} /\ UNCHANGED <<registered, guard, closed, unwanted, pconf>>
    BY DEF P!bs_cmd_change
  <1>1. CASE assigned = b
    <2>1. P!Now(t, FALSE) /\ assigned' = n
      BY <1>1 DEF P!bs_cmd_change
    <2>2. s \in Chans /\ s.users = chan.users /\ s.svc \subseteq {CS}
      BY <1>1, PresenceTypes, PartType
    <2>3. s.users # {} => P!Exists(s)
      BY DEF P!Exists, P!Members
    <2> HIDE DEF s
    <2>4. t \in Chans /\ t.users = chan.users /\ (t.users # {} => n \in t.svc)
          /\ t.svc \subseteq {CS, n}
      BY <2>2, <2>3, JoinType
    <2> HIDE DEF t
    <2>5. chan' = t /\ called' \in BOOLEAN
      BY <2>1, NowIs
    <2>6. registered
      BY <1>1, PresenceTypes, PresenceConstants
    <2>7. PresenceInv'
      BY <1>0, <2>1, <2>4, <2>5, <2>6, PresenceTypes, PresenceTypes2
    <2>8. KeepsGuard
      BY <1>0, <2>1, <2>4, <2>5 DEF KeepsGuard, P!Guarded
    <2> QED BY <2>7, <2>8
  <1>2. CASE assigned # b
    <2>1. UNCHANGED <<chan, assigned, called>>
      BY <1>2 DEF P!bs_cmd_change
    <2>2. PresenceInv'
      BY <1>0, <1>2, <2>1, PresenceTypes, PresenceTypes2
    <2>3. KeepsGuard
      BY <1>0, <2>1 DEF KeepsGuard, P!Guarded
    <2> QED BY <2>2, <2>3
  <1> QED BY <1>1, <1>2

LEMMA PresenceInit == ASSUME P!PresenceAssumption, P!Init PROVE PresenceInv
  <1>1. chan = [users |-> {}, svc |-> {}, inhabit |-> FALSE]
        /\ registered = FALSE /\ guard = FALSE /\ closed = FALSE
        /\ assigned = None /\ bots = {} /\ unwanted = {} /\ pconf \in Confs /\ called = FALSE
    BY DEF P!Init, Confs
  <1>2. chan \in Chans
    BY <1>1 DEF Chans
  <1> QED BY <1>1, <1>2, PresenceTypes

LEMMA PresenceNext ==
    ASSUME P!PresenceAssumption, PresenceInv, [P!Next]_(P!vars)
    PROVE  PresenceInv' /\ (KeepsGuard \/ \E r \in Users \union {None} : P!cs_cmd_clear_users(r))
  <1> DEFINE Emptied == \E r \in Users \union {None} : P!cs_cmd_clear_users(r)
             Goal == PresenceInv' /\ (KeepsGuard \/ Emptied)
  <1>0. PresenceInv' /\ KeepsGuard => Goal
    OBVIOUS
  <1>1. ASSUME NEW u \in Users, NEW newer, P!chanuser_add(u, newer) PROVE Goal
    BY <1>0, <1>1, UserJoins
  <1>2. ASSUME NEW u,
               \/ P!UserParts(u)
               \/ u \in Users /\ \E about \in SUBSET Users : P!sync_channel_acl_change(u, about)
               \/ P!sync_user(u)
               \/ P!cs_cmd_sync
               \/ P!chanserv_config_ready
        PROVE  Goal
    BY <1>0, <1>2, UsersServed
  <1>3. ASSUME P!cs_leave_empty PROVE Goal
    BY <1>0, <1>3, ChanServLeaves
  <1>4. ASSUME \/ P!cs_register \/ P!cs_cmd_activate
               \/ P!cs_cmd_drop \/ P!cs_cmd_fdrop \/ P!expire_check
        PROVE  Goal
    <2>1. P!cs_register \/ P!cs_cmd_activate \/ P!Dropped
      BY <1>4 DEF P!cs_cmd_drop, P!cs_cmd_fdrop, P!expire_check
    <2> QED BY <1>0, <2>1, Registrations
  <1>5. ASSUME NEW on \in BOOLEAN, P!cs_cmd_set_guard(on) PROVE Goal
    BY <1>0, <1>5, GuardSet
  <1>6. ASSUME NEW on \in BOOLEAN, P!cs_cmd_close(on) PROVE Goal
    BY <1>0, <1>6, ChannelCloses
  <1>7. ASSUME P!cs_cmd_recover PROVE Goal
    BY <1>0, <1>7, ChannelRecovers
  <1>8. ASSUME NEW r \in Users \union {None}, P!cs_cmd_clear_users(r) PROVE Goal
    <2>1. PresenceInv'
      BY <1>8, UsersCleared
    <2> QED BY <1>8, <2>1
  <1>9. ASSUME NEW b \in Bots, P!bs_cmd_assign(b) PROVE Goal
    BY <1>0, <1>9, BotAssigned
  <1>10. ASSUME NEW b \in Bots, P!bs_cmd_add(b) \/ P!bs_cmd_delete(b) PROVE Goal
    BY <1>0, <1>10, BotsChange
  <1>11. ASSUME P!bs_cmd_unassign \/ P!bs_cmd_set_nobot PROVE Goal
    <2>1. P!Unassigned
      BY <1>11 DEF P!bs_cmd_unassign, P!bs_cmd_set_nobot
    <2>2. assigned \in Bots
      BY <2>1, AssignedType DEF P!Unassigned
    <2> QED BY <1>0, <2>1, <2>2, BotsChange
  <1>12. ASSUME NEW b \in Bots, NEW n \in Bots, P!bs_cmd_change(b, n) PROVE Goal
    BY <1>0, <1>12, BotRenamed
  <1>13. ASSUME UNCHANGED P!vars PROVE Goal
    <2>1. UNCHANGED <<chan, registered, guard, closed, assigned, bots, unwanted, pconf, called>>
      BY <1>13 DEF P!vars
    <2>2. PresenceInv'
      BY <2>1, PresenceTypes, PresenceTypes2
    <2>3. KeepsGuard
      BY <2>1 DEF KeepsGuard, P!Guarded
    <2> QED BY <1>0, <2>2, <2>3
  <1>14. Goal
    <2> HIDE DEF Goal
    <2> QED BY <1>1, <1>2, <1>3, <1>4, <1>5, <1>6, <1>7, <1>8, <1>9, <1>10, <1>11, <1>12, <1>13
         DEF P!Next
  <1> QED BY <1>14

\* A channel with GUARD that has its service does not lose it while users stay,
\* whoever joins, leaves or is removed (main.c:541, 941), whatever becomes of its
\* bots (botserv/main.c:789, 966), except by CLEAR USERS.
THEOREM GuardAlwaysKept == ASSUME P!PresenceAssumption PROVE P!Spec => P!GuardKept
  <1> DEFINE Step == \/ P!Guarded /\ guard' /\ chan'.users # {} => P!Guarded'
                     \/ \E r \in Users \union {None} : P!cs_cmd_clear_users(r)
  <1>1. P!Init => PresenceInv
    BY PresenceInit
  <1>2. PresenceInv /\ [P!Next]_(P!vars) => PresenceInv'
    BY PresenceNext
  <1>3. PresenceInv /\ [P!Next]_(P!vars) => [Step]_(P!vars)
    BY PresenceNext DEF KeepsGuard
  <1> QED BY <1>1, <1>2, <1>3, PTL DEF P!Spec, P!GuardKept

\* No service is left in a channel that has no use for it, whoever called it there
\* (main.c:941; botserv/main.c:789, 966), and none in one that was dropped.
THEOREM NoServiceStrays ==
    ASSUME P!PresenceAssumption PROVE P!Spec => [](P!TypeOK /\ P!NoStrayService)
  <1>1. P!Init => PresenceInv
    BY PresenceInit
  <1>2. PresenceInv /\ [P!Next]_(P!vars) => PresenceInv'
    BY PresenceNext
  <1>3. PresenceInv => P!TypeOK /\ P!NoStrayService
    BY DEF PresenceInv
  <1> QED BY <1>1, <1>2, <1>3, PTL DEF P!Spec
-----------------------------------------------------------------------------
(* ChanFix: the records of who has ops. *)

\* A round of gathering.
GatherTypes(X, U) == \A x \in X, u \in U : chanfix_oprecord_update(x, u) \in X

GatherLoop(s0, n, order) ==
    \E f : /\ f[0] = s0 /\ \A m \in 1 .. n : f[m] = chanfix_oprecord_update(f[m - 1], order[m])
           /\ FoldLeft(chanfix_oprecord_update, s0, order) = f[n]

LEMMA GatherPath ==
    ASSUME NEW X, NEW U, GatherTypes(X, U),
           NEW s0 \in X, NEW n \in Nat, NEW order, DOMAIN order = 1 .. n, Holds(order, n, U)
    PROVE  GatherLoop(s0, n, order)
  <1> DEFINE D == SUBSET (1 .. n)
             Q(g) == g = [s \in D |-> IF s = {} THEN s0
                                      ELSE chanfix_oprecord_update(g[s \ {MaxOf(s)}], order[MaxOf(s)])]
             h == CHOOSE g : Q(g)
             f == [m \in 0 .. n |-> h[1 .. m]]
  <1>1. FoldLeft(chanfix_oprecord_update, s0, order) = h[1 .. n]
    BY Zenon DEF FoldLeft, MapThenFoldSet, Max, MaxOf
  <1>2. \E g : Q(g)
    <2>1. PICK step \in [X \X U -> X] : \A x \in X, u \in U : step[<<x, u>>] = chanfix_oprecord_update(x, u)
      <3>0. \A x \in X, u \in U : chanfix_oprecord_update(x, u) \in X
        BY DEF GatherTypes
      <3> DEFINE st == [p \in X \X U |-> chanfix_oprecord_update(p[1], p[2])]
      <3>1. st \in [X \X U -> X] /\ \A x \in X, u \in U : st[<<x, u>>] = chanfix_oprecord_update(x, u)
        BY <3>0
      <3> HIDE DEF st
      <3> QED BY <3>1
    <2>2. PICK g \in [SUBSET (1 .. n) -> X] : Iterates(g, step, s0, order, n)
      <3>1. HasIterate(X, step, s0, order, n)
        BY IteratesExists
      <3> QED BY <3>1 DEF HasIterate
    <2>3. \A s \in D : s # {} => g[s \ {MaxOf(s)}] \in X /\ order[MaxOf(s)] \in U
      <3>1. \A s \in D : s # {} => MaxOf(s) \in 1 .. n
        BY MaxIs
      <3>2. \A s \in D : s \ {MaxOf(s)} \in D
        OBVIOUS
      <3> QED BY <3>1, <3>2 DEF Holds
    <2>4. \A s \in D : s # {} => step[<<g[s \ {MaxOf(s)}], order[MaxOf(s)]>>]
                                     = chanfix_oprecord_update(g[s \ {MaxOf(s)}], order[MaxOf(s)])
      BY <2>1, <2>3
    <2>5. g = [s \in D |-> IF s = {} THEN s0 ELSE step[<<g[s \ {MaxOf(s)}], order[MaxOf(s)]>>]]
      BY <2>2, Zenon DEF Iterates
    <2> HIDE DEF D
    <2>6. \A s \in D : (IF s = {} THEN s0 ELSE step[<<g[s \ {MaxOf(s)}], order[MaxOf(s)]>>])
                 = (IF s = {} THEN s0 ELSE chanfix_oprecord_update(g[s \ {MaxOf(s)}], order[MaxOf(s)]))
      BY <2>4, Zenon
    <2>7. Q(g)
      BY <2>5, <2>6, Zenon
    <2> QED BY <2>7
  <1>3. Q(h)
    BY <1>2, Zenon
  <1> HIDE DEF h
  <1>4. \A s \in D : h[s] = IF s = {} THEN s0 ELSE chanfix_oprecord_update(h[s \ {MaxOf(s)}], order[MaxOf(s)])
    BY <1>3, Zenon
  <1>5. f[0] = s0
    <2>1. 1 .. 0 = {} /\ 0 \in 0 .. n /\ {} \in D
      OBVIOUS
    <2> HIDE DEF D
    <2> QED BY <2>1, <1>4
  <1>6. ASSUME NEW m \in 1 .. n PROVE f[m] = chanfix_oprecord_update(f[m - 1], order[m])
    <2>1. m \in 0 .. n /\ m - 1 \in 0 .. n /\ (1 .. m) \in D /\ m \in Nat \ {0}
      OBVIOUS
    <2>a. 1 .. m # {}
      <3>1. 1 \in 1 .. m
        BY <2>1
      <3> QED BY <3>1
    <2>2. MaxOf(1 .. m) = m /\ (1 .. m) \ {m} = 1 .. m - 1
      BY <2>1, MaxOfFirst
    <2>3. f[m] = h[1 .. m] /\ f[m - 1] = h[1 .. m - 1]
      BY <2>1
    <2> HIDE DEF D, f
    <2> QED BY <2>1, <2>a, <2>2, <2>3, <1>4, Zenon
  <1>7. f[n] = h[1 .. n]
    <2>1. n \in 0 .. n
      OBVIOUS
    <2> QED BY <2>1, Zenon
  <1> HIDE DEF f
  <1> QED BY <1>1, <1>5, <1>6, <1>7 DEF GatherLoop



FixHosts == {HostOf[u] : u \in Users}
Owners == Accounts \union {NoAccount}
OpRecords == [entity : Owners, host : FixHosts, age : Int, idle : 0 .. Retention]

\* Records that weigh something, one for each host.
Sound(l) ==
    /\ l \in Seq(OpRecords)
    /\ \A i \in 1 .. Len(l) : l[i].age > 0
    /\ \A i, j \in 1 .. Len(l) : l[i].host = l[j].host => i = j

ChanRecs == [list : Seq(OpRecords), ts : Int, chan : BOOLEAN, idle : 0 .. Retention,
             started : Nat, requested : BOOLEAN]

Kempt(r) == r \in ChanRecs /\ Sound(r.list)

FixInv ==
    /\ exists \in BOOLEAN /\ ts \in Int /\ members \subseteq Users /\ ops \subseteq members
    /\ login \in [Users -> Owners] /\ accounts \subseteq Accounts
    /\ rec # NoRec => Kempt(rec) /\ rec.chan = exists

LEMMA FixConstants ==
    ASSUME ChanFixAssumption
    PROVE  /\ IsFiniteSet(Users) /\ NoAccount \notin Accounts
           /\ TSs \subseteq Nat \ {0} /\ MinTS \in Int /\ FinalStep \in 1 .. 99 /\ InitialStep \in FinalStep .. 99
           /\ FixTime \in Nat \ {0} /\ Retention \in Nat \ {0} /\ Divisor \in Nat \ {0}
  BY DEF ChanFixAssumption

\* No record with entries is NoRec.
LEMMA KemptNoRec == ASSUME NEW r, Kempt(r) PROVE r # NoRec
  BY DEF Kempt, ChanRecs, NoRec

LEMMA NoRecEmpty == NoRec.list = <<>> /\ NoRec.started = -1
  BY DEF NoRec

LEMMA NewRecKempt ==
    ASSUME ChanFixAssumption, NEW c \in BOOLEAN, NEW t \in Int
    PROVE  Kempt(NewRec(c, t)) /\ NewRec(c, t).chan = c
  <1>1. Retention \in 0 .. Retention
    BY FixConstants
  <1>2. <<>> \in Seq(OpRecords) /\ Sound(<<>>)
    BY DEF Sound
  <1> QED BY <1>1, <1>2 DEF NewRec, Kempt, ChanRecs

\* The first of some positions.
LEMMA FirstIs ==
    ASSUME NEW I \in SUBSET Nat, I # {}
    PROVE  First(I) \in I
  <1>1. \E i \in I : \A j \in I : i <= j
    BY LeastNat
  <1> QED BY <1>1 DEF First

LEMMA AgainSeen ==
    ASSUME ChanFixAssumption, login \in [Users -> Owners], NEW u \in Users,
           NEW x \in OpRecords, x.age > 0
    PROVE  LET y == SeenAgain(x, u)
           IN  y \in OpRecords /\ y.age > 0 /\ y.host = x.host
  <1> DEFINE n == x.age + 1
             z == 0
             w == IF x.entity = NoAccount THEN login[u] ELSE x.entity
  <1>1. n \in Int /\ n > 0 /\ z \in 0 .. Retention /\ x.host \in FixHosts /\ w \in Owners
    BY FixConstants DEF OpRecords
  <1>2. SeenAgain(x, u) = [x EXCEPT !.age = n, !.idle = z, !.entity = w]
    BY DEF SeenAgain, OpRecords
  <1> HIDE DEF n, z, w
  <1>3. [x EXCEPT !.age = n, !.idle = z, !.entity = w] \in OpRecords
    BY <1>1 DEF OpRecords
  <1>4. /\ [x EXCEPT !.age = n, !.idle = z, !.entity = w].age = n
        /\ [x EXCEPT !.age = n, !.idle = z, !.entity = w].host = x.host
    BY <1>1 DEF OpRecords
  <1> QED BY <1>1, <1>2, <1>3, <1>4

\* One operator that is seen.
LEMMA UpdateKempt ==
    ASSUME ChanFixAssumption, login \in [Users -> Owners],
           NEW r, Kempt(r), NEW u \in Users
    PROVE  LET t == chanfix_oprecord_update(r, u) IN Kempt(t) /\ t.chan = r.chan
  <1> DEFINE I == chanfix_oprecord_find(r.list, u)
             t == chanfix_oprecord_update(r, u)
             l == r.list
             n == Len(l)
  <1>1. l \in Seq(OpRecords) /\ n \in Nat /\ DOMAIN l = 1 .. n /\ Sound(l) /\ r \in ChanRecs
    BY DEF Kempt, ChanRecs
  <1>2. 0 \in 0 .. Retention /\ login[u] \in Owners
        /\ HostOf[u] \in FixHosts
    BY FixConstants DEF FixHosts
  <1>3. CASE I = {}
    <2> DEFINE e == [entity |-> login[u], host |-> HostOf[u], age |-> 1, idle |-> 0]
               k == Append(l, e)
    <2>1. t = [r EXCEPT !.idle = 0, !.list = k]
      BY <1>3 DEF chanfix_oprecord_update
    <2>2. e \in OpRecords /\ e.age = 1 /\ e.host = HostOf[u]
      BY <1>2 DEF OpRecords
    <2> HIDE DEF e
    <2>3. k \in Seq(OpRecords) /\ Len(k) = n + 1 /\ k[n + 1] = e /\ \A i \in 1 .. n : k[i] = l[i]
      BY <1>1, <2>2
    <2>4. \A i \in 1 .. n : l[i].host # HostOf[u]
      BY <1>1, <1>3 DEF chanfix_oprecord_find
    <2> HIDE DEF k
    <2>5. \A i \in 1 .. n + 1 : i \in 1 .. n \/ i = n + 1
      BY <1>1
    <2>6. Sound(k)
      <3>1. \A i \in 1 .. n + 1 : k[i].age > 0
        BY <1>1, <2>2, <2>3, <2>5 DEF Sound
      <3>2. ASSUME NEW i \in 1 .. n + 1, NEW j \in 1 .. n + 1, k[i].host = k[j].host PROVE i = j
        BY <1>1, <2>2, <2>3, <2>4, <2>5, <3>2 DEF Sound
      <3> QED BY <2>3, <3>1, <3>2 DEF Sound
    <2>7. t \in ChanRecs /\ t.list = k /\ t.chan = r.chan
      BY <1>1, <1>2, <2>1, <2>3 DEF ChanRecs
    <2> QED BY <2>6, <2>7 DEF Kempt
  <1>4. CASE I # {}
    <2> DEFINE m == First(I)
               e == SeenAgain(l[m], u)
               k == [l EXCEPT ![m] = e]
    <2>1. m \in 1 .. n
      <3>1. I \in SUBSET Nat /\ I \subseteq 1 .. n
        BY <1>1 DEF chanfix_oprecord_find
      <3> QED BY <1>4, <3>1, FirstIs
    <2>2. t = [r EXCEPT !.list = k]
      <3>1. t = [r EXCEPT !.list = [l EXCEPT ![m] = SeenAgain(@, u)]]
        BY <1>4 DEF chanfix_oprecord_update
      <3> QED BY <3>1
    <2> HIDE DEF m
    <2>3. l[m] \in OpRecords /\ l[m].age > 0
      BY <1>1, <2>1 DEF Sound
    <2>4. e \in OpRecords /\ e.age > 0 /\ e.host = l[m].host
      BY <2>3, AgainSeen
    <2> HIDE DEF e
    <2>5. k \in Seq(OpRecords) /\ Len(k) = n /\ k[m] = e /\ \A i \in 1 .. n : i # m => k[i] = l[i]
      BY <1>1, <2>1, <2>4
    <2> HIDE DEF k
    <2>6. \A i \in 1 .. n : k[i].age > 0 /\ k[i].host = l[i].host
      BY <1>1, <2>3, <2>4, <2>5 DEF Sound
    <2>7. Sound(k)
      BY <1>1, <2>5, <2>6 DEF Sound
    <2>8. t \in ChanRecs /\ t.list = k /\ t.chan = r.chan
      BY <1>1, <1>2, <2>2, <2>5 DEF ChanRecs
    <2> QED BY <2>7, <2>8 DEF Kempt
  <1> QED BY <1>3, <1>4

\* A loop that stays in a set.
LEMMA StaysIn ==
    ASSUME NEW X, NEW n \in Nat, NEW f, f[0] \in X, \A m \in 1 .. n : f[m - 1] \in X => f[m] \in X
    PROVE  f[n] \in X
  <1> DEFINE S == {m \in Nat : m <= n => f[m] \in X}
  <1>1. 0 \in S
    OBVIOUS
  <1>2. ASSUME NEW m \in Nat, m \in S PROVE m + 1 \in S
    <2> SUFFICES ASSUME m + 1 <= n PROVE f[m + 1] \in X
      OBVIOUS
    <2>1. m + 1 \in 1 .. n /\ (m + 1) - 1 = m /\ f[m] \in X
      BY <1>2
    <2> QED BY <2>1
  <1> HIDE DEF S
  <1>3. Nat \subseteq S
    BY <1>1, <1>2, NatInductionSet
  <1> QED BY <1>3 DEF S

LEMMA FixOrder ==
    ASSUME NEW S, IsFiniteSet(S), NEW order \in SetToSeqs(S)
    PROVE  \E n \in Nat : DOMAIN order = 1 .. n /\ Holds(order, n, S)
  <1>2. Cardinality(S) \in Nat
    BY FS_CardinalityType
  <1>3. order \in [1 .. Cardinality(S) -> S]
    BY DEF SetToSeqs
  <1> QED BY <1>2, <1>3 DEF Holds

\* The whole of the operators, seen in any order.
LEMMA GatheredKempt ==
    ASSUME ChanFixAssumption, login \in [Users -> Owners], ops \subseteq Users,
           NEW r, Kempt(r), NEW order \in SetToSeqs(ops)
    PROVE  LET t == FoldLeft(chanfix_oprecord_update, r, order)
           IN  Kempt(t) /\ t.chan = r.chan
  <1> DEFINE X == {x \in ChanRecs : Kempt(x) /\ x.chan = r.chan}
             t == FoldLeft(chanfix_oprecord_update, r, order)
  <1>1. IsFiniteSet(ops)
    BY FixConstants, FS_Subset
  <1>2. PICK n \in Nat : DOMAIN order = 1 .. n /\ Holds(order, n, ops)
    BY <1>1, FixOrder
  <1>3. GatherTypes(X, ops)
    <2>1. ASSUME NEW x \in X, NEW u \in ops PROVE chanfix_oprecord_update(x, u) \in X
      BY UpdateKempt DEF Kempt
    <2> QED BY <2>1 DEF GatherTypes
  <1>4. r \in X
    BY DEF Kempt
  <1> HIDE DEF X
  <1>5. GatherLoop(r, n, order)
    BY <1>2, <1>3, <1>4, GatherPath
  <1>6. PICK f : /\ f[0] = r /\ \A m \in 1 .. n : f[m] = chanfix_oprecord_update(f[m - 1], order[m])
                 /\ t = f[n]
    BY <1>5 DEF GatherLoop
  <1>7. \A m \in 1 .. n : f[m - 1] \in X => f[m] \in X
    BY <1>2, <1>3, <1>6 DEF GatherTypes, Holds
  <1>8. t \in X
    BY <1>4, <1>6, <1>7, StaysIn
  <1> QED BY <1>8 DEF X

\* Part of a list is as sound as the list.
LEMMA SelectedSound ==
    ASSUME NEW l \in Seq(OpRecords), NEW I,
           \A i \in 1 .. Len(l) : i \in I => l[i].age > 0,
           \A i, j \in 1 .. Len(l) : l[i].host = l[j].host => i = j
    PROVE  Sound(Selected(l, I))
  <1> DEFINE t == Selected(l, I)
             n == Len(l)
  <1>1. t \in Seq(OpRecords) /\ \E h : Embeds(t, l, I, n, h)
    BY SelectedResult
  <1>2. PICK h : Embeds(t, l, I, n, h)
    BY <1>1
  <1> HIDE DEF t
  <1>3. Len(t) \in Nat /\ n \in Nat
    BY <1>1
  <1>4. \A k \in 1 .. Len(t) : h[k] \in 1 .. n /\ h[k] \in I /\ t[k] = l[h[k]]
    BY <1>2 DEF Embeds
  <1>5. \A j, k \in 1 .. Len(t) : h[j] = h[k] => j = k
    <2>1. \A j, k \in 1 .. Len(t) : j < k => h[j] < h[k]
      BY <1>2 DEF Embeds
    <2> QED BY <1>3, <1>4, <2>1
  <1>6. \A k \in 1 .. Len(t) : t[k].age > 0
    BY <1>4
  <1>7. ASSUME NEW j \in 1 .. Len(t), NEW k \in 1 .. Len(t), t[j].host = t[k].host PROVE j = k
    <2>1. h[j] = h[k]
      BY <1>4, <1>7
    <2> QED BY <1>5, <2>1
  <1>8. Sound(t)
    BY <1>1, <1>6, <1>7, Zenon DEF Sound
  <1> QED BY <1>8 DEF t

\* Records that decay.
LEMMA DecayedIs ==
    ASSUME ChanFixAssumption, NEW x \in OpRecords
    PROVE  Decayed(x) \in OpRecords /\ Decayed(x).host = x.host
  <1> DEFINE n == x.age - (x.age + Divisor - 1) \div Divisor
  <1>1. n \in Int
    BY FixConstants DEF OpRecords
  <1>2. Decayed(x) = [x EXCEPT !.age = n]
    BY DEF Decayed
  <1> HIDE DEF n
  <1> QED BY <1>1, <1>2 DEF OpRecords

LEMMA OlderIs ==
    ASSUME ChanFixAssumption, NEW n \in 0 .. Retention
    PROVE  Longer(n) \in 0 .. Retention
  BY FixConstants DEF Longer

\* What else is written in a record.
LEMMA KemptWith ==
    ASSUME NEW r, Kempt(r), NEW c \in BOOLEAN, NEW s \in Nat, NEW q \in BOOLEAN, NEW t \in Int,
           NEW l, Sound(l), NEW n \in 0 .. Retention
    PROVE  /\ LET y == [r EXCEPT !.chan = c] IN Kempt(y) /\ y.chan = c
           /\ LET y == [r EXCEPT !.started = s] IN Kempt(y) /\ y.chan = r.chan
           /\ LET y == [r EXCEPT !.started = s, !.requested = q] IN Kempt(y) /\ y.chan = r.chan
           /\ LET y == [r EXCEPT !.requested = q] IN Kempt(y) /\ y.chan = r.chan
           /\ LET y == [r EXCEPT !.ts = t, !.requested = q] IN Kempt(y) /\ y.chan = r.chan
           /\ LET y == [r EXCEPT !.list = l] IN Kempt(y) /\ y.chan = r.chan
           /\ LET y == [r EXCEPT !.idle = n, !.list = l] IN Kempt(y) /\ y.chan = r.chan
           /\ LET y == [r EXCEPT !.chan = c, !.started = s, !.requested = q, !.list = l]
              IN  Kempt(y) /\ y.chan = c
  <1>1. r \in ChanRecs /\ Sound(r.list) /\ l \in Seq(OpRecords)
    BY DEF Kempt, Sound
  <1> QED BY <1>1 DEF Kempt, ChanRecs

\* The records of a list, one by one, as sound as they were.
LEMMA EachSound ==
    ASSUME NEW l, Sound(l), NEW k, Len(k) = Len(l), k \in Seq(OpRecords),
           \A i \in 1 .. Len(l) : k[i].host = l[i].host /\ k[i].age = l[i].age
    PROVE  Sound(k)
  BY DEF Sound

LEMMA FixStart == ASSUME ChanFixInit PROVE FixInv
  <1>1. login \in [Users -> Owners]
    BY DEF ChanFixInit, Owners
  <1>2. exists \in BOOLEAN /\ ts \in Int
    <2>1. exists = FALSE /\ ts = 0
      BY DEF ChanFixInit
    <2>2. FALSE \in BOOLEAN /\ 0 \in Int
      OBVIOUS
    <2> QED BY <2>1, <2>2, Zenon
  <1>3. members = {} /\ ops = {} /\ accounts = {} /\ rec = NoRec
    BY DEF ChanFixInit
  <1> QED BY <1>1, <1>2, <1>3 DEF FixInv

LEMMA FixStutter == ASSUME FixInv, UNCHANGED chanfixVars PROVE FixInv'
  BY DEF FixInv, chanfixVars, Kempt, Sound, ChanRecs, OpRecords, FixHosts, Owners

\* Steps that leave the channel, the accounts or the record alone.
LEMMA FixSame ==
    ASSUME FixInv,
           exists' \in BOOLEAN /\ ts' \in Int /\ members' \subseteq Users /\ ops' \subseteq members',
           login' \in [Users -> Owners] /\ accounts' \subseteq Accounts,
           rec' # NoRec => Kempt(rec') /\ rec'.chan = exists'
    PROVE  FixInv'
  BY DEF FixInv, Kempt, Sound, ChanRecs, OpRecords, FixHosts, Owners

LEMMA FixChannelAdd ==
    ASSUME ChanFixAssumption, FixInv, NEW t \in TSs, NEW J \in SUBSET Users, NEW O \in SUBSET Users,
           ChannelAdd(t, J, O)
    PROVE  FixInv'
  <1>1. /\ exists' = TRUE /\ ts' = t /\ members' = J /\ ops' = O /\ O \subseteq J
        /\ rec' = IF rec # NoRec THEN [rec EXCEPT !.chan = TRUE] ELSE NewRec(TRUE, t)
        /\ login' = login /\ accounts' = accounts
    BY DEF ChannelAdd, others
  <1>2. t \in Int
    BY FixConstants
  <1>3. Kempt(rec') /\ rec'.chan = TRUE
    <2>1. TRUE \in BOOLEAN /\ FALSE \in BOOLEAN
      OBVIOUS
    <2>2. CASE rec # NoRec
      <3>1. rec' = [rec EXCEPT !.chan = TRUE] /\ rec \in ChanRecs /\ Sound(rec.list)
        BY <1>1, <2>2 DEF FixInv, Kempt
      <3> QED BY <3>1 DEF Kempt, ChanRecs
    <2>3. CASE rec = NoRec
      BY <1>1, <1>2, <2>1, <2>3, NewRecKempt
    <2> QED BY <2>2, <2>3
  <1> QED BY <1>1, <1>2, <1>3, FixSame DEF FixInv

LEMMA FixPart == ASSUME ChanFixAssumption, FixInv, NEW u \in Users, Part(u) PROVE FixInv'
  <1>1. /\ members' = members \ {u} /\ ops' = ops \ {u}
        /\ login' = login /\ accounts' = accounts
    BY DEF Part, others
  <1>2. CASE members = {u}
    <2>1. exists' = FALSE /\ ts' = 0 /\ rec' = chanfix_channel_delete_ev
      BY <1>2 DEF Part
    <2>2. Kempt(rec') /\ rec'.chan = FALSE
      <3>2. CASE rec # NoRec
        <4>1. rec' = [rec EXCEPT !.chan = FALSE] /\ rec \in ChanRecs /\ Sound(rec.list)
          BY <2>1, <3>2 DEF FixInv, Kempt, chanfix_channel_delete_ev
        <4> QED BY <4>1 DEF Kempt, ChanRecs
      <3>3. CASE rec = NoRec
        <4>1. rec' = NewRec(FALSE, 0)
          BY <2>1, <3>3 DEF chanfix_channel_delete_ev
        <4>2. FALSE \in BOOLEAN /\ 0 \in Int
          OBVIOUS
        <4> QED BY <4>1, <4>2, NewRecKempt
      <3> QED BY <3>2, <3>3
    <2>3. /\ exists' \in BOOLEAN /\ ts' \in Int
          /\ members' \subseteq Users /\ ops' \subseteq members'
          /\ login' \in [Users -> Owners] /\ accounts' \subseteq Accounts
      <3>1. exists' \in BOOLEAN
        <4>1. FALSE \in BOOLEAN
          OBVIOUS
        <4> QED BY <2>1, <4>1, Zenon
      <3>2. ts' \in Int
        BY <2>1
      <3> QED BY <1>1, <3>1, <3>2 DEF FixInv
    <2>4. rec'.chan = exists'
      BY <2>1, <2>2
    <2> QED BY <2>2, <2>3, <2>4, FixSame
  <1>3. CASE members # {u}
    <2>1. exists' = exists /\ ts' = ts /\ rec' = rec
      BY <1>3 DEF Part
    <2> QED BY <1>1, <2>1, FixSame DEF FixInv
  <1> QED BY <1>2, <1>3

\* The steps that the record has no part in.
LEMMA FixChannel ==
    ASSUME ChanFixAssumption, FixInv,
           \/ \E u \in Users : Join(u)
           \/ \E O \in SUBSET Users, b \in BOOLEAN : Mode(O, b)
           \/ \E t \in TSs, O \in SUBSET Users : Merge(t, O)
           \/ \E u \in Users, admin \in BOOLEAN : Register(u, admin)
           \/ Drop \/ ChanFixRehash
    PROVE  FixInv'
  <1>1. /\ exists' = exists /\ ts' \in Int /\ rec' = rec
        /\ members' \subseteq Users /\ ops' \subseteq members'
        /\ login' = login /\ accounts' = accounts
    BY FixConstants DEF FixInv, Join, Mode, Merge, Register, Drop, ChanFixRehash, channel, others
  <1> QED BY <1>1, FixSame DEF FixInv

LEMMA FixAccounts ==
    ASSUME ChanFixAssumption, FixInv,
           \/ \E u \in Users, a \in Accounts \union {NoAccount} : Login(u, a)
           \/ \E a \in Accounts : RegisterAccount(a) \/ DropAccount(a)
    PROVE  FixInv'
  <1>1. UNCHANGED <<exists, ts, members, ops, rec>>
    BY DEF Login, RegisterAccount, DropAccount, channel
  <1>2. login' \in [Users -> Owners] /\ accounts' \subseteq Accounts
    BY DEF FixInv, Login, RegisterAccount, DropAccount, Owners
  <1> QED BY <1>1, <1>2, FixSame DEF FixInv

LEMMA FixGather == ASSUME ChanFixAssumption, FixInv, chanfix_gather PROVE FixInv'
  <1> DEFINE r == IF rec = NoRec THEN NewRec(TRUE, ts) ELSE rec
  <1>1. /\ exists = TRUE /\ UNCHANGED <<exists, ts, members, ops, login, accounts>>
        /\ \E order \in SetToSeqs(ops) : rec' = FoldLeft(chanfix_oprecord_update, r, order)
    BY DEF chanfix_gather, channel, others, FixInv
  <1>2. Kempt(r) /\ r.chan = TRUE
    BY <1>1, NewRecKempt DEF FixInv
  <1>3. ops \subseteq Users /\ login \in [Users -> Owners]
    BY DEF FixInv
  <1> HIDE DEF r
  <1>4. Kempt(rec') /\ rec'.chan = TRUE
    BY <1>1, <1>2, <1>3, GatheredKempt
  <1> QED BY <1>1, <1>4, FixSame DEF FixInv

LEMMA FixExpire == ASSUME ChanFixAssumption, FixInv, chanfix_expire PROVE FixInv'
  <1> DEFINE list == [i \in DOMAIN rec.list |-> Decayed(rec.list[i])]
             I == {i \in DOMAIN list : Kept(list[i])}
             kept == Selected(list, I)
  <1>1. /\ rec # NoRec /\ UNCHANGED <<exists, ts, members, ops, login, accounts>>
        /\ rec' = [rec EXCEPT !.list = kept] \/ rec' = NoRec
    BY DEF chanfix_expire, channel, others
  <1>2. Kempt(rec) /\ rec.chan = exists /\ rec.list \in Seq(OpRecords) /\ Sound(rec.list)
    BY <1>1 DEF FixInv, Kempt, ChanRecs
  <1>3. list \in Seq(OpRecords) /\ Len(list) = Len(rec.list) /\ DOMAIN list = 1 .. Len(list)
        /\ \A i \in 1 .. Len(list) : list[i].host = rec.list[i].host
    BY <1>2, DecayedIs
  <1> HIDE DEF list
  <1>4. \A i \in 1 .. Len(list) : i \in I => list[i].age > 0
    BY DEF Kept
  <1>5. \A i, j \in 1 .. Len(list) : list[i].host = list[j].host => i = j
    BY <1>2, <1>3 DEF Sound
  <1> HIDE DEF I
  <1>6. Sound(kept)
    BY <1>3, <1>4, <1>5, SelectedSound
  <1> HIDE DEF kept
  <1>7. rec' # NoRec => Kempt(rec') /\ rec'.chan = exists'
    <2>1. SUFFICES ASSUME rec' = [rec EXCEPT !.list = kept] PROVE Kempt(rec') /\ rec'.chan = exists'
      BY <1>1
    <2> QED BY <1>1, <1>2, <1>6, <2>1 DEF Kempt, ChanRecs, Sound
  <1> QED BY <1>1, <1>7, FixSame DEF FixInv

LEMMA FixLater == ASSUME ChanFixAssumption, FixInv, Later PROVE FixInv'
  <1> DEFINE Older(x) == [x EXCEPT !.idle = Longer(@)]
             l == rec.list
             k == [i \in DOMAIN l |-> Older(l[i])]
             n == Longer(rec.idle)
  <1>1. /\ rec # NoRec /\ UNCHANGED <<exists, ts, members, ops, login, accounts>>
    BY DEF Later, channel, others
  <1>2. Kempt(rec) /\ rec.chan = exists /\ l \in Seq(OpRecords) /\ Sound(l) /\ rec \in ChanRecs
    BY <1>1 DEF FixInv, Kempt, ChanRecs
  <1>3. rec' = [rec EXCEPT !.idle = n, !.list = k]
    BY <1>2 DEF Later, ChanRecs
  <1>4. ASSUME NEW x \in OpRecords
        PROVE  Older(x) \in OpRecords /\ Older(x).host = x.host /\ Older(x).age = x.age
    <2> DEFINE m == Longer(x.idle)
    <2>1. m \in 0 .. Retention
      BY OlderIs DEF OpRecords
    <2> HIDE DEF m
    <2>2. Older(x) = [x EXCEPT !.idle = m]
      BY DEF m
    <2> QED BY <2>1, <2>2 DEF OpRecords
  <1> HIDE DEF Older
  <1>5. k \in Seq(OpRecords) /\ Len(k) = Len(l)
        /\ \A i \in 1 .. Len(l) : k[i].host = l[i].host /\ k[i].age = l[i].age
    BY <1>2, <1>4
  <1>6. n \in 0 .. Retention
    BY <1>2, OlderIs DEF ChanRecs
  <1> HIDE DEF k, n
  <1>7. Sound(k)
    BY <1>2, <1>5, EachSound
  <1>8. Kempt(rec') /\ rec'.chan = exists
    BY <1>2, <1>3, <1>5, <1>6, <1>7 DEF Kempt, ChanRecs
  <1> QED BY <1>1, <1>8, FixSame DEF FixInv

LEMMA FixAutofix == ASSUME ChanFixAssumption, FixInv, chanfix_autofix_ev PROVE FixInv'
  <1>1. rec # NoRec /\ UNCHANGED <<exists, ts, members, login, accounts>>
    BY DEF chanfix_autofix_ev, others
  <1>2. Kempt(rec) /\ rec.chan = exists /\ rec.started \in Nat /\ rec \in ChanRecs
    BY <1>1 DEF FixInv, Kempt, ChanRecs
  <1>3. CASE chanfix_should_handle
    <2> DEFINE s == IF rec.started = 0 /\ chanfix_can_start_fix THEN 1 ELSE rec.started
               opped == IF s = 0 THEN {} ELSE chanfix_fix_channel(s - 1)
    <2>1. rec' = [rec EXCEPT !.started = s] /\ ops' = ops \union opped
      BY <1>3 DEF chanfix_autofix_ev
    <2>2. s \in Nat
      BY <1>2
    <2>3. opped \subseteq members
      BY DEF chanfix_fix_channel, Qualified
    <2> HIDE DEF s, opped
    <2>4. Kempt(rec') /\ rec'.chan = exists
      BY <1>2, <2>1, <2>2 DEF Kempt, ChanRecs
    <2> QED BY <1>1, <2>1, <2>3, <2>4, FixSame DEF FixInv
  <1>4. CASE ~chanfix_should_handle
    <2> DEFINE no == FALSE
    <2>1. rec' = [rec EXCEPT !.started = 0, !.requested = no] /\ ops' = ops
      BY <1>4 DEF chanfix_autofix_ev
    <2>2. no \in BOOLEAN
      OBVIOUS
    <2> HIDE DEF no
    <2>3. Kempt(rec') /\ rec'.chan = exists
      BY <1>2, <2>1, <2>2 DEF Kempt, ChanRecs
    <2> QED BY <1>1, <2>1, <2>3, FixSame DEF FixInv
  <1> QED BY <1>3, <1>4

LEMMA FixMinute == ASSUME ChanFixAssumption, FixInv, Minute PROVE FixInv'
  <1>1. /\ UNCHANGED <<exists, ts, members, ops, login, accounts>>
        /\ rec.started \in 1 .. FixTime + 1 /\ rec' = [rec EXCEPT !.started = @ + 1]
    BY DEF Minute, channel, others
  <1>2. rec # NoRec
    BY <1>1, NoRecEmpty
  <1>3. Kempt(rec) /\ rec.chan = exists /\ rec.started \in Nat /\ rec \in ChanRecs
    BY <1>2 DEF FixInv, Kempt, ChanRecs
  <1>4. Kempt(rec') /\ rec'.chan = exists
    BY <1>1, <1>3 DEF Kempt, ChanRecs
  <1> QED BY <1>1, <1>4, FixSame DEF FixInv

LEMMA FixAsked == ASSUME ChanFixAssumption, FixInv, chanfix_cmd_fix PROVE FixInv'
  <1> DEFINE yes == TRUE
  <1>0. yes \in BOOLEAN
    OBVIOUS
  <1>1. /\ rec # NoRec /\ UNCHANGED <<exists, members, login, accounts>>
        /\ \/ ts' = rec.ts - 1 /\ ops' = {} /\ rec' = [rec EXCEPT !.ts = rec.ts - 1, !.requested = yes]
           \/ ts' = ts /\ ops' = ops /\ rec' = [rec EXCEPT !.requested = yes]
    BY DEF chanfix_cmd_fix, others
  <1> HIDE DEF yes
  <1>2. Kempt(rec) /\ rec.chan = exists /\ rec.ts \in Int /\ rec \in ChanRecs
    BY <1>1 DEF FixInv, Kempt, ChanRecs
  <1>3. Kempt(rec') /\ rec'.chan = exists
    <2> DEFINE t == rec.ts - 1
    <2>1. t \in Int
      BY <1>2
    <2> HIDE DEF t
    <2>2. CASE rec' = [rec EXCEPT !.ts = t, !.requested = yes]
      BY <1>0, <1>2, <2>1, <2>2 DEF Kempt, ChanRecs
    <2>3. CASE rec' = [rec EXCEPT !.requested = yes]
      BY <1>0, <1>2, <2>3 DEF Kempt, ChanRecs
    <2> QED BY <1>1, <2>2, <2>3 DEF t
  <1>4. ts' \in Int /\ ops' \subseteq members'
    BY <1>1, <1>2 DEF FixInv
  <1> QED BY <1>1, <1>3, <1>4, FixSame DEF FixInv

\* The sorted list has each record once.
LEMMA FixInfo == ASSUME ChanFixAssumption, FixInv, chanfix_cmd_info PROVE FixInv'
  <1> DEFINE l == rec.list
             n == Len(l)
  <1>1. rec # NoRec /\ UNCHANGED <<exists, ts, members, ops, login, accounts>>
    BY DEF chanfix_cmd_info, channel, others
  <1>2. /\ Kempt(rec) /\ rec.chan = exists /\ l \in Seq(OpRecords) /\ Sound(l) /\ rec \in ChanRecs
        /\ DOMAIN l = 1 .. n /\ n \in Nat /\ \A i \in 1 .. n : l[i].age \in Int
    <2>1. Kempt(rec) /\ rec.chan = exists /\ l \in Seq(OpRecords) /\ Sound(l) /\ rec \in ChanRecs
      BY <1>1 DEF FixInv, Kempt, ChanRecs
    <2>2. \A i \in 1 .. n : l[i] \in OpRecords
      BY <2>1
    <2> QED BY <2>1, <2>2 DEF OpRecords
  <1>3. PICK list \in SortedByAge : rec' = [rec EXCEPT !.list = list]
    BY DEF chanfix_cmd_info
  <1>4. PICK f \in [1 .. n -> 1 .. n] :
              /\ list = [i \in 1 .. n |-> l[f[i]]]
              /\ \A i, j \in 1 .. n : i < j => \/ l[f[i]].age > l[f[j]].age
                                               \/ l[f[i]].age = l[f[j]].age /\ f[i] < f[j]
    BY <1>2 DEF SortedByAge
  <1>5. \A i, j \in 1 .. n : f[i] = f[j] => i = j
    <2> HIDE DEF l, n
    <2>0. \A i \in 1 .. n : f[i] \in Int /\ l[f[i]].age \in Int
      BY <1>2
    <2>1. ASSUME NEW i \in 1 .. n, NEW j \in 1 .. n, i < j PROVE f[i] # f[j]
      <3>1. \/ l[f[i]].age > l[f[j]].age
            \/ l[f[i]].age = l[f[j]].age /\ f[i] < f[j]
        BY <1>4, <2>1
      <3> QED BY <2>0, <3>1
    <2> QED BY <1>2, <2>1
  <1>6. list \in Seq(OpRecords) /\ Len(list) = n /\ \A i \in 1 .. n : list[i] = l[f[i]] /\ f[i] \in 1 .. n
    <2>0. \A i \in 1 .. n : l[i] \in OpRecords
      BY <1>2
    <2>1. \A i \in 1 .. n : l[f[i]] \in OpRecords /\ f[i] \in 1 .. n
      <3> HIDE DEF l, n
      <3> QED BY <2>0
    <2> HIDE DEF l, n
    <2> QED BY <1>2, <1>4, <2>1
  <1>7. Sound(list)
    <2>1. \A i \in 1 .. n : list[i].age > 0
      BY <1>2, <1>6 DEF Sound
    <2>2. ASSUME NEW i \in 1 .. n, NEW j \in 1 .. n, list[i].host = list[j].host PROVE i = j
      <3>0. f[i] \in 1 .. n /\ f[j] \in 1 .. n /\ l[f[i]].host = l[f[j]].host
        BY <1>6, <2>2
      <3>1. f[i] = f[j]
        <4> HIDE DEF l
        <4> QED BY <1>2, <3>0 DEF Sound
      <3> QED BY <1>5, <3>1
    <2> QED BY <1>6, <2>1, <2>2 DEF Sound
  <1>8. Kempt(rec') /\ rec'.chan = exists
    BY <1>2, <1>3, <1>6, <1>7 DEF Kempt, ChanRecs
  <1> QED BY <1>1, <1>8, FixSame DEF FixInv

LEMMA FixRestart == ASSUME ChanFixAssumption, FixInv, Restart PROVE FixInv'
  <1> DEFINE l == rec.list
             no == FALSE
  <1>1. /\ exists' = no /\ ts' = 0 /\ members' = {} /\ ops' = {}
        /\ login' = [u \in Users |-> NoAccount] /\ accounts' = accounts
    BY DEF Restart
  <1>2. login' \in [Users -> Owners] /\ accounts' \subseteq Accounts /\ no \in BOOLEAN
    BY <1>1 DEF FixInv, Owners
  <1>3. ASSUME rec' # NoRec PROVE Kempt(rec') /\ rec'.chan = no
    <2>1. rec # NoRec
      BY <1>3 DEF Restart
    <2>2. PICK read \in [DOMAIN l -> accounts \union {NoAccount}] :
                rec' = [rec EXCEPT !.chan = no, !.started = 0, !.requested = no,
                             !.list = [i \in DOMAIN @ |-> [@[i] EXCEPT !.entity = read[i]]]]
      BY <2>1, Zenon DEF Restart
    <2> DEFINE k == [i \in DOMAIN l |-> [l[i] EXCEPT !.entity = read[i]]]
    <2>3. rec \in ChanRecs /\ Sound(l) /\ l \in Seq(OpRecords)
      BY <2>1 DEF FixInv, Kempt, ChanRecs
    <2>4. rec' = [rec EXCEPT !.chan = no, !.started = 0, !.requested = no, !.list = k]
      BY <2>2, <2>3 DEF ChanRecs
    <2> HIDE DEF no
    <2>5. \A i \in DOMAIN l : read[i] \in Owners
      BY DEF FixInv, Owners
    <2>6. ASSUME NEW i \in 1 .. Len(l)
          PROVE  /\ [l[i] EXCEPT !.entity = read[i]] \in OpRecords
                 /\ [l[i] EXCEPT !.entity = read[i]].host = l[i].host
                 /\ [l[i] EXCEPT !.entity = read[i]].age = l[i].age
      <3>1. l[i] \in OpRecords /\ read[i] \in Owners
        BY <2>3, <2>5
      <3> QED BY <3>1 DEF OpRecords
    <2>7. k \in Seq(OpRecords) /\ Len(k) = Len(l)
          /\ \A i \in 1 .. Len(l) : k[i].host = l[i].host /\ k[i].age = l[i].age
      <3>1. DOMAIN l = 1 .. Len(l) /\ Len(l) \in Nat
        BY <2>3
      <3> DEFINE X(i) == [l[i] EXCEPT !.entity = read[i]]
      <3>2. \A i \in 1 .. Len(l) : X(i) \in OpRecords /\ X(i).host = l[i].host /\ X(i).age = l[i].age
        BY <2>6
      <3>3. k = [i \in 1 .. Len(l) |-> X(i)]
        BY <3>1
      <3> HIDE DEF l, X, k
      <3> QED BY <3>1, <3>2, <3>3
    <2> HIDE DEF k
    <2>8. Sound(k)
      BY <2>3, <2>7, EachSound
    <2> QED BY <1>2, <2>3, <2>4, <2>7, <2>8 DEF Kempt, ChanRecs
  <1>4. members' \subseteq Users /\ ops' \subseteq members' /\ ts' \in Int /\ exists' \in BOOLEAN
    <2> HIDE DEF no
    <2> QED BY <1>1, <1>2
  <1> HIDE DEF no
  <1>5. rec' # NoRec => Kempt(rec') /\ rec'.chan = exists'
    BY <1>1, <1>3
  <1> QED BY <1>2, <1>4, <1>5, FixSame

LEMMA FixStep == ASSUME ChanFixAssumption, FixInv, [ChanFixNext]_chanfixVars PROVE FixInv'
  BY FixStutter, FixChannelAdd, FixPart, FixChannel, FixAccounts, FixGather, FixExpire, FixLater,
     FixAutofix, FixMinute, FixAsked, FixInfo, FixRestart DEF ChanFixNext

\* The scores.
FixScores(l) == [i \in 1 .. Len(l) |-> chanfix_calculate_score(l[i])]

LEMMA ScoreIs ==
    ASSUME NEW x \in OpRecords
    PROVE  chanfix_calculate_score(x) \in Int
  BY DEF OpRecords, chanfix_calculate_score

\* One of some numbers, or zero, is as high as any.
LEMMA HighestIs ==
    ASSUME NEW n \in Nat, NEW c, \A i \in 1 .. n : c[i] \in Int
    PROVE  \E s \in {0} \union {c[i] : i \in 1 .. n} : \A t \in {0} \union {c[i] : i \in 1 .. n} : t <= s
  <1> DEFINE V(m) == {0} \union {c[i] : i \in 1 .. m}
             T == {m \in Nat : m <= n => \E s \in V(m) : \A t \in V(m) : t <= s}
  <1>1. 0 \in T
    OBVIOUS
  <1>2. ASSUME NEW m \in Nat, m \in T PROVE m + 1 \in T
    <2> SUFFICES ASSUME m + 1 <= n PROVE \E s \in V(m + 1) : \A t \in V(m + 1) : t <= s
      OBVIOUS
    <2>1. PICK s \in V(m) : \A t \in V(m) : t <= s
      BY <1>2
    <2>2. V(m + 1) = V(m) \union {c[m + 1]} /\ c[m + 1] \in Int
      <3>1. 1 .. m + 1 = (1 .. m) \union {m + 1}
        OBVIOUS
      <3> QED BY <3>1
    <2>3. \A t \in V(m) : t \in Int
      OBVIOUS
    <2> HIDE DEF V
    <2>4. CASE c[m + 1] <= s
      BY <2>1, <2>2, <2>4
    <2>5. CASE ~(c[m + 1] <= s)
      <3>1. \A t \in V(m + 1) : t <= c[m + 1]
        BY <2>1, <2>2, <2>3, <2>5
      <3> QED BY <2>2, <3>1
    <2> QED BY <2>4, <2>5
  <1> HIDE DEF T
  <1>3. Nat \subseteq T
    BY <1>1, <1>2, NatInductionSet
  <1> QED BY <1>3 DEF T

LEMMA HighscoreIs ==
    ASSUME rec.list \in Seq(OpRecords)
    PROVE  chanfix_get_highscore \in Nat
  <1> DEFINE n == Len(rec.list)
             c == FixScores(rec.list)
             V == {0} \union {c[i] : i \in 1 .. n}
  <1>1. n \in Nat /\ DOMAIN rec.list = 1 .. n
    OBVIOUS
  <1>2. \A i \in 1 .. n : c[i] = chanfix_calculate_score(rec.list[i]) /\ c[i] \in Int
    BY ScoreIs DEF FixScores
  <1> HIDE DEF c
  <1>3. chanfix_get_highscore = CHOOSE s \in V : \A t \in V : t <= s
    <2>1. V = {0} \union {chanfix_calculate_score(rec.list[i]) : i \in DOMAIN rec.list}
      BY <1>1, <1>2
    <2> QED BY <2>1 DEF chanfix_get_highscore
  <1>4. \E s \in V : \A t \in V : t <= s
    BY <1>1, <1>2, HighestIs
  <1>5. \A t \in V : t \in Int
    BY <1>2
  <1>6. 0 \in V
    OBVIOUS
  <1> HIDE DEF V
  <1>7. chanfix_get_highscore \in V /\ 0 <= chanfix_get_highscore
    BY <1>3, <1>4, <1>6
  <1> QED BY <1>5, <1>7

LEMMA UserScoreIs ==
    ASSUME rec.list \in Seq(OpRecords), NEW u
    PROVE  Score(u) \in Int /\ (chanfix_oprecord_find(rec.list, u) = {} => Score(u) = 0)
  <1> DEFINE I == chanfix_oprecord_find(rec.list, u)
  <1>1. CASE I = {}
    BY <1>1 DEF Score
  <1>2. CASE I # {}
    <2>1. I \subseteq DOMAIN rec.list
      BY DEF chanfix_oprecord_find
    <2>2. First(I) \in I
      BY <1>2, <2>1, FirstIs
    <2>3. rec.list[First(I)] \in OpRecords
      BY <2>1, <2>2
    <2> QED BY <1>2, <2>3, ScoreIs DEF Score
  <1> QED BY <1>1, <1>2

\* What is left of a share of a number that is not negative.
LEMMA ShareIs ==
    ASSUME NEW h \in Nat, NEW a \in Nat, NEW b \in Nat \ {0}
    PROVE  (h * a) \div b \in Nat
  <1>1. h * a \in Nat
    OBVIOUS
  <1> DEFINE p == h * a
  <1> HIDE DEF p
  <1>2. p \in Nat
    BY <1>1 DEF p
  <1>3. p \div b \in Nat
    BY <1>2
  <1> QED BY <1>3 DEF p

\* The threshold is at least one.
LEMMA ThresholdIs ==
    ASSUME ChanFixAssumption, rec.list \in Seq(OpRecords), NEW t \in Nat
    PROVE  chanfix_get_threshold(t) \in Nat \ {0}
  <1> DEFINE e == IF t > FixTime THEN FixTime ELSE t
             h == chanfix_get_highscore
             a == InitialStep * FixTime - (InitialStep - FinalStep) * e
             b == 100 * FixTime
             share == (h * a) \div b
  <1>1. e \in 0 .. FixTime /\ FixTime \in Nat \ {0}
        /\ FinalStep \in 1 .. 99 /\ InitialStep \in Nat /\ InitialStep - FinalStep \in Nat
    <2>1. FixTime \in Nat \ {0} /\ FinalStep \in 1 .. 99 /\ InitialStep \in FinalStep .. 99
      BY FixConstants
    <2> QED BY <2>1
  <1>2. h \in Nat
    BY HighscoreIs
  <1> HIDE DEF e, h
  <1>3. a \in Nat
    <2> DEFINE k == InitialStep - FinalStep
    <2>1. a = k * (FixTime - e) + FinalStep * FixTime
      BY <1>1
    <2>2. k * (FixTime - e) \in Nat /\ FinalStep * FixTime \in Nat
      <3>1. k \in Nat /\ FixTime - e \in Nat /\ FinalStep \in Nat
        BY <1>1
      <3>2. \A x, y \in Nat : x * y \in Nat
        OBVIOUS
      <3> HIDE DEF k
      <3> QED BY <1>1, <3>1, <3>2
    <2> HIDE DEF k, a
    <2> QED BY <2>1, <2>2
  <1>4. b \in Nat \ {0}
    BY <1>1
  <1> HIDE DEF a, b
  <1>5. share \in Nat
    BY <1>2, <1>3, <1>4, ShareIs
  <1>6. chanfix_get_threshold(t) = IF share = 0 THEN 1 ELSE share
    BY DEF chanfix_get_threshold, e, h, a, b
  <1> HIDE DEF share
  <1> QED BY <1>5, <1>6

\* Those with the highest scores are given ops.
LEMMA FixHighest ==
    ASSUME ChanFixAssumption, FixInv, chanfix_autofix_ev,
           NEW u \in ops' \ ops, NEW v \in members \ ops'
    PROVE  Score(v) < Score(u)
  <1>1. rec # NoRec
    BY DEF chanfix_autofix_ev
  <1>2. rec.started \in Nat /\ rec.list \in Seq(OpRecords)
    BY <1>1 DEF FixInv, Kempt, ChanRecs
  <1> DEFINE s == IF rec.started = 0 /\ chanfix_can_start_fix THEN 1 ELSE rec.started
             opped == IF s = 0 THEN {} ELSE chanfix_fix_channel(s - 1)
             bar == chanfix_get_threshold(s - 1)
  <1>3. ops' = ops \/ ops' = ops \union opped
    BY DEF chanfix_autofix_ev
  <1>4. s \in Nat
    BY <1>2
  <1> HIDE DEF s
  <1>5. s # 0 /\ u \in Qualified(s - 1) /\ v \notin Qualified(s - 1)
    BY <1>3 DEF chanfix_fix_channel
  <1>6. bar \in Nat \ {0}
    <2>1. s - 1 \in Nat
      BY <1>4, <1>5
    <2> QED BY <1>2, <2>1, ThresholdIs
  <1>7. Score(u) \in Int /\ Score(v) \in Int
    BY <1>2, UserScoreIs
  <1>8. Score(u) >= bar
    BY <1>5 DEF Qualified
  <1>9. Score(v) = 0 \/ ~(Score(v) >= bar)
    <2>1. v \in members \ ops
      BY <1>3
    <2>2. chanfix_oprecord_find(rec.list, v) = {} \/ ~(Score(v) >= bar)
      BY <1>5, <2>1 DEF Qualified
    <2> QED BY <1>2, <2>2, UserScoreIs
  <1> HIDE DEF bar
  <1> QED BY <1>6, <1>7, <1>8, <1>9

LEMMA FixInvParts == ASSUME FixInv PROVE PointerOK /\ RecordsOK
  <1>1. PointerOK
    BY DEF FixInv, PointerOK
  <1>2. CASE rec = NoRec
    BY <1>1, <1>2, NoRecEmpty DEF RecordsOK
  <1>3. CASE rec # NoRec
    <2>1. Sound(rec.list) /\ rec.list \in Seq(OpRecords)
      BY <1>3 DEF FixInv, Kempt, ChanRecs
    <2>2. DOMAIN rec.list = 1 .. Len(rec.list)
      BY <2>1
    <2> QED BY <1>1, <2>1, <2>2 DEF RecordsOK, Sound
  <1> QED BY <1>2, <1>3

LEMMA FixInvariant == ASSUME ChanFixAssumption PROVE ChanFixSpec => []FixInv
  <1>1. ChanFixInit => FixInv
    BY FixStart
  <1>2. FixInv /\ [ChanFixNext]_chanfixVars => FixInv'
    BY FixStep
  <1> QED BY <1>1, <1>2, PTL DEF ChanFixSpec

\* Whatever was expired, made again, saved and loaded in between, the record
\* of a channel points to it exactly while there is one, and holds no entry
\* that has decayed to nothing and no two entries for the same user@host, also
\* where members are found by their accounts (gather.c:25-260).
THEOREM RecordsAlwaysSound == ASSUME ChanFixAssumption PROVE ChanFixSpec => []RecordsSound
  <1>1. FixInv => RecordsSound
    BY FixInvParts DEF RecordsSound
  <1> QED BY <1>1, FixInvariant, PTL

\* Nobody whom the timer gives ops has less of a score than a member whom it
\* leaves without: the threshold, which falls, is the same for all of a round
\* and never zero, so that no member without a record passes it
\* (fix.c:115-188).
THEOREM HighestAlwaysFirst ==
    ASSUME ChanFixAssumption
    PROVE  ChanFixSpec => HighestFirst
  <1>1. FixInv /\ [ChanFixNext]_chanfixVars =>
            [chanfix_autofix_ev =>
                \A u \in ops' \ ops, v \in members \ ops' : Score(v) < Score(u)]_chanfixVars
    BY FixHighest
  <1> QED BY <1>1, FixInvariant, PTL DEF ChanFixSpec, HighestFirst

-----------------------------------------------------------------------------
(* Bans: the lists and the timer that expires them, and what the servers have. *)

CONSTANTS Kinds, Ranges, Clients, MaskOf, Exempt, Permanent, KeepSpecific, MaxBans, MaxId

VARIABLES lines, lastid, disk, linked, online, klinesent, net

B == INSTANCE Bans WITH connected <- linked

BanRecs == [mask : Masks, left : 0 .. Permanent, number : Int]

\* The search for mask n stops at mask m.
Takes(k, m, n) == IF k = "qline" THEN m = n ELSE <<m, n>> \in Matches

\* No ban of a list but the AKILLs is taken for one after it.
Apart(k, l) == \A i, j \in 1 .. Len(l) : i < j => ~Takes(k, l[i].mask, l[j].mask)

Orderly(k, l) == k # "kline" => Apart(k, l)

BanLists == {f \in [Kinds -> Seq(BanRecs)] : \A k \in Kinds : Orderly(k, f[k])}

BansInv ==
    /\ lines \in BanLists
    /\ lastid \in [Kinds -> Int]
    /\ disk \in [lines : BanLists, kid : Int]
    /\ net \in [Kinds -> [Masks -> 0 .. Permanent]]

LEMMA BansConstants ==
    ASSUME B!BansAssumption
    PROVE  /\ Durations \subseteq Nat \ {0} /\ Permanent \in Nat /\ \A d \in Durations : d < Permanent
           /\ MaskOf \in [Clients -> Masks] /\ B!Ends \subseteq 0 .. Permanent
  <1>1. /\ Durations \subseteq Nat \ {0} /\ Permanent \in Nat /\ \A d \in Durations : d < Permanent
    BY DEF B!BansAssumption
  <1> QED BY <1>1 DEF B!BansAssumption, B!Ends

LEMMA BansSelected == ASSUME NEW s, NEW I PROVE B!Selected(s, I) = Selected(s, I)
  BY Zenon DEF B!Selected, Selected

LEMMA FirstBan ==
    ASSUME NEW I \in SUBSET Nat, NEW p \in I, \A j \in I : p <= j
    PROVE  B!First(I) = p
  <1> DEFINE q == B!First(I)
  <1>1. q \in I /\ \A j \in I : q <= j
    BY DEF B!First
  <1> HIDE DEF q
  <1>2. p <= q /\ q <= p /\ p \in Nat /\ q \in Nat
    BY <1>1
  <1> QED BY <1>2 DEF q

LEMMA FirstOf ==
    ASSUME NEW I \in SUBSET Nat, I # {}
    PROVE  B!First(I) \in I
  <1>1. PICK p \in I : \A j \in I : p <= j
    BY LeastNat
  <1> QED BY <1>1, FirstBan

-----------------------------------------------------------------------------
(* Bans: what the lists are. *)

LEMMA BanListsAt ==
    ASSUME NEW f \in BanLists, NEW k \in Kinds
    PROVE  f[k] \in Seq(BanRecs) /\ Orderly(k, f[k])
  BY DEF BanLists

\* One list changes.
Changed(g, f, k, l) == g[k] = l /\ \A j \in Kinds : j # k => g[j] = f[j]

LEMMA BanListsWith ==
    ASSUME NEW f \in BanLists, NEW k \in Kinds, NEW l \in Seq(BanRecs), Orderly(k, l),
           NEW g, g = [f EXCEPT ![k] = l]
    PROVE  g \in BanLists /\ Changed(g, f, k, l)
  <1>1. f \in [Kinds -> Seq(BanRecs)] /\ \A j \in Kinds : Orderly(j, f[j])
    BY DEF BanLists
  <1>2. g \in [Kinds -> Seq(BanRecs)] /\ g[k] = l /\ \A j \in Kinds : j # k => g[j] = f[j]
    BY <1>1
  <1>3. \A j \in Kinds : Orderly(j, g[j])
    BY <1>1, <1>2, Zenon
  <1>4. g \in BanLists
    BY <1>2, <1>3 DEF BanLists
  <1> QED BY <1>2, <1>4 DEF Changed

\* What is searched for and not found comes last.
LEMMA AppendedOrderly ==
    ASSUME NEW k \in Kinds, NEW l \in Seq(BanRecs), Orderly(k, l), NEW b \in BanRecs,
           k # "kline" => B!Found(k, l, b.mask) = {}
    PROVE  Append(l, b) \in Seq(BanRecs) /\ Orderly(k, Append(l, b))
  <1> DEFINE t == Append(l, b)
             n == Len(l)
  <1>1. t \in Seq(BanRecs) /\ Len(t) = n + 1 /\ t[n + 1] = b /\ (\A i \in 1 .. n : t[i] = l[i])
        /\ n \in Nat /\ DOMAIN l = 1 .. n
    OBVIOUS
  <1> HIDE DEF t, n
  <1>2. SUFFICES ASSUME k # "kline", NEW i \in 1 .. n + 1, NEW j \in 1 .. n + 1, i < j
                 PROVE  ~Takes(k, t[i].mask, t[j].mask)
    BY <1>1 DEF Orderly, Apart, t
  <1>3. i \in 1 .. n
    BY <1>1, <1>2
  <1>4. CASE j = n + 1
    <2>1. i \notin B!Found(k, l, b.mask)
      BY <1>2
    <2>2. ~Takes(k, l[i].mask, b.mask)
      BY <1>1, <1>3, <2>1 DEF B!Found, Takes
    <2> QED BY <1>1, <1>3, <1>4, <2>2
  <1>5. CASE j # n + 1
    <2>1. j \in 1 .. n
      BY <1>1, <1>5
    <2>2. ~Takes(k, l[i].mask, l[j].mask)
      BY <1>2, <1>3, <2>1 DEF Orderly, Apart, n
    <2> QED BY <1>1, <1>3, <2>1, <2>2
  <1> QED BY <1>4, <1>5

LEMMA SelectedOrderly ==
    ASSUME NEW k \in Kinds, NEW l \in Seq(BanRecs), Orderly(k, l), NEW I
    PROVE  Selected(l, I) \in Seq(BanRecs) /\ Orderly(k, Selected(l, I))
  <1> DEFINE t == Selected(l, I)
  <1>1. t \in Seq(BanRecs) /\ \E h : Embeds(t, l, I, Len(l), h)
    BY SelectedResult
  <1>2. PICK h : Embeds(t, l, I, Len(l), h)
    BY <1>1
  <1> HIDE DEF t
  <1>3. \A i \in 1 .. Len(t) : h[i] \in 1 .. Len(l) /\ t[i] = l[h[i]]
    BY <1>2 DEF Embeds
  <1>4. \A i, j \in 1 .. Len(t) : i < j => h[i] < h[j]
    BY <1>2 DEF Embeds
  <1>5. k # "kline" => Apart(k, t)
    BY <1>3, <1>4 DEF Orderly, Apart
  <1> QED BY <1>1, <1>5 DEF Orderly, t

LEMMA SoonerIs ==
    ASSUME B!BansAssumption, NEW n \in 0 .. Permanent
    PROVE  B!Sooner(n) \in 0 .. Permanent
  BY BansConstants DEF B!Sooner

LEMMA AgedOrderly ==
    ASSUME B!BansAssumption, NEW k \in Kinds, NEW l \in Seq(BanRecs), Orderly(k, l)
    PROVE  LET t == B!Age(l)
           IN  /\ t \in Seq(BanRecs) /\ Orderly(k, t) /\ DOMAIN t = 1 .. Len(l)
               /\ \A i \in 1 .. Len(l) : t[i].mask = l[i].mask /\ t[i].left = B!Sooner(l[i].left)
  <1> DEFINE t == B!Age(l)
             n == Len(l)
             o(b) == [b EXCEPT !.left = B!Sooner(b.left)]
  <1>1. n \in Nat /\ DOMAIN l = 1 .. n /\ \A i \in 1 .. n : l[i] \in BanRecs
    OBVIOUS
  <1>2. \A b \in BanRecs : o(b) \in BanRecs /\ o(b).mask = b.mask /\ o(b).left = B!Sooner(b.left)
    <2> SUFFICES ASSUME NEW b \in BanRecs
                 PROVE  o(b) \in BanRecs /\ o(b).mask = b.mask /\ o(b).left = B!Sooner(b.left)
      BY Zenon
    <2>1. B!Sooner(b.left) \in 0 .. Permanent
      BY SoonerIs DEF BanRecs
    <2> QED BY <2>1 DEF BanRecs
  <1>3. t = [i \in 1 .. n |-> o(l[i])]
    BY <1>1 DEF B!Age
  <1> HIDE DEF t, n, o
  <1>4. t \in Seq(BanRecs) /\ DOMAIN t = 1 .. n /\ Len(t) = n
    BY <1>1, <1>2, <1>3
  <1>5. \A i \in 1 .. n : t[i].mask = l[i].mask /\ t[i].left = B!Sooner(l[i].left)
    BY <1>1, <1>2, <1>3
  <1>6. k # "kline" => Apart(k, t)
    BY <1>4, <1>5 DEF Orderly, Apart, n
  <1> QED BY <1>4, <1>5, <1>6 DEF Orderly, t, n

LEMMA AgedLists ==
    ASSUME B!BansAssumption, NEW f \in BanLists
    PROVE  [k \in Kinds |-> B!Age(f[k])] \in BanLists
  <1> DEFINE g == [k \in Kinds |-> B!Age(f[k])]
  <1>1. \A k \in Kinds : B!Age(f[k]) \in Seq(BanRecs) /\ Orderly(k, B!Age(f[k]))
    <2> SUFFICES ASSUME NEW k \in Kinds PROVE B!Age(f[k]) \in Seq(BanRecs) /\ Orderly(k, B!Age(f[k]))
      OBVIOUS
    <2> QED BY BanListsAt, AgedOrderly
  <1>2. g \in [Kinds -> Seq(BanRecs)] /\ \A k \in Kinds : Orderly(k, g[k])
    BY <1>1
  <1> HIDE DEF g
  <1> QED BY <1>2 DEF BanLists, g

NetTypes == [Kinds -> [Masks -> 0 .. Permanent]]

\* What the servers have after a burst of bans.
LEMMA SentIs ==
    ASSUME B!BansAssumption, NEW n \in NetTypes, NEW k \in Kinds, NEW bans, NEW y \in B!Sent(n, k, bans)
    PROVE  /\ y \in NetTypes
           /\ \A j \in Kinds : j # k => y[j] = n[j]
           /\ linked => \A m \in Masks : y[k][m] = n[k][m] \/ \E b \in bans : b.mask = m /\ b.left = y[k][m]
  <1>1. CASE ~linked
    BY <1>1 DEF B!Sent
  <1>2. CASE linked
    <2>1. PICK f \in [Masks -> {0} \union 1 .. Permanent] :
             /\ y = [n EXCEPT ![k] = f]
             /\ \A m \in Masks :
                  LET fresh == {b.left : b \in {b \in bans : b.mask = m}}
                  IN  f[m] \in IF fresh = {} THEN {n[k][m]} ELSE fresh \union ({n[k][m]} \ {0})
      BY <1>2 DEF B!Sent
    <2>2. f \in [Masks -> 0 .. Permanent]
      <3>1. {0} \union 1 .. Permanent \subseteq 0 .. Permanent
        BY BansConstants
      <3> QED BY <2>1, <3>1
    <2>3. y \in NetTypes /\ y[k] = f /\ \A j \in Kinds : j # k => y[j] = n[j]
      BY <2>1, <2>2 DEF NetTypes
    <2>4. ASSUME NEW m \in Masks PROVE y[k][m] = n[k][m] \/ \E b \in bans : b.mask = m /\ b.left = y[k][m]
      <3> DEFINE fresh == {b.left : b \in {b \in bans : b.mask = m}}
      <3>1. f[m] \in IF fresh = {} THEN {n[k][m]} ELSE fresh \union ({n[k][m]} \ {0})
        BY <2>1
      <3>2. CASE f[m] \in fresh
        BY <2>3, <3>2
      <3>3. CASE f[m] \notin fresh
        <4> HIDE DEF fresh
        <4>1. f[m] = n[k][m]
          BY <3>1, <3>3
        <4> QED BY <2>3, <4>1
      <3> QED BY <3>2, <3>3
    <2> QED BY <2>3, <2>4
  <1> QED BY <1>1, <1>2

-----------------------------------------------------------------------------
(* Bans: what a step does to the lists, and to what the servers have. *)

\* A ban n of the servers on mask m is over, or one on the list lasts as long.
BackedBy(l, n, m) == n > 0 => \E i \in 1 .. Len(l) : l[i].mask = m /\ l[i].left >= n

StaysBacked == \A k \in Kinds, m \in Masks :
    BackedBy(lines[k], net[k][m], m) => BackedBy(lines'[k], net'[k][m], m)

BansStep == BansInv' /\ (linked /\ linked' => StaysBacked)

LEMMA BansInvParts ==
    ASSUME BansInv
    PROVE  /\ lines \in BanLists /\ lastid \in [Kinds -> Int] /\ net \in NetTypes
           /\ disk.lines \in BanLists /\ disk.kid \in Int /\ disk = [lines |-> disk.lines, kid |-> disk.kid]
           /\ \A k \in Kinds : lines[k] \in Seq(BanRecs) /\ Orderly(k, lines[k])
  <1>1. /\ lines \in BanLists /\ lastid \in [Kinds -> Int] /\ net \in NetTypes
        /\ disk \in [lines : BanLists, kid : Int]
    BY DEF BansInv, NetTypes
  <1>2. disk.lines \in BanLists /\ disk.kid \in Int /\ disk = [lines |-> disk.lines, kid |-> disk.kid]
    <2> DEFINE X == BanLists
    <2>1. disk \in [lines : X, kid : Int]
      BY <1>1
    <2> HIDE DEF X
    <2>2. disk.lines \in X /\ disk.kid \in Int /\ disk = [lines |-> disk.lines, kid |-> disk.kid]
      BY <2>1
    <2> QED BY <2>2 DEF X
  <1>3. \A k \in Kinds : lines[k] \in Seq(BanRecs) /\ Orderly(k, lines[k])
    BY <1>1, BanListsAt
  <1> QED BY <1>1, <1>2, <1>3, Zenon

LEMMA BansInvNext ==
    ASSUME lines' \in BanLists, lastid' \in [Kinds -> Int], net' \in NetTypes,
           \E f \in BanLists, d \in Int : disk' = [lines |-> f, kid |-> d]
    PROVE  BansInv'
  <1> DEFINE X == BanLists
  <1>1. PICK f \in X, d \in Int : disk' = [lines |-> f, kid |-> d]
    OBVIOUS
  <1> HIDE DEF X
  <1>2. disk' \in [lines : X, kid : Int]
    BY <1>1
  <1>3. X' = X
    BY Zenon DEF X, BanLists, BanRecs, Orderly, Apart, Takes
  <1> QED BY <1>2, <1>3, Zenon DEF BansInv, NetTypes, X

\* Only the bans of the servers change.
LEMMA BansSent ==
    ASSUME BansInv, net' \in NetTypes, UNCHANGED <<lines, lastid, disk>>,
           linked => \A k \in Kinds, m \in Masks :
               \/ net'[k][m] = net[k][m]
               \/ \E i \in 1 .. Len(lines[k]) : lines[k][i].mask = m /\ lines[k][i].left >= net'[k][m]
    PROVE  BansStep
  <1>1. BansInv'
    BY BansInvParts, BansInvNext
  <1>2. linked => StaysBacked
    <2> SUFFICES ASSUME linked, NEW k \in Kinds, NEW m \in Masks, BackedBy(lines[k], net[k][m], m)
                 PROVE  BackedBy(lines[k], net'[k][m], m)
      BY DEF StaysBacked
    <2> QED BY DEF BackedBy
  <1> QED BY <1>1, <1>2 DEF BansStep

\* What is known of the list a ban is added to, and of the servers' bans then.
AddsTo(k, m, kept, n) ==
    /\ kept \in Seq(BanRecs) /\ Orderly(k, kept)
    /\ k # "kline" => B!Found(k, kept, m) = {}
    /\ n \in NetTypes
    /\ linked => \A x \in Masks :
           /\ BackedBy(lines[k], net[k][x], x) => BackedBy(kept, n[k][x], x)
           /\ \A j \in Kinds : j # k => n[j][x] = net[j][x]

LEMMA BansAdded ==
    ASSUME B!BansAssumption, BansInv, NEW k \in Kinds, NEW m \in Masks, NEW left \in B!Ends,
           NEW kept, NEW n, AddsTo(k, m, kept, n), B!line_add(k, m, left, kept, n), disk' = disk
    PROVE  BansStep
  <1> DEFINE b == [mask |-> m, left |-> left, number |-> lastid[k] + 1]
             fresh == Append(kept, b)
             z == Len(kept)
  <1>1. /\ lines \in BanLists /\ lastid \in [Kinds -> Int] /\ net \in NetTypes
        /\ disk.lines \in BanLists /\ disk.kid \in Int /\ disk = [lines |-> disk.lines, kid |-> disk.kid]
    BY BansInvParts
  <1>2. /\ lines' = [lines EXCEPT ![k] = fresh]
        /\ lastid' = [lastid EXCEPT ![k] = lastid[k] + 1]
        /\ net' \in B!Sent(n, k, {[mask |-> m, left |-> left]})
    BY DEF B!line_add
  <1>3. b \in BanRecs /\ b.mask = m /\ b.left = left
    <2>1. left \in 0 .. Permanent
      BY BansConstants
    <2>2. lastid[k] + 1 \in Int
      BY <1>1
    <2> QED BY <2>1, <2>2 DEF BanRecs
  <1> HIDE DEF b
  <1>4. fresh \in Seq(BanRecs) /\ Orderly(k, fresh)
    BY <1>3, AppendedOrderly DEF AddsTo
  <1>5. Len(fresh) = z + 1 /\ fresh[z + 1] = b /\ z \in Nat /\ \A i \in 1 .. z : fresh[i] = kept[i]
    BY DEF AddsTo
  <1> HIDE DEF fresh, z
  <1>6. lines' \in BanLists /\ lines'[k] = fresh /\ \A j \in Kinds : j # k => lines'[j] = lines[j]
    <2>1. lines \in BanLists /\ lines' = [lines EXCEPT ![k] = fresh] /\ fresh \in Seq(BanRecs) /\ Orderly(k, fresh)
      BY <1>1, <1>2, <1>4, Zenon
    <2>2. lines' \in BanLists /\ Changed(lines', lines, k, fresh)
      BY <2>1, BanListsWith, Zenon
    <2> QED BY <2>2 DEF Changed
  <1>7. /\ net' \in NetTypes
        /\ \A j \in Kinds : j # k => net'[j] = n[j]
        /\ linked => \A x \in Masks : net'[k][x] = n[k][x] \/ (m = x /\ left = net'[k][x])
    <2>1. /\ net' \in NetTypes
          /\ \A j \in Kinds : j # k => net'[j] = n[j]
          /\ linked => \A x \in Masks : net'[k][x] = n[k][x]
                           \/ \E c \in {[mask |-> m, left |-> left]} : c.mask = x /\ c.left = net'[k][x]
      BY <1>2, SentIs DEF AddsTo
    <2> QED BY <2>1
  <1>8. BansInv'
    <2>1. lastid' \in [Kinds -> Int]
      BY <1>1, <1>2
    <2> QED BY <1>1, <1>6, <1>7, <2>1, BansInvNext
  <1>9. ASSUME linked, NEW j \in Kinds, NEW x \in Masks, BackedBy(lines[j], net[j][x], x)
        PROVE  BackedBy(lines'[j], net'[j][x], x)
    <2>1. CASE j # k
      BY <1>6, <1>7, <1>9, <2>1 DEF AddsTo
    <2>2. CASE j = k
      <3>1. BackedBy(kept, n[k][x], x)
        BY <1>9, <2>2 DEF AddsTo
      <3>2. CASE net'[k][x] = n[k][x]
        <4>1. SUFFICES ASSUME net'[k][x] > 0
                       PROVE  \E i \in 1 .. Len(fresh) : fresh[i].mask = x /\ fresh[i].left >= net'[k][x]
          BY <1>6, <2>2 DEF BackedBy
        <4>2. PICK i \in 1 .. z : kept[i].mask = x /\ kept[i].left >= net'[k][x]
          BY <3>1, <3>2, <4>1 DEF BackedBy, z
        <4>3. i \in 1 .. Len(fresh) /\ fresh[i] = kept[i]
          BY <1>5
        <4> QED BY <4>2, <4>3
      <3>3. CASE m = x /\ left = net'[k][x]
        <4>1. z + 1 \in 1 .. Len(fresh) /\ fresh[z + 1].mask = x /\ fresh[z + 1].left = net'[k][x]
          BY <1>3, <1>5, <3>3
        <4>2. left \in Int
          BY BansConstants
        <4>3. fresh[z + 1].left >= net'[k][x]
          BY <3>3, <4>1, <4>2
        <4> QED BY <1>6, <2>2, <4>1, <4>3 DEF BackedBy
      <3> QED BY <1>7, <1>9, <3>2, <3>3
    <2> QED BY <2>1, <2>2
  <1> QED BY <1>8, <1>9 DEF BansStep, StaysBacked

\* Adding to the list as it is.
LEMMA AddsToList ==
    ASSUME BansInv, NEW k \in Kinds, NEW m, k # "kline" => B!Found(k, lines[k], m) = {}
    PROVE  AddsTo(k, m, lines[k], net)
  BY BansInvParts DEF AddsTo

LEMMA LineCmdAddStep ==
    ASSUME B!BansAssumption, BansInv, NEW k \in Kinds, NEW m \in Masks, NEW left \in B!Ends,
           B!line_cmd_add(k, m, left)
    PROVE  BansStep
  <1>1. AddsTo(k, m, lines[k], net)
    BY AddsToList DEF B!line_cmd_add
  <1> QED BY <1>1, BansAdded DEF B!line_cmd_add

LEMMA KlineAddUserStep ==
    ASSUME B!BansAssumption, BansInv, NEW u \in Clients, NEW left \in Durations, NEW clear \in BOOLEAN,
           B!kline_add_user(u, left, clear)
    PROVE  BansStep
  <1>1. "kline" \in Kinds /\ MaskOf[u] \in Masks /\ left \in B!Ends
    BY BansConstants DEF B!kline_add_user, B!Ends
  <1>2. AddsTo("kline", MaskOf[u], lines["kline"], net)
    BY <1>1, AddsToList
  <1>3. B!line_add("kline", MaskOf[u], left, lines["kline"], net) /\ disk' = disk
    BY DEF B!kline_add_user
  <1> QED BY <1>1, <1>2, <1>3, BansAdded

\* What the list and the servers have of the AKILLs that stay.
LEMMA WithoutKeeps ==
    ASSUME NEW l \in Seq(BanRecs), NEW I, NEW i \in 1 .. Len(l), i \notin I
    PROVE  \E j \in 1 .. Len(B!Without(l, I)) : B!Without(l, I)[j] = l[i]
  <1> DEFINE Fnd == DOMAIN l \ I
             t == Selected(l, Fnd)
  <1>1. B!Without(l, I) = t
    BY BansSelected DEF B!Without
  <1>2. \E h : Embeds(t, l, Fnd, Len(l), h)
    BY SelectedResult
  <1>3. PICK h : Embeds(t, l, Fnd, Len(l), h)
    BY <1>2
  <1>4. i \in Fnd
    OBVIOUS
  <1> HIDE DEF t, Fnd
  <1>5. PICK j \in 1 .. Len(t) : h[j] = i
    BY <1>3, <1>4 DEF Embeds
  <1>6. t[j] = l[i]
    BY <1>3, <1>5 DEF Embeds
  <1> QED BY <1>1, <1>6

\* Lifted: those bans that are not over, and no others.
LEMMA LiftedIs ==
    ASSUME B!BansAssumption, NEW n \in NetTypes, NEW k \in Kinds, NEW bans
    PROVE  /\ B!Lifted(n, k, bans) \in NetTypes
           /\ \A j \in Kinds : j # k => B!Lifted(n, k, bans)[j] = n[j]
           /\ \A x \in Masks : B!Lifted(n, k, bans)[k][x] \in {0, n[k][x]}
           /\ linked => \A b \in bans : B!Active(b) /\ b.mask \in Masks => B!Lifted(n, k, bans)[k][b.mask] = 0
  <1> DEFINE T(x) == linked /\ \E b \in bans : B!Active(b) /\ b.mask = x
             f == [x \in Masks |-> IF T(x) THEN 0 ELSE n[k][x]]
             y == [n EXCEPT ![k] = f]
  <1>1. n \in [Kinds -> [Masks -> 0 .. Permanent]] /\ 0 \in 0 .. Permanent
    BY BansConstants DEF NetTypes
  <1>2. B!Lifted(n, k, bans) = y
    BY DEF B!Lifted
  <1>3. linked => \A b \in bans : B!Active(b) /\ b.mask \in Masks => T(b.mask)
    OBVIOUS
  <1> HIDE DEF T
  <1>4. \A x \in Masks : n[k][x] \in 0 .. Permanent
    BY <1>1
  <1>5. f \in [Masks -> 0 .. Permanent] /\ \A x \in Masks : f[x] \in {0, n[k][x]} /\ (T(x) => f[x] = 0)
    BY <1>1, <1>4
  <1> HIDE DEF f
  <1>6. y \in NetTypes /\ y[k] = f /\ \A j \in Kinds : j # k => y[j] = n[j]
    BY <1>1, <1>5 DEF NetTypes
  <1> HIDE DEF y
  <1> QED BY <1>2, <1>3, <1>5, <1>6

\* When some bans of a list are taken off it and lifted, the bans that the servers keep
\* are still backed by what is left of the list.
LEMMA LiftedKeeps ==
    ASSUME B!BansAssumption, BansInv, linked, NEW k \in Kinds, NEW gone, NEW x \in Masks,
           BackedBy(lines[k], net[k][x], x)
    PROVE  BackedBy(B!Without(lines[k], gone), B!Lifted(net, k, {lines[k][i] : i \in gone})[k][x], x)
  <1> DEFINE l == lines[k]
             kept == B!Without(l, gone)
             bans == {l[i] : i \in gone}
             y == B!Lifted(net, k, bans)[k][x]
  <1>1. l \in Seq(BanRecs) /\ net \in NetTypes
    BY BansInvParts
  <1>2. \A i \in gone : l[i] \in bans
    OBVIOUS
  <1>3. \A i \in 1 .. Len(l) : l[i] \in BanRecs
    BY <1>1
  <1>a. BackedBy(l, net[k][x], x)
    OBVIOUS
  <1> HIDE DEF l, bans
  <1>4. /\ y \in {0, net[k][x]}
        /\ \A b \in bans : B!Active(b) /\ b.mask = x => y = 0
    BY <1>1, LiftedIs
  <1> HIDE DEF y
  <1>5. SUFFICES ASSUME y > 0, net[k][x] = y
                 PROVE  \E j \in 1 .. Len(kept) : kept[j].mask = x /\ kept[j].left >= y
    <2>1. CASE y = 0
      BY <2>1 DEF BackedBy, kept, y, bans, l
    <2>2. CASE y = net[k][x] /\ y # 0
      BY <2>2 DEF BackedBy, kept, y, bans, l
    <2> QED BY <1>4, <2>1, <2>2
  <1>6. PICK i \in 1 .. Len(l) : l[i].mask = x /\ l[i].left >= y
    BY <1>5, <1>a DEF BackedBy
  <1>7. B!Active(l[i])
    <2>1. l[i].left \in 0 .. Permanent
      BY <1>3 DEF BanRecs
    <2>2. y \in 0 .. Permanent
      BY <1>1, <1>5 DEF NetTypes
    <2> QED BY <1>5, <1>6, <2>1, <2>2 DEF B!Active
  <1>8. i \notin gone
    <2> SUFFICES ASSUME i \in gone PROVE FALSE
      OBVIOUS
    <2>1. y = 0
      BY <1>2, <1>4, <1>6, <1>7
    <2> QED BY <1>5, <2>1
  <1>9. PICK j \in 1 .. Len(kept) : kept[j] = l[i]
    BY <1>1, <1>8, WithoutKeeps DEF kept
  <1> QED BY <1>6, <1>9

\* The list and the servers' bans without some.
LEMMA WithoutIs ==
    ASSUME B!BansAssumption, BansInv, NEW k \in Kinds, NEW gone
    PROVE  LET kept == B!Without(lines[k], gone)
               n == B!Lifted(net, k, {lines[k][i] : i \in gone})
           IN  /\ kept \in Seq(BanRecs) /\ Orderly(k, kept)
               /\ n \in NetTypes
               /\ \A j \in Kinds : j # k => n[j] = net[j]
  <1> DEFINE bans == {lines[k][i] : i \in gone}
  <1>1. net \in NetTypes /\ lines[k] \in Seq(BanRecs) /\ Orderly(k, lines[k])
    BY BansInvParts
  <1> HIDE DEF bans
  <1>2. B!Lifted(net, k, bans) \in NetTypes /\ \A j \in Kinds : j # k => B!Lifted(net, k, bans)[j] = net[j]
    BY <1>1, LiftedIs
  <1>3. B!Without(lines[k], gone) \in Seq(BanRecs) /\ Orderly(k, B!Without(lines[k], gone))
    BY <1>1, BansSelected, SelectedOrderly DEF B!Without
  <1> QED BY <1>2, <1>3 DEF bans

LEMMA AkillAddStep ==
    ASSUME B!BansAssumption, BansInv, NEW m \in Masks, NEW left \in B!Ends, B!os_cmd_akill_add(m, left)
    PROVE  BansStep
  <1> DEFINE gone == B!Redundant(m, left)
             n == B!Lifted(net, "kline", {lines["kline"][i] : i \in gone})
             kept == B!Without(lines["kline"], gone)
  <1>1. "kline" \in Kinds /\ B!line_add("kline", m, left, kept, n) /\ disk' = disk
    BY DEF B!os_cmd_akill_add
  <1> HIDE DEF gone
  <1>2. /\ kept \in Seq(BanRecs) /\ Orderly("kline", kept) /\ n \in NetTypes
        /\ \A j \in Kinds : j # "kline" => n[j] = net[j]
    BY <1>1, WithoutIs
  <1>3. linked => \A x \in Masks : BackedBy(lines["kline"], net["kline"][x], x) => BackedBy(kept, n["kline"][x], x)
    BY <1>1, LiftedKeeps
  <1> HIDE DEF n, kept
  <1>4. AddsTo("kline", m, kept, n)
    BY <1>2, <1>3 DEF AddsTo
  <1> QED BY <1>1, <1>4, BansAdded

\* Whatever is deleted.
LEMMA LineDeleteStep ==
    ASSUME B!BansAssumption, BansInv, NEW k \in Kinds, NEW gone, B!line_delete(k, gone)
    PROVE  BansStep
  <1> DEFINE t == B!Without(lines[k], gone)
             n == B!Lifted(net, k, {lines[k][i] : i \in gone})
  <1>1. /\ lines' = [lines EXCEPT ![k] = t] /\ net' = n
        /\ lastid' = lastid /\ disk' = disk
    BY DEF B!line_delete
  <1>2. /\ lines \in BanLists /\ lastid \in [Kinds -> Int]
        /\ disk.lines \in BanLists /\ disk.kid \in Int /\ disk = [lines |-> disk.lines, kid |-> disk.kid]
    BY BansInvParts
  <1>3. /\ t \in Seq(BanRecs) /\ Orderly(k, t) /\ n \in NetTypes
        /\ \A j \in Kinds : j # k => n[j] = net[j]
    BY WithoutIs
  <1>4. linked => \A x \in Masks : BackedBy(lines[k], net[k][x], x) => BackedBy(t, n[k][x], x)
    BY LiftedKeeps
  <1> HIDE DEF t, n
  <1>5. lines' \in BanLists /\ Changed(lines', lines, k, t)
    <2>1. lines \in BanLists /\ lines' = [lines EXCEPT ![k] = t] /\ t \in Seq(BanRecs) /\ Orderly(k, t)
      BY <1>1, <1>2, <1>3, Zenon
    <2> QED BY <2>1, BanListsWith, Zenon
  <1>6. BansInv'
    BY <1>1, <1>2, <1>3, <1>5, BansInvNext
  <1>7. ASSUME linked, NEW j \in Kinds, NEW x \in Masks, BackedBy(lines[j], net[j][x], x)
        PROVE  BackedBy(lines'[j], net'[j][x], x)
    <2>1. CASE j = k
      BY <1>1, <1>4, <1>5, <1>7, <2>1 DEF Changed
    <2>2. CASE j # k
      BY <1>1, <1>3, <1>5, <1>7, <2>2 DEF Changed
    <2> QED BY <2>1, <2>2
  <1> QED BY <1>6, <1>7 DEF BansStep, StaysBacked

LEMMA DelStep ==
    ASSUME B!BansAssumption, BansInv, NEW k \in Kinds,
           (\E n \in 1 .. MaxId : B!DelNumber(k, n)) \/ (\E m \in Masks : B!DelMask(k, m))
    PROVE  BansStep
  <1>1. \E gone : B!line_delete(k, gone)
    BY DEF B!DelNumber, B!DelMask
  <1> QED BY <1>1, LineDeleteStep

LEMMA SyncBansStep ==
    ASSUME B!BansAssumption, BansInv, NEW k \in Kinds, B!Sync(k)
    PROVE  BansStep
  <1> DEFINE l == lines[k]
             bans == {l[i] : i \in {i \in DOMAIN l : B!Active(l[i])}}
  <1>1. net' \in B!Sent(net, k, bans) /\ UNCHANGED <<lines, lastid, disk>>
    BY DEF B!Sync
  <1>2. net \in NetTypes /\ l \in Seq(BanRecs)
    BY BansInvParts
  <1>3. \A b \in bans : \E i \in 1 .. Len(l) : b = l[i]
    BY <1>2
  <1> HIDE DEF bans
  <1>4. /\ net' \in NetTypes
        /\ \A j \in Kinds : j # k => net'[j] = net[j]
        /\ linked => \A x \in Masks : net'[k][x] = net[k][x] \/ \E b \in bans : b.mask = x /\ b.left = net'[k][x]
    BY <1>1, <1>2, SentIs
  <1>5. ASSUME linked, NEW j \in Kinds, NEW x \in Masks
        PROVE  \/ net'[j][x] = net[j][x]
               \/ \E i \in 1 .. Len(lines[j]) : lines[j][i].mask = x /\ lines[j][i].left >= net'[j][x]
    <2>1. CASE j # k
      BY <1>4, <2>1
    <2>2. CASE j = k /\ net'[j][x] # net[j][x]
      <3>1. PICK b \in bans : b.mask = x /\ b.left = net'[k][x]
        BY <1>4, <1>5, <2>2
      <3>2. PICK i \in 1 .. Len(l) : b = l[i]
        BY <1>3
      <3>3. net'[k][x] \in Int
        BY <1>4 DEF NetTypes
      <3>4. l[i].mask = x /\ l[i].left >= net'[k][x]
        BY <3>1, <3>2, <3>3
      <3> QED BY <2>2, <3>4
    <2> QED BY <2>1, <2>2
  <1> QED BY <1>1, <1>4, <1>5, BansSent

\* A ban that a client meets is sent again: it is on the list.
LEMMA ResentIs ==
    ASSUME B!BansAssumption, BansInv, NEW k \in Kinds, NEW u, NEW keep
    PROVE  /\ B!Resent(k, u, keep) \in [Masks -> 0 .. Permanent]
           /\ \A x \in Masks :
                \/ B!Resent(k, u, keep)[x] = net[k][x]
                \/ \E i \in 1 .. Len(lines[k]) :
                      lines[k][i].mask = x /\ lines[k][i].left >= B!Resent(k, u, keep)[x]
  <1> DEFINE H == B!Hit(k, u)
             p == B!First(H)
             b == lines[k][p]
             f == [net[k] EXCEPT ![b.mask] = b.left]
  <1>1. net[k] \in [Masks -> 0 .. Permanent] /\ lines[k] \in Seq(BanRecs)
    BY BansInvParts DEF NetTypes
  <1>2. CASE H = {}
    <2>1. B!Resent(k, u, keep) = net[k]
      BY <1>2 DEF B!Resent
    <2> QED BY <1>1, <2>1
  <1>3. CASE H # {}
    <2>1. H \in SUBSET (1 .. Len(lines[k])) /\ H \in SUBSET Nat
      BY <1>1 DEF B!Hit
    <2>2. B!Resent(k, u, keep) = net[k] \/ B!Resent(k, u, keep) = f
      BY <1>3 DEF B!Resent
    <2> HIDE DEF H
    <2>3. p \in H
      BY <1>3, <2>1, FirstOf
    <2>4. p \in 1 .. Len(lines[k])
      BY <2>1, <2>3
    <2> HIDE DEF p
    <2>5. b \in BanRecs
      BY <1>1, <2>4
    <2>6. b.mask \in Masks /\ b.left \in 0 .. Permanent /\ b.left >= b.left
      <3>1. \A n \in 0 .. Permanent : n >= n
        OBVIOUS
      <3> HIDE DEF b
      <3> QED BY <2>5, <3>1 DEF BanRecs
    <2>7. /\ f \in [Masks -> 0 .. Permanent] /\ f[b.mask] = b.left
          /\ \A x \in Masks : x # b.mask => f[x] = net[k][x]
      <3> HIDE DEF b
      <3> QED BY <1>1, <2>6
    <2> HIDE DEF f
    <2> QED BY <1>1, <2>2, <2>4, <2>6, <2>7
  <1> QED BY <1>2, <1>3

LEMMA UserAddStep ==
    ASSUME B!BansAssumption, BansInv, NEW u, B!UserAdd(u)
    PROVE  BansStep
  <1>1. PICK keep \in SUBSET Kinds : net' = [k \in Kinds |-> B!Resent(k, u, keep)]
    BY DEF B!UserAdd
  <1>2. UNCHANGED <<lines, lastid, disk>>
    BY DEF B!UserAdd
  <1>3. \A k \in Kinds : net'[k] = B!Resent(k, u, keep)
    BY <1>1
  <1>4. net' \in NetTypes
    <2>1. \A k \in Kinds : B!Resent(k, u, keep) \in [Masks -> 0 .. Permanent]
      BY ResentIs
    <2> QED BY <1>1, <2>1 DEF NetTypes
  <1>5. \A k \in Kinds, x \in Masks :
           \/ net'[k][x] = net[k][x]
           \/ \E i \in 1 .. Len(lines[k]) : lines[k][i].mask = x /\ lines[k][i].left >= net'[k][x]
    <2> SUFFICES ASSUME NEW k \in Kinds, NEW x \in Masks
                 PROVE  \/ net'[k][x] = net[k][x]
                        \/ \E i \in 1 .. Len(lines[k]) : lines[k][i].mask = x /\ lines[k][i].left >= net'[k][x]
      OBVIOUS
    <2>1. net'[k] = B!Resent(k, u, keep)
      BY <1>3
    <2>2. \/ B!Resent(k, u, keep)[x] = net[k][x]
          \/ \E i \in 1 .. Len(lines[k]) :
                lines[k][i].mask = x /\ lines[k][i].left >= B!Resent(k, u, keep)[x]
      BY ResentIs
    <2> QED BY <2>1, <2>2
  <1> QED BY <1>2, <1>4, <1>5, BansSent

LEMMA MeetQlineStep ==
    ASSUME B!BansAssumption, BansInv, NEW u, B!MeetQline(u)
    PROVE  BansStep
  <1>1. PICK keep \in SUBSET {"qline"} : net' = [net EXCEPT !["qline"] = B!Resent("qline", u, keep)]
    BY DEF B!MeetQline
  <1>2. "qline" \in Kinds /\ UNCHANGED <<lines, lastid, disk>>
    BY DEF B!MeetQline
  <1>3. B!Resent("qline", u, keep) \in [Masks -> 0 .. Permanent]
    BY <1>2, ResentIs
  <1>4. /\ net' \in NetTypes /\ net'["qline"] = B!Resent("qline", u, keep)
        /\ \A k \in Kinds : k # "qline" => net'[k] = net[k]
    BY <1>1, <1>2, <1>3, BansInvParts DEF NetTypes
  <1>5. \A k \in Kinds, x \in Masks :
           \/ net'[k][x] = net[k][x]
           \/ \E i \in 1 .. Len(lines[k]) : lines[k][i].mask = x /\ lines[k][i].left >= net'[k][x]
    <2> SUFFICES ASSUME NEW k \in Kinds, NEW x \in Masks
                 PROVE  \/ net'[k][x] = net[k][x]
                        \/ \E i \in 1 .. Len(lines[k]) : lines[k][i].mask = x /\ lines[k][i].left >= net'[k][x]
      OBVIOUS
    <2>1. CASE k # "qline"
      BY <1>4, <2>1
    <2>2. CASE k = "qline"
      <3>1. \/ B!Resent(k, u, keep)[x] = net[k][x]
            \/ \E i \in 1 .. Len(lines[k]) :
                  lines[k][i].mask = x /\ lines[k][i].left >= B!Resent(k, u, keep)[x]
        BY ResentIs
      <3> QED BY <1>4, <2>2, <3>1
    <2> QED BY <2>1, <2>2
  <1> QED BY <1>2, <1>4, <1>5, BansSent

LEMMA BansQuietStep ==
    ASSUME BansInv, UNCHANGED <<lines, lastid, disk, net>>
    PROVE  BansStep
  <1>1. net' \in NetTypes /\ \A k \in Kinds, m \in Masks : net'[k][m] = net[k][m]
    BY BansInvParts
  <1> QED BY <1>1, BansSent

LEMMA BansSaveStep ==
    ASSUME BansInv, B!Save
    PROVE  BansStep
  <1>1. UNCHANGED <<lines, lastid, net>> /\ disk' = [lines |-> lines, kid |-> IF "kline" \in Kinds THEN lastid["kline"] ELSE 0]
    BY DEF B!Save
  <1>2. lines \in BanLists /\ lastid \in [Kinds -> Int] /\ net \in NetTypes
    BY BansInvParts
  <1>3. (IF "kline" \in Kinds THEN lastid["kline"] ELSE 0) \in Int
    BY <1>2
  <1>4. BansInv'
    BY <1>1, <1>2, <1>3, BansInvNext
  <1>5. StaysBacked
    BY <1>1 DEF StaysBacked
  <1> QED BY <1>4, <1>5 DEF BansStep

LEMMA BansRestartStep ==
    ASSUME BansInv, B!Restart
    PROVE  BansStep
  <1>1. /\ lines' = disk.lines /\ lastid' = [k \in Kinds |-> B!LoadedId(k)]
        /\ linked' = FALSE /\ disk' = disk /\ net' = net
    BY DEF B!Restart
  <1>2. /\ net \in NetTypes /\ disk.lines \in BanLists /\ disk.kid \in Int
        /\ disk = [lines |-> disk.lines, kid |-> disk.kid]
    BY BansInvParts
  <1>3. lastid' \in [Kinds -> Int]
    <2>1. \A k \in Kinds : B!LoadedId(k) \in Int
      <3> SUFFICES ASSUME NEW k \in Kinds PROVE B!LoadedId(k) \in Int
        OBVIOUS
      <3>1. disk.lines[k] \in Seq(BanRecs)
        BY <1>2, BanListsAt
      <3>2. Len(disk.lines[k]) \in Int
        BY <3>1
      <3> QED BY <1>2, <3>2 DEF B!LoadedId
    <2> QED BY <1>1, <2>1
  <1>4. BansInv'
    BY <1>1, <1>2, <1>3, BansInvNext
  <1> QED BY <1>1, <1>4 DEF BansStep

LEMMA ExpireBansStep ==
    ASSUME B!BansAssumption, BansInv, NEW k \in Kinds, B!line_expire(k)
    PROVE  BansStep
  <1>1. \E gone : B!line_delete(k, gone)
    BY DEF B!line_expire
  <1> QED BY <1>1, LineDeleteStep

\* Time passes for a ban and for what the servers have of it.
LEMMA SoonerOrder ==
    ASSUME B!BansAssumption, NEW m \in 0 .. Permanent, NEW n \in 0 .. Permanent, m >= n
    PROVE  B!Sooner(n) > 0 => n > 0 /\ B!Sooner(m) >= B!Sooner(n)
  <1>1. Permanent \in Nat
    BY BansConstants
  <1> QED BY <1>1 DEF B!Sooner

LEMMA TickBansStep ==
    ASSUME B!BansAssumption, BansInv, B!Tick
    PROVE  BansStep
  <1> DEFINE f == [k \in Kinds |-> B!Age(lines[k])]
             g == [k \in Kinds |-> B!Age(disk.lines[k])]
             n == [k \in Kinds |-> [m \in Masks |-> B!Sooner(net[k][m])]]
  <1>1. lines' = f /\ disk' = [disk EXCEPT !.lines = g] /\ net' = n /\ lastid' = lastid
    BY DEF B!Tick
  <1>2. /\ lines \in BanLists /\ lastid \in [Kinds -> Int] /\ net \in NetTypes
        /\ disk.lines \in BanLists /\ disk.kid \in Int /\ disk = [lines |-> disk.lines, kid |-> disk.kid]
        /\ \A k \in Kinds : lines[k] \in Seq(BanRecs) /\ Orderly(k, lines[k])
    BY BansInvParts
  <1>3. f \in BanLists
    BY <1>2, AgedLists
  <1>4. g \in BanLists
    <2> DEFINE d == disk.lines
    <2>1. d \in BanLists
      BY <1>2
    <2> HIDE DEF d
    <2>2. [k \in Kinds |-> B!Age(d[k])] \in BanLists
      BY <2>1, AgedLists
    <2> QED BY <2>2 DEF d
  <1>5. \A k \in Kinds, m \in Masks : net[k][m] \in 0 .. Permanent
    BY <1>2 DEF NetTypes
  <1>6. n \in NetTypes /\ \A k \in Kinds, m \in Masks : n[k][m] = B!Sooner(net[k][m])
    <2>1. \A k \in Kinds, m \in Masks : B!Sooner(net[k][m]) \in 0 .. Permanent
      BY <1>5, SoonerIs
    <2> QED BY <2>1 DEF NetTypes
  <1>7. \A k \in Kinds : f[k] = B!Age(lines[k])
    OBVIOUS
  <1> HIDE DEF f, g, n
  <1>8. disk' = [lines |-> g, kid |-> disk.kid]
    BY <1>1, <1>2
  <1>9. BansInv'
    BY <1>1, <1>2, <1>3, <1>4, <1>6, <1>8, BansInvNext
  <1>10. ASSUME NEW k \in Kinds, NEW x \in Masks, BackedBy(lines[k], net[k][x], x)
         PROVE  BackedBy(lines'[k], net'[k][x], x)
    <2> DEFINE l == lines[k]
               t == B!Age(l)
               q == net[k][x]
    <2>1. q \in 0 .. Permanent /\ net'[k][x] = B!Sooner(q) /\ lines'[k] = t
      BY <1>1, <1>5, <1>6, <1>7
    <2>2. l \in Seq(BanRecs) /\ Orderly(k, l)
      BY <1>2
    <2> HIDE DEF l
    <2>3. /\ t \in Seq(BanRecs) /\ DOMAIN t = 1 .. Len(l)
          /\ \A i \in 1 .. Len(l) : t[i].mask = l[i].mask /\ t[i].left = B!Sooner(l[i].left)
      BY <2>2, AgedOrderly
    <2> HIDE DEF t, q
    <2>4. SUFFICES ASSUME B!Sooner(q) > 0
                   PROVE  \E i \in 1 .. Len(t) : t[i].mask = x /\ t[i].left >= B!Sooner(q)
      BY <2>1 DEF BackedBy
    <2>5. q > 0
      <3>1. q >= q
        BY <2>1
      <3> QED BY <2>1, <2>4, <3>1, SoonerOrder
    <2>6. PICK i \in 1 .. Len(l) : l[i].mask = x /\ l[i].left >= q
      BY <1>10, <2>5 DEF BackedBy, l, q
    <2>7. l[i].left \in 0 .. Permanent
      <3>1. l[i] \in BanRecs
        BY <2>2
      <3> QED BY <3>1 DEF BanRecs
    <2>8. B!Sooner(l[i].left) >= B!Sooner(q)
      BY <2>1, <2>4, <2>6, <2>7, SoonerOrder
    <2>9. i \in 1 .. Len(t)
      BY <2>3
    <2> QED BY <2>3, <2>6, <2>8, <2>9
  <1> QED BY <1>9, <1>10 DEF BansStep, StaysBacked

LEMMA BansInit ==
    ASSUME B!BansAssumption, B!Init
    PROVE  BansInv
  <1> DEFINE f == [k \in Kinds |-> <<>>]
  <1>1. f \in BanLists
    <2>1. f \in [Kinds -> Seq(BanRecs)]
      OBVIOUS
    <2>2. \A k \in Kinds : Orderly(k, f[k])
      <3>1. \A k \in Kinds : f[k] = <<>> /\ Len(<<>>) = 0
        OBVIOUS
      <3>2. \A k \in Kinds : Orderly(k, <<>>)
        BY DEF Orderly, Apart
      <3> QED BY <3>1, <3>2
    <2> HIDE DEF f
    <2> QED BY <2>1, <2>2 DEF BanLists
  <1>2. lines = f /\ lastid = [k \in Kinds |-> 0] /\ disk = [lines |-> f, kid |-> 0]
        /\ net = [k \in Kinds |-> [m \in Masks |-> 0]]
    BY DEF B!Init
  <1> HIDE DEF f
  <1>3. net \in NetTypes
    BY <1>2, BansConstants DEF NetTypes
  <1>4. lastid \in [Kinds -> Int]
    BY <1>2
  <1>5. disk \in [lines : BanLists, kid : Int]
    <2> DEFINE X == BanLists
    <2>1. f \in X
      BY <1>1
    <2> HIDE DEF X
    <2>2. disk \in [lines : X, kid : Int]
      BY <1>2, <2>1
    <2> QED BY <2>2 DEF X
  <1> QED BY <1>1, <1>2, <1>3, <1>4, <1>5 DEF BansInv, NetTypes

LEMMA BansNextStep ==
    ASSUME B!BansAssumption, BansInv, [B!Next]_B!vars
    PROVE  BansStep
  <1>1. ASSUME NEW m \in Masks, NEW left \in B!Ends, B!os_cmd_akill_add(m, left) PROVE BansStep
    BY <1>1, AkillAddStep
  <1>2. ASSUME NEW k \in Kinds, NEW m \in Masks, NEW left \in B!Ends, B!line_cmd_add(k, m, left) PROVE BansStep
    BY <1>2, LineCmdAddStep
  <1>3. ASSUME NEW k \in Kinds, NEW n \in 1 .. MaxId, B!DelNumber(k, n) PROVE BansStep
    BY <1>3, DelStep
  <1>4. ASSUME NEW k \in Kinds, NEW m \in Masks, B!DelMask(k, m) PROVE BansStep
    BY <1>4, DelStep
  <1>5. ASSUME NEW k \in Kinds, B!Sync(k) PROVE BansStep
    BY <1>5, SyncBansStep
  <1>6. ASSUME NEW u \in Clients, NEW left \in Durations, NEW clear \in BOOLEAN, B!kline_add_user(u, left, clear)
        PROVE  BansStep
    BY <1>6, KlineAddUserStep
  <1>7. ASSUME NEW u \in Clients, B!UserAdd(u) PROVE BansStep
    BY <1>7, UserAddStep
  <1>8. ASSUME NEW u \in Clients, B!MeetQline(u) PROVE BansStep
    BY <1>8, MeetQlineStep
  <1>9. ASSUME NEW u \in Clients, B!UserDelete(u) PROVE BansStep
    BY <1>9, BansQuietStep DEF B!UserDelete
  <1>10. CASE B!Disconnect \/ B!Connect
    BY <1>10, BansQuietStep DEF B!Disconnect, B!Connect
  <1>11. ASSUME NEW k \in Kinds, B!line_expire(k) PROVE BansStep
    BY <1>11, ExpireBansStep
  <1>12. CASE B!Tick
    BY <1>12, TickBansStep
  <1>13. CASE B!Save
    BY <1>13, BansSaveStep
  <1>14. CASE B!Restart
    BY <1>14, BansRestartStep
  <1>15. CASE UNCHANGED B!vars
    BY <1>15, BansQuietStep DEF B!vars
  <1> QED BY <1>1, <1>2, <1>3, <1>4, <1>5, <1>6, <1>7, <1>8, <1>9, <1>10, <1>11, <1>12, <1>13, <1>14, <1>15
          DEF B!Next, B!Command

\* The longest that an AKILL on the list bars a client.
Longest(l, H) == MaxOf({0} \union {l[i].left : i \in H})

LEMMA CoveredIs ==
    ASSUME Permanent \in Nat, NEW l \in Seq(BanRecs), NEW H \in SUBSET (1 .. Len(l))
    PROVE  /\ Longest(l, H) \in Nat /\ \A i \in H : l[i].left <= Longest(l, H)
           /\ Longest(l, H) > 0 => \E i \in H : l[i].left = Longest(l, H)
  <1> DEFINE E == {0} \union {l[i].left : i \in H}
             T == {k \in Nat : Permanent - k \in E}
             e == MaxOf(E)
  <1>1. E \in SUBSET (0 .. Permanent) /\ 0 \in E
    <2> SUFFICES ASSUME NEW i \in H PROVE l[i].left \in 0 .. Permanent
      OBVIOUS
    <2>1. l[i] \in BanRecs
      OBVIOUS
    <2> QED BY <2>1 DEF BanRecs
  <1>2. \A i \in H : l[i].left \in E
    OBVIOUS
  <1>3. \A x \in E : x > 0 => \E i \in H : l[i].left = x
    OBVIOUS
  <1> HIDE DEF E
  <1>4. Permanent \in T /\ T \subseteq Nat
    BY <1>1
  <1>5. PICK k \in T : \A m \in T : k <= m
    <2> HIDE DEF T
    <2> QED BY <1>4, LeastNat
  <1>6. Permanent - k \in E /\ \A y \in E : Permanent - k >= y
    <2>1. \A y \in E : Permanent - y \in T
      BY <1>1
    <2> QED BY <1>1, <1>5, <2>1
  <1>7. e \in E /\ \A y \in E : e >= y
    BY <1>6, Zenon DEF MaxOf
  <1> HIDE DEF e
  <1>8. e \in Nat /\ (\A i \in H : l[i].left <= e) /\ (e > 0 => \E i \in H : l[i].left = e)
    <2>1. e \in Nat /\ (e > 0 => \E i \in H : l[i].left = e)
      BY <1>1, <1>3, <1>7
    <2>2. \A y \in E : y \in Nat /\ y <= e
      BY <1>1, <1>7, <2>1
    <2>3. \A i \in H : l[i].left <= e
      BY <1>2, <2>2
    <2> QED BY <2>1, <2>3
  <1> QED BY <1>8 DEF Longest, e, E

\* What is added covers at least as long what the AKILLs removed for it cover.
LEMMA NoneFreed ==
    ASSUME B!BansAssumption, BansInv, B!Nested
    PROVE  B!NobodyFreed
  <1> SUFFICES ASSUME NEW m \in Masks, NEW left \in B!Ends, B!os_cmd_akill_add(m, left), NEW u \in Clients
               PROVE  B!CoveredUntil(u)' >= B!CoveredUntil(u)
    BY DEF B!NobodyFreed
  <1> DEFINE l == lines["kline"]
             gone == B!Redundant(m, left)
             kept == B!Without(l, gone)
             b == [mask |-> m, left |-> left, number |-> lastid["kline"] + 1]
             t == Append(kept, b)
             a == MaskOf[u]
             H == {i \in DOMAIN l : B!Active(l[i]) /\ B!Covers(l[i].mask, a)}
             J == {i \in DOMAIN t : B!Active(t[i]) /\ B!Covers(t[i].mask, a)}
             c == B!CoveredUntil(u)
             d == B!CoveredUntil(u)'
  <1>1. "kline" \in Kinds /\ lines' = [lines EXCEPT !["kline"] = t]
    BY DEF B!os_cmd_akill_add, B!line_add
  <1>2. l \in Seq(BanRecs) /\ Orderly("kline", l) /\ lines \in BanLists /\ lastid \in [Kinds -> Int]
    BY <1>1, BansInvParts
  <1>3. kept \in Seq(BanRecs)
    BY <1>1, <1>2, BansSelected, SelectedOrderly DEF B!Without
  <1>4. a \in Masks /\ Permanent \in Nat /\ left \in 0 .. Permanent
    BY BansConstants
  <1>5. b \in BanRecs /\ b.mask = m /\ b.left = left
    BY <1>1, <1>2, <1>4 DEF BanRecs
  <1> HIDE DEF b, kept
  <1>6. /\ t \in Seq(BanRecs) /\ Len(t) = Len(kept) + 1 /\ t[Len(kept) + 1] = b /\ Len(kept) \in Nat
        /\ \A i \in 1 .. Len(kept) : t[i] = kept[i]
    BY <1>3, <1>5
  <1>7. lines'["kline"] = t
    BY <1>1, <1>2 DEF BanLists
  <1> HIDE DEF t
  <1>8. /\ c \in Nat /\ (\A i \in H : l[i].left <= c) /\ (c > 0 => \E i \in H : l[i].left = c)
    <2>1. B!Hit("kline", u) = H /\ H \in SUBSET (1 .. Len(l))
      BY <1>2 DEF B!Hit
    <2>2. c = Longest(l, H)
      BY <2>1, Zenon DEF B!CoveredUntil, Longest, MaxOf, B!Max
    <2> HIDE DEF c, H, l
    <2> QED BY <1>2, <1>4, <2>1, <2>2, CoveredIs
  <1>9. d \in Nat /\ (\A i \in J : t[i].left <= d)
    <2>1. B!Hit("kline", u)' = J /\ J \in SUBSET (1 .. Len(t))
      BY <1>6, <1>7 DEF B!Hit
    <2>2. d = Longest(t, J)
      BY <1>7, <2>1, Zenon DEF B!CoveredUntil, Longest, MaxOf, B!Max
    <2> HIDE DEF d, J
    <2> QED BY <1>4, <1>6, <2>1, <2>2, CoveredIs
  <1> SUFFICES d >= c
    OBVIOUS
  <1> HIDE DEF c, d
  <1>10. SUFFICES ASSUME c > 0 PROVE d >= c
    BY <1>8, <1>9
  <1>11. PICK i \in H : l[i].left = c
    BY <1>8, <1>10
  <1>12. i \in 1 .. Len(l) /\ B!Active(l[i]) /\ B!Covers(l[i].mask, a) /\ l[i].mask \in Masks
    <2>1. i \in 1 .. Len(l) /\ B!Active(l[i]) /\ B!Covers(l[i].mask, a) /\ l[i] \in BanRecs
      BY <1>2
    <2> QED BY <2>1 DEF BanRecs
  <1>13. CASE i \notin gone
    <2>1. PICK j \in 1 .. Len(kept) : kept[j] = l[i]
      <3> HIDE DEF gone, l
      <3> QED BY <1>2, <1>12, <1>13, WithoutKeeps DEF kept
    <2>2. j \in DOMAIN t /\ t[j] = l[i]
      BY <1>6, <2>1
    <2>3. j \in J
      BY <1>12, <2>2
    <2> QED BY <1>9, <1>11, <2>2, <2>3
  <1>14. CASE i \in gone
    <2>1. B!Covers(m, l[i].mask) /\ l[i].left <= left
      BY <1>14 DEF B!Redundant
    <2>2. B!Covers(m, a)
      BY <1>4, <1>12, <2>1 DEF B!Nested
    <2>3. Len(kept) + 1 \in DOMAIN t /\ t[Len(kept) + 1] = b
      BY <1>6
    <2>4. B!Active(b)
      <3>1. left > 0
        BY <1>4, <1>8, <1>10, <1>11, <2>1
      <3> QED BY <1>5, <3>1 DEF B!Active
    <2>5. Len(kept) + 1 \in J
      BY <1>5, <2>2, <2>3, <2>4
    <2>6. left <= d
      BY <1>5, <1>9, <2>3, <2>5
    <2> QED BY <1>4, <1>8, <1>9, <1>11, <2>1, <2>6
  <1> QED BY <1>13, <1>14

\* The lists, in memory and in the database, hold bans on masks, and no search
\* for an SGLINE or an SQLINE stops at one before it, which is what lets the
\* timer delete by mask (node.c:166-411).
THEOREM ListsStayOrderly == ASSUME B!BansAssumption PROVE B!Spec => []BansInv
  <1>1. B!Init => BansInv
    BY BansInit
  <1>2. BansInv /\ [B!Next]_B!vars => BansInv'
    BY BansNextStep DEF BansStep
  <1> QED BY <1>1, <1>2, PTL DEF B!Spec

\* Of the first m bans, those that are over.
Over(k, m) == {i \in 1 .. m : ~B!Active(lines[k][i])}

\* The search for the mask of a ban that is over stops at it, once those before it
\* that are over are gone.
LEMMA VictimIs ==
    ASSUME B!BansAssumption, BansInv, B!Findable, NEW k \in Kinds, NEW i \in 1 .. Len(lines[k]),
           ~B!Active(lines[k][i])
    PROVE  B!Victims(k, DOMAIN lines[k] \ Over(k, i - 1), i) = {i}
  <1> DEFINE l == lines[k]
             left == DOMAIN l \ Over(k, i - 1)
             Fnd == B!Found(k, l, l[i].mask)
             I == Fnd \intersect left
  <1>1. l \in Seq(BanRecs) /\ Orderly(k, l)
    BY BansInvParts
  <1>2. DOMAIN l = 1 .. Len(l) /\ Len(l) \in Nat
    BY <1>1
  <1>3. CASE k = "kline"
    BY <1>3 DEF B!Victims
  <1>4. CASE k # "kline"
    <2>1. i \in Fnd
      <3>1. k \in {"xline", "qline"}
        BY <1>4 DEF B!BansAssumption
      <3>2. CASE k = "xline"
        BY <1>2, <3>2 DEF B!Findable
      <3>3. CASE k = "qline"
        BY <1>2, <3>3 DEF B!Found
      <3> QED BY <3>1, <3>2, <3>3
    <2>2. \A j \in Fnd : j \in 1 .. Len(l) /\ Takes(k, l[j].mask, l[i].mask)
      BY <1>2 DEF B!Found, Takes
    <2>3. i \in left
      BY <1>2 DEF Over
    <2> HIDE DEF Fnd, left
    <2>4. \A j \in Fnd : i <= j
      <3> SUFFICES ASSUME NEW j \in Fnd, ~(i <= j) PROVE FALSE
        OBVIOUS
      <3>1. j \in 1 .. Len(l) /\ j < i
        BY <1>2, <2>2
      <3>2. ~Takes(k, l[j].mask, l[i].mask)
        BY <1>1, <1>4, <3>1 DEF Orderly, Apart
      <3> QED BY <2>2, <3>2
    <2>5. {v \in I : \A j \in I : v <= j} = {i}
      <3>1. i \in I /\ (\A j \in I : i <= j /\ j \in Nat) /\ i \in Nat
        BY <1>2, <2>1, <2>2, <2>3, <2>4
      <3> HIDE DEF I
      <3> QED BY <3>1
    <2>6. B!Victims(k, left, i) = {v \in I : \A j \in I : v <= j}
      BY <1>4 DEF B!Victims, I, Fnd, left
    <2> QED BY <2>5, <2>6 DEF left
  <1> QED BY <1>3, <1>4

\* What the loop has deleted when it has come to ban i, where it had deleted gone
\* before.
Goes(k, i, gone) ==
    IF B!Active(lines[k][i]) \/ i \in gone THEN gone
    ELSE gone \union B!Victims(k, DOMAIN lines[k] \ gone, i)

\* The recursive function in Expired.
Expires(k, g) == g = [i \in 0 .. Len(lines[k]) |-> IF i = 0 THEN {} ELSE Goes(k, i, g[i - 1])]

\* One ban of the loop.
LEMMA OverNext ==
    ASSUME B!BansAssumption, BansInv, B!Findable, NEW k \in Kinds, NEW i \in 1 .. Len(lines[k])
    PROVE  Over(k, i) = Goes(k, i, Over(k, i - 1))
  <1>1. i \in Nat /\ i \notin Over(k, i - 1) /\ 1 .. i = (1 .. i - 1) \union {i}
    <2>1. lines[k] \in Seq(BanRecs)
      BY BansInvParts
    <2> QED BY <2>1 DEF Over
  <1>2. CASE B!Active(lines[k][i])
    <2>1. Over(k, i) = Over(k, i - 1)
      BY <1>1, <1>2 DEF Over
    <2> QED BY <1>2, <2>1 DEF Goes
  <1>3. CASE ~B!Active(lines[k][i])
    <2>1. Over(k, i) = Over(k, i - 1) \union {i}
      BY <1>1, <1>3 DEF Over
    <2>2. B!Victims(k, DOMAIN lines[k] \ Over(k, i - 1), i) = {i}
      BY <1>3, VictimIs
    <2> QED BY <1>1, <1>3, <2>1, <2>2 DEF Goes
  <1> QED BY <1>2, <1>3

LEMMA ExpiredIs ==
    ASSUME B!BansAssumption, BansInv, B!Findable, NEW k \in Kinds
    PROVE  \A m \in 0 .. Len(lines[k]) : B!Expired(k)[m] = Over(k, m)
  <1> DEFINE n == Len(lines[k])
             h == [m \in 0 .. n |-> Over(k, m)]
             g == CHOOSE f : Expires(k, f)
  <1>0. n \in Nat
    <2>1. lines[k] \in Seq(BanRecs)
      BY BansInvParts
    <2> QED BY <2>1
  <1>1. Over(k, 0) = {}
    BY DEF Over
  <1>2. Expires(k, h)
    <2>1. ASSUME NEW i \in 0 .. n PROVE Over(k, i) = IF i = 0 THEN {} ELSE Goes(k, i, h[i - 1])
      <3>1. CASE i = 0
        BY <1>1, <3>1
      <3>2. CASE i # 0
        <4>1. i \in 1 .. n /\ i - 1 \in 0 .. n
          BY <1>0, <3>2
        <4>2. h[i - 1] = Over(k, i - 1)
          BY <4>1
        <4>3. Over(k, i) = Goes(k, i, Over(k, i - 1))
          BY <4>1, OverNext
        <4> HIDE DEF h
        <4> QED BY <3>2, <4>2, <4>3
      <3> QED BY <3>1, <3>2
    <2>2. h = [i \in 0 .. n |-> IF i = 0 THEN {} ELSE Goes(k, i, h[i - 1])]
      BY <2>1, Zenon
    <2> QED BY <2>2, Zenon DEF Expires
  <1>3. Expires(k, g)
    BY <1>2, Zenon
  <1>4. B!Expired(k) = g
    BY Zenon DEF B!Expired, Expires, Goes
  <1> HIDE DEF g, h
  <1>5. \A i \in 0 .. n : g[i] = IF i = 0 THEN {} ELSE Goes(k, i, g[i - 1])
    BY <1>3, Zenon DEF Expires
  <1> DEFINE S == {m \in Nat : m <= n => g[m] = Over(k, m)}
  <1>6. 0 \in S
    BY <1>0, <1>1, <1>5
  <1>7. ASSUME NEW m \in Nat, m \in S PROVE m + 1 \in S
    <2> SUFFICES ASSUME m + 1 <= n PROVE g[m + 1] = Over(k, m + 1)
      OBVIOUS
    <2>1. m + 1 \in 0 .. n /\ m + 1 # 0 /\ (m + 1) - 1 = m /\ m + 1 \in 1 .. n /\ g[m] = Over(k, m)
      BY <1>0, <1>7
    <2> DEFINE p == m + 1
    <2>2. p \in 0 .. n /\ p # 0 /\ p \in 1 .. n /\ g[p - 1] = Over(k, p - 1)
      BY <2>1
    <2> HIDE DEF p
    <2>3. g[p] = Over(k, p)
      <3>1. Over(k, p) = Goes(k, p, Over(k, p - 1))
        BY <2>2, OverNext
      <3> QED BY <1>5, <2>2, <3>1
    <2> QED BY <2>3 DEF p
  <1> HIDE DEF S
  <1>8. Nat \subseteq S
    BY <1>6, <1>7, NatInductionSet
  <1>9. \A m \in 0 .. n : g[m] = Over(k, m)
    BY <1>0, <1>8 DEF S
  <1> QED BY <1>4, <1>9

\* It never deletes the ban it is to go on with.
LEMMA EndsAt ==
    ASSUME B!BansAssumption, BansInv, B!Findable, NEW k \in Kinds, NEW end \in B!LoopEnds(k)
    PROVE  end = Len(lines[k])
  <1> DEFINE n == Len(lines[k])
             gone == B!Expired(k)
             After(i) == {j \in DOMAIN lines[k] \ gone[i - 1] : j > i}
  <1>1. n \in Nat /\ DOMAIN lines[k] = 1 .. n
    <2>1. lines[k] \in Seq(BanRecs)
      BY BansInvParts
    <2> QED BY <2>1
  <1>2. SUFFICES ASSUME end \in 1 .. n, After(end) # {}, B!First(After(end)) \in gone[end] PROVE FALSE
    BY <1>1 DEF B!LoopEnds
  <1>3. gone[end] = Over(k, end)
    BY <1>1, <1>2, ExpiredIs
  <1>4. After(end) \in SUBSET Nat /\ \A j \in After(end) : j > end
    BY <1>1
  <1> HIDE DEF After
  <1>5. B!First(After(end)) \in After(end)
    BY <1>2, <1>4, FirstOf
  <1>6. B!First(After(end)) > end /\ B!First(After(end)) \in 1 .. end
    BY <1>2, <1>3, <1>4, <1>5 DEF Over
  <1> QED BY <1>1, <1>2, <1>6

\* The timer deletes the bans that are over, wherever on the list and however
\* many, and no others, though a wider SGLINE or SQLINE that runs on may stand
\* on the list; SGLINEs only while those that are over match their own masks
\* (kline_expire, xline_expire and qline_expire, node.c; match.c:187).
THEOREM ExpiresExactly == ASSUME B!BansAssumption PROVE B!Spec => B!ExpireExact
  <1> DEFINE A == B!Findable => B!OnlyOverExpire
  <1>1. BansInv => A
    <2> SUFFICES ASSUME BansInv, B!Findable, NEW k \in Kinds, B!line_expire(k)
                 PROVE  lines'[k] = B!Selected(lines[k], {i \in DOMAIN lines[k] : B!Active(lines[k][i])})
      BY DEF B!OnlyOverExpire
    <2> DEFINE n == Len(lines[k])
    <2>1. lines[k] \in Seq(BanRecs) /\ lines \in BanLists
      BY BansInvParts
    <2>2. DOMAIN lines[k] = 1 .. n /\ n \in 0 .. n
      BY <2>1
    <2>3. PICK end \in B!LoopEnds(k) : B!line_delete(k, B!Expired(k)[end])
      BY DEF B!line_expire
    <2>4. end = n
      BY <2>3, EndsAt
    <2>5. B!Expired(k)[n] = Over(k, n)
      BY <2>2, ExpiredIs
    <2>6. lines' = [lines EXCEPT ![k] = B!Without(lines[k], Over(k, n))]
      BY <2>3, <2>4, <2>5 DEF B!line_delete
    <2>7. lines'[k] = B!Without(lines[k], Over(k, n))
      BY <2>1, <2>6 DEF BanLists
    <2>8. DOMAIN lines[k] \ Over(k, n) = {i \in DOMAIN lines[k] : B!Active(lines[k][i])}
      BY <2>2 DEF Over
    <2> QED BY <2>7, <2>8 DEF B!Without
  <1>2. BansInv /\ [B!Next]_B!vars => [A]_B!vars
    BY <1>1
  <1> HIDE DEF A
  <1>3. B!Spec => [][A]_B!vars
    BY <1>2, ListsStayOrderly, PTL DEF B!Spec
  <1> QED BY <1>3, PTL DEF B!ExpireExact, A

\* While services are linked they lose track of no ban that they have set on the
\* servers: whatever leaves the list is lifted, or over there too; an AKILL that
\* replaces others, an expiry and a deletion by number or by mask included
\* (node.c, akill.c:264).
THEOREM LosesNoBan == ASSUME B!BansAssumption PROVE B!Spec => B!NoStrayBans
  <1> DEFINE A == linked /\ linked' => B!Unbacked' \subseteq B!Unbacked
  <1>1. BansInv /\ [B!Next]_B!vars => A
    <2> SUFFICES ASSUME BansInv, [B!Next]_B!vars, linked, linked', NEW b \in B!Unbacked'
                 PROVE  b \in B!Unbacked
      OBVIOUS
    <2>1. StaysBacked
      BY BansNextStep DEF BansStep
    <2>2. b \in Kinds \X Masks
      BY DEF B!Unbacked
    <2> DEFINE k == b[1]
               m == b[2]
    <2>3. k \in Kinds /\ m \in Masks
      BY <2>2
    <2>4. DOMAIN lines[k] = 1 .. Len(lines[k]) /\ DOMAIN lines'[k] = 1 .. Len(lines'[k])
      <3>1. BansInv'
        BY BansNextStep DEF BansStep
      <3>2. lines[k] \in Seq(BanRecs) /\ lines'[k] \in Seq(BanRecs)
        BY <2>3, <3>1 DEF BansInv, BanLists, BanRecs
      <3> QED BY <3>2
    <2>5. ~BackedBy(lines'[k], net'[k][m], m)
      BY <2>2, <2>4 DEF B!Unbacked, BackedBy
    <2>6. ~BackedBy(lines[k], net[k][m], m)
      BY <2>1, <2>3, <2>5 DEF StaysBacked
    <2> QED BY <2>2, <2>4, <2>6 DEF B!Unbacked, BackedBy
  <1>2. BansInv /\ [B!Next]_B!vars => [A]_B!vars
    BY <1>1
  <1> HIDE DEF A
  <1>3. B!Spec => [][A]_B!vars
    BY <1>2, ListsStayOrderly, PTL DEF B!Spec
  <1> QED BY <1>3, PTL DEF B!NoStrayBans, B!NothingStrays, A

\* An AKILL ADD, which takes the AKILLs that the new one covers off the list,
\* leaves nobody free before the time they were to be, where what a mask covers
\* also covers what that covers (akill.c:264).
THEOREM AkillAddFreesNobody == ASSUME B!BansAssumption PROVE B!Spec => B!CoverageKept
  <1> DEFINE A == B!NobodyFreed \/ ~B!Nested
  <1>1. BansInv /\ [B!Next]_B!vars => [A]_B!vars
    BY NoneFreed
  <1> HIDE DEF A
  <1>2. B!Spec => [][A]_B!vars
    BY <1>1, ListsStayOrderly, PTL DEF B!Spec
  <1> QED BY <1>2, PTL DEF B!CoverageKept, A
=============================================================================
