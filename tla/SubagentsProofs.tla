--------------------------- MODULE SubagentsProofs ---------------------------
(***************************************************************************)
(* The document never drops what the event log does not have, and while    *)
(* there is room for every agent it keeps the newest activity of each, for *)
(* any set of calls, any document older than the archive and any bound on  *)
(* the projection.                                                         *)
(*                                                                         *)
(* Nothing is lost: as long as the document has no history nothing was     *)
(* ever dropped; once it has one, everything it was ever given is          *)
(* archived.  A contribution on its way to the update carries, in its      *)
(* list, whatever is not archived yet; calls that overtake it archived     *)
(* their own activity before they updated the document, so that list       *)
(* stays enough.                                                           *)
(*                                                                         *)
(* Agents stay: the document is a part of what it was given, in that       *)
(* order, without what was replaced.  Walking back, the newest activity    *)
(* about an agent is met before any other about it, so the agent is fresh  *)
(* then, and every activity taken so far was taken for another agent; so   *)
(* there is room.  The walk is a recursive function; that it exists, and   *)
(* what it has at each place, is shown by induction over sets of numbers.  *)
(***************************************************************************)
EXTENDS Subagents, FiniteSetTheorems, WellFoundedInduction, TLAPS

-----------------------------------------------------------------------------
(* Induction over numbers, as a fact about sets of them.                   *)

\* A nonempty set of numbers has a smallest member.
LEMMA Smallest ==
  ASSUME NEW S, S \subseteq Nat, S # {}
  PROVE  \E m \in S : \A n \in S : m <= n
<1> DEFINE R == OpToRel(<, Nat)
<1>1. \A x, y \in Nat : y < x => <<y, x>> \in R
  BY DEF OpToRel
<1>2. IsWellFoundedOn(R, Nat)
  BY NatLessThanWellFounded
<1> HIDE DEF R
<1>3. PICK m \in S : \A n \in S : ~ (<<n, m>> \in R)
  BY <1>2, WFMin
<1>4. ASSUME NEW n \in S PROVE m <= n
  <2>1. m \in Nat /\ n \in Nat /\ ~ (<<n, m>> \in R)
    BY <1>3
  <2>2. ~(n < m)
    BY <1>1, <2>1
  <2> QED BY <2>1, <2>2
<1> QED BY <1>4

\* Induction: a set that has 0 and every successor has all numbers.
LEMMA Counting ==
  ASSUME NEW S, 0 \in S, \A n \in Nat : n \in S => n + 1 \in S
  PROVE  Nat \subseteq S
<1> DEFINE Out == Nat \ S
<1> SUFFICES ASSUME Out # {} PROVE FALSE
  OBVIOUS
<1>1. PICK m \in Out : \A n \in Out : m <= n
  BY Smallest
<1>2. m \in Nat /\ m # 0
  OBVIOUS
<1>3. m - 1 \in Nat /\ m - 1 \notin Out
  BY <1>1, <1>2
<1>4. m - 1 \in S /\ (m - 1) + 1 = m
  BY <1>2, <1>3
<1> QED BY <1>3, <1>4

\* Induction from the end of an interval to its beginning.
LEMMA CountingDown ==
  ASSUME NEW L \in Nat, NEW S, L + 1 \in S, \A i \in 1..L : i + 1 \in S => i \in S
  PROVE  1..(L + 1) \subseteq S
<1> DEFINE T == {n \in Nat : n > L \/ L + 1 - n \in S}
<1>1. 0 \in T
  OBVIOUS
<1>2. ASSUME NEW n \in Nat, n \in T PROVE n + 1 \in T
  <2>1. CASE n >= L
    BY <2>1
  <2>2. CASE n < L
    <3>1. L - n \in 1..L /\ (L - n) + 1 = L + 1 - n /\ L + 1 - (n + 1) = L - n
      BY <2>2
    <3>2. L + 1 - n \in S
      BY <1>2, <2>2
    <3> QED BY <3>1, <3>2
  <2> QED BY <2>1, <2>2
<1> HIDE DEF T
<1>3. Nat \subseteq T
  BY <1>1, <1>2, Counting
<1> USE DEF T
<1>4. ASSUME NEW i \in 1..(L + 1) PROVE i \in S
  <2>1. L + 1 - i \in Nat /\ ~(L + 1 - i > L) /\ L + 1 - (L + 1 - i) = i
    OBVIOUS
  <2>2. L + 1 - i \in T
    BY <1>3, <2>1
  <2> QED BY <2>1, <2>2
<1> QED BY <1>4

\* A function that takes a place and the value after it to the value there, and
\* one that follows it from base at the end.
StepOn(G, L, T) == G \in [(1..L) \X T -> T]
Follows(f, G, base, L, T) ==
  /\ f \in [1..(L + 1) -> T]
  /\ f[L + 1] = base /\ \A i \in 1..L : f[i] = G[<<i, f[i + 1]>>]

\* A function that is defined from its end on exists.
LEMMA BackwardRecursion ==
  ASSUME NEW L \in Nat, NEW T, NEW base \in T, NEW G, StepOn(G, L, T)
  PROVE  \E f : Follows(f, G, base, L, T)
<1> USE DEF StepOn
<1> DEFINE Good(k, f) == f[L + 1] = base /\ \A i \in k..L : f[i] = G[<<i, f[i + 1]>>]
           S == {k \in 1..(L + 1) : \E f \in [k..(L + 1) -> T] : Good(k, f)}
<1>1. L + 1 \in S
  <2> DEFINE f == [i \in (L + 1)..(L + 1) |-> base]
  <2>1. f \in [(L + 1)..(L + 1) -> T] /\ Good(L + 1, f)
    OBVIOUS
  <2> QED BY <2>1
<1>2. ASSUME NEW k \in 1..L, k + 1 \in S PROVE k \in S
  <2>1. PICK f \in [(k + 1)..(L + 1) -> T] : Good(k + 1, f)
    BY <1>2
  <2> DEFINE g == [i \in k..(L + 1) |-> IF i = k THEN G[<<k, f[k + 1]>>] ELSE f[i]]
  <2>2. f[k + 1] \in T /\ G[<<k, f[k + 1]>>] \in T
    OBVIOUS
  <2>3. g \in [k..(L + 1) -> T]
    <3>1. ASSUME NEW i \in k..(L + 1) PROVE (IF i = k THEN G[<<k, f[k + 1]>>] ELSE f[i]) \in T
      BY <2>2
    <3> QED BY <3>1
  <2>4. g[L + 1] = base
    BY <2>1
  <2>5. ASSUME NEW i \in k..L PROVE g[i] = G[<<i, g[i + 1]>>]
    <3>1. g[i + 1] = f[i + 1]
      OBVIOUS
    <3>2. CASE i = k
      <4>1. g[k] = G[<<k, f[k + 1]>>]
        OBVIOUS
      <4> HIDE DEF g
      <4> QED BY <3>1, <3>2, <4>1
    <3>3. CASE i # k
      <4>1. i \in (k + 1)..L /\ g[i] = f[i]
        BY <3>3
      <4> QED BY <2>1, <3>1, <4>1
    <3> QED BY <3>2, <3>3
  <2>6. Good(k, g)
    BY <2>4, <2>5
  <2> HIDE DEF Good, g
  <2> QED BY <2>3, <2>6
<1> HIDE DEF S
<1>3. 1 \in S
  BY <1>1, <1>2, CountingDown
<1> QED BY <1>3 DEF S, Follows

\* A set of indices is finite, and can be listed in increasing order.
LEMMA Enumeration ==
  ASSUME NEW L \in Nat, NEW S \in SUBSET (1..L)
  PROVE  /\ IsFiniteSet(S) /\ Cardinality(S) \in Nat
         /\ \E f \in [1..Cardinality(S) -> S] : 
               /\ \A m, n \in 1..Cardinality(S) : m < n => f[m] < f[n]
               /\ \A i \in S : \E n \in 1..Cardinality(S) : f[n] = i
<1> DEFINE Up(A, f) == /\ \A m, n \in 1..Cardinality(A) : m < n => f[m] < f[n]
                       /\ \A i \in A : \E n \in 1..Cardinality(A) : f[n] = i
           Q == {k \in Nat : \A A \in SUBSET (1..k) :
                   IsFiniteSet(A) /\ \E f \in [1..Cardinality(A) -> A] : Up(A, f)}
<1>1. 0 \in Q
  <2> SUFFICES ASSUME NEW A \in SUBSET (1..0)
               PROVE IsFiniteSet(A) /\ \E f \in [1..Cardinality(A) -> A] : Up(A, f)
    OBVIOUS
  <2>1. A = {} 
    OBVIOUS
  <2>2. IsFiniteSet(A) /\ Cardinality(A) = 0
    BY <2>1, FS_EmptySet
  <2> DEFINE f == [n \in 1..0 |-> 0]
  <2>3. f \in [1..Cardinality(A) -> A] /\ Up(A, f)
    BY <2>1, <2>2
  <2> QED BY <2>2, <2>3
<1>2. ASSUME NEW k \in Nat, k \in Q PROVE k + 1 \in Q
  <2> SUFFICES ASSUME NEW A \in SUBSET (1..(k + 1))
               PROVE IsFiniteSet(A) /\ \E f \in [1..Cardinality(A) -> A] : Up(A, f)
    OBVIOUS
  <2>1. CASE k + 1 \notin A
    <3>1. A \in SUBSET (1..k)
      BY <2>1
    <3> QED BY <3>1, <1>2
  <2>2. CASE k + 1 \in A
    <3> DEFINE B == A \ {k + 1}
    <3>1. B \in SUBSET (1..k)
      OBVIOUS
    <3>2. IsFiniteSet(B) /\ \E f \in [1..Cardinality(B) -> B] : Up(B, f)
      BY <3>1, <1>2
    <3>3. PICK f \in [1..Cardinality(B) -> B] : Up(B, f)
      BY <3>2
    <3>4. A = B \cup {k + 1} /\ k + 1 \notin B
      BY <2>2
    <3> HIDE DEF B
    <3>5. IsFiniteSet(A) /\ Cardinality(A) = Cardinality(B) + 1 /\ Cardinality(B) \in Nat
      BY <3>2, <3>4, FS_AddElement, FS_CardinalityType
    <3> DEFINE c == Cardinality(B)
    <3> HIDE DEF c
    <3>6. c \in Nat /\ Cardinality(A) = c + 1 /\ f \in [1..c -> B]
          /\ (\A m, n \in 1..c : m < n => f[m] < f[n])
          /\ (\A i \in B : \E n \in 1..c : f[n] = i)
      BY <3>3, <3>5 DEF c
    <3> DEFINE g == [n \in 1..(c + 1) |-> IF n = c + 1 THEN k + 1 ELSE f[n]]
    <3>7. g \in [1..(c + 1) -> A]
      <4>1. ASSUME NEW n \in 1..(c + 1) PROVE (IF n = c + 1 THEN k + 1 ELSE f[n]) \in A
        <5>1. n # c + 1 => n \in 1..c
          BY <3>6
        <5> QED BY <3>4, <3>6, <5>1
      <4> QED BY <4>1
    <3>8. \A n \in 1..c : f[n] \in 1..k
      BY <3>1, <3>6
    <3>9. ASSUME NEW m \in 1..(c + 1), NEW n \in 1..(c + 1), m < n PROVE g[m] < g[n]
      BY <3>6, <3>8, <3>9
    <3>10. ASSUME NEW i \in A PROVE \E n \in 1..(c + 1) : g[n] = i
      <4>1. CASE i = k + 1
        BY <4>1, <3>6
      <4>2. CASE i # k + 1
        <5>1. PICK n \in 1..c : f[n] = i
          BY <3>4, <3>6, <4>2
        <5>2. n \in 1..(c + 1) /\ g[n] = i
          BY <5>1, <3>6
        <5> QED BY <5>2
      <4> QED BY <4>1, <4>2
    <3>11. Up(A, g)
      BY <3>6, <3>9, <3>10
    <3> HIDE DEF Up, g
    <3> QED BY <3>5, <3>6, <3>7, <3>11
  <2> QED BY <2>1, <2>2
<1> HIDE DEF Q
<1>3. L \in Q
  BY <1>1, <1>2, Counting
<1>4. IsFiniteSet(S) /\ \E f \in [1..Cardinality(S) -> S] : Up(S, f)
  BY <1>3 DEF Q
<1> QED BY <1>4, FS_CardinalityType

-----------------------------------------------------------------------------
(* The walk and the projection.                                            *)

\* The activities there can be.
Names == Calls \cup {Legacy[i].call : i \in DOMAIN Legacy}
All == [call: Names, version: Nat, receivers: Seq(Agents)]

\* Min is the smallest member.
LEMMA MinOf ==
  ASSUME NEW S, S \subseteq Nat, S # {}
  PROVE  Min(S) \in S /\ \A n \in S : Min(S) <= n
BY Smallest DEF Min

\* What visiting an activity does: nothing, because no receiver is fresh or the
\* room is used up, or the activity is taken for a fresh receiver.
LEMMA VisitAlternatives ==
  ASSUME NEW acts \in Seq(All), NEW i \in 1..Len(acts), NEW newer
  PROVE  \/ /\ Visit(acts, i, newer) = newer
            /\ Receivers(acts[i]) \subseteq newer.seen \/ Cardinality(newer.taken) = MaxKept
         \/ /\ Cardinality(newer.taken) # MaxKept
            /\ \E r \in Receivers(acts[i]) : 
                  /\ r \in Agents /\ r \notin newer.seen
                  /\ Visit(acts, i, newer) = [seen |-> newer.seen \cup {r}, taken |-> newer.taken \cup {i}]
<1> DEFINE rs == acts[i].receivers
           fresh == {n \in DOMAIN rs : rs[n] \notin newer.seen}
<1>1. rs \in Seq(Agents) /\ DOMAIN rs = 1..Len(rs) /\ Len(rs) \in Nat
  <2>1. acts[i] \in All
    OBVIOUS
  <2>2. rs \in Seq(Agents)
    BY <2>1 DEF All
  <2> HIDE DEF rs
  <2> QED BY <2>2
<1>2. Visit(acts, i, newer) =
        IF fresh = {} \/ Cardinality(newer.taken) = MaxKept THEN newer
        ELSE [seen |-> newer.seen \cup {rs[Min(fresh)]}, taken |-> newer.taken \cup {i}]
  BY DEF Visit
<1>3. Receivers(acts[i]) = {rs[n] : n \in DOMAIN rs}
  BY DEF Receivers, Range
<1>4. CASE fresh = {} \/ Cardinality(newer.taken) = MaxKept
  <2>1. fresh = {} => Receivers(acts[i]) \subseteq newer.seen
    BY <1>3
  <2> HIDE DEF fresh
  <2> QED BY <1>2, <1>4, <2>1
<1>5. CASE ~(fresh = {} \/ Cardinality(newer.taken) = MaxKept)
  <2>1. Min(fresh) \in fresh
    <3>1. fresh \subseteq Nat
      BY <1>1
    <3> HIDE DEF fresh
    <3> QED BY <3>1, <1>5, MinOf
  <2>2. Min(fresh) \in DOMAIN rs /\ rs[Min(fresh)] \notin newer.seen
    BY <2>1
  <2>4. rs[Min(fresh)] \in Agents
    <3> HIDE DEF rs, fresh
    <3> QED BY <2>2, <1>1
  <2>3. rs[Min(fresh)] \in Receivers(acts[i])
    BY <1>3, <2>2
  <2> HIDE DEF fresh, rs
  <2> QED BY <1>2, <1>5, <2>2, <2>3, <2>4
<1> QED BY <1>4, <1>5

\* What the walk has seen and taken.
Progress(L) == [seen: SUBSET Agents, taken: SUBSET (1..L)]

\* A visit keeps the type.
LEMMA WalkStep ==
  ASSUME NEW acts \in Seq(All), NEW i \in 1..Len(acts), NEW newer \in Progress(Len(acts))
  PROVE  Visit(acts, i, newer) \in Progress(Len(acts))
BY VisitAlternatives DEF Progress

\* The walk of bounded_projection is what its recursive definition says.
LEMMA WalkWorks ==
  ASSUME NEW acts \in Seq(All)
  PROVE  /\ Walk(acts) \in [1..(Len(acts) + 1) -> Progress(Len(acts))]
         /\ Walk(acts)[Len(acts) + 1] = [seen |-> {}, taken |-> {}]
         /\ \A i \in 1..Len(acts) : Walk(acts)[i] = Visit(acts, i, Walk(acts)[i + 1])
<1> DEFINE L == Len(acts)
           base == [seen |-> {}, taken |-> {}]
           Def(w) == [i \in 1..(L + 1) |-> IF i = L + 1 THEN base ELSE Visit(acts, i, w[i + 1])]
           G == [x \in (1..L) \X Progress(L) |-> Visit(acts, x[1], x[2])]
<1>1. L \in Nat /\ base \in Progress(L)
  BY DEF Progress
<1>2. G \in [(1..L) \X Progress(L) -> Progress(L)]
  BY WalkStep
<1>3. PICK f \in [1..(L + 1) -> Progress(L)] :
        f[L + 1] = base /\ \A i \in 1..L : f[i] = G[<<i, f[i + 1]>>]
  <2> DEFINE T == Progress(L)
  <2>1. L \in Nat /\ base \in T /\ StepOn(G, L, T)
    BY <1>1, <1>2 DEF StepOn
  <2> HIDE DEF L, base, G, T
  <2>2. \E f : Follows(f, G, base, L, T)
    BY <2>1, BackwardRecursion
  <2> QED BY <2>2 DEF T, Follows
<1>4. ASSUME NEW i \in 1..L PROVE f[i] = Visit(acts, i, f[i + 1])
  <2>1. <<i, f[i + 1]>> \in (1..L) \X Progress(L)
    BY <1>1
  <2>2. G[<<i, f[i + 1]>>] = Visit(acts, i, f[i + 1])
    BY <2>1
  <2> HIDE DEF G, L
  <2> QED BY <1>3, <2>2
<1>5. f = Def(f)
  <2>1. \A i \in 1..(L + 1) : i # L + 1 => i \in 1..L
    BY <1>1
  <2> HIDE DEF L, base
  <2> QED BY <1>3, <1>4, <2>1
<1>6. Walk(acts) = CHOOSE w : w = Def(w)
  BY DEF Walk
<1> HIDE DEF Def
<1>7. Walk(acts) = Def(Walk(acts))
  BY <1>5, <1>6, Zenon
<1> USE DEF Def
<1> DEFINE w == Walk(acts)
<1> HIDE DEF w
<1>8. w = Def(w)
  BY <1>7 DEF w
<1>9. w[L + 1] = base /\ \A i \in 1..L : w[i] = Visit(acts, i, w[i + 1])
  <2>1. \A i \in 1..(L + 1) : w[i] = IF i = L + 1 THEN base ELSE Visit(acts, i, w[i + 1])
    BY <1>8
  <2>2. L + 1 \in 1..(L + 1) /\ \A i \in 1..L : i \in 1..(L + 1) /\ i # L + 1
    BY <1>1
  <2> HIDE DEF L, base, Def
  <2> QED BY <2>1, <2>2
<1>10. w \in [1..(L + 1) -> Progress(L)]
  <2> DEFINE S == {i \in 1..(L + 1) : w[i] \in Progress(L)}
  <2> HIDE DEF L, Def
  <2>1. L + 1 \in S
    BY <1>1, <1>9
  <2>2. ASSUME NEW i \in 1..L, i + 1 \in S PROVE i \in S
    <3>1. i \in 1..(L + 1) /\ w[i] = Visit(acts, i, w[i + 1]) /\ w[i + 1] \in Progress(L)
      BY <1>1, <1>9, <2>2
    <3> QED BY <3>1, WalkStep DEF L
  <2> HIDE DEF S
  <2>3. 1..(L + 1) \subseteq S
    BY <1>1, <2>1, <2>2, CountingDown
  <2>4. \A i \in 1..(L + 1) : w[i] \in Progress(L)
    BY <2>3 DEF S
  <2>5. w = [i \in 1..(L + 1) |-> w[i]]
    BY <1>8 DEF Def
  <2> QED BY <2>4, <2>5
<1> QED BY <1>9, <1>10 DEF w

\* What it has when it has come to i.
WalkInv(acts, i, w) ==
  /\ w.taken \subseteq i..Len(acts)
  /\ IsFiniteSet(w.seen) /\ IsFiniteSet(w.taken)
  /\ Cardinality(w.seen) = Cardinality(w.taken) /\ Cardinality(w.taken) <= MaxKept
  /\ \A r \in w.seen : \E k \in i..Len(acts) : r \in Receivers(acts[k])

\* At every place as many activities are taken as agents seen, all at that place
\* or newer.
LEMMA WalkCounts ==
  ASSUME NEW acts \in Seq(All)
  PROVE  \A i \in 1..(Len(acts) + 1) : WalkInv(acts, i, Walk(acts)[i])
<1> DEFINE L == Len(acts)
           w == Walk(acts)
           S == {i \in 1..(L + 1) : WalkInv(acts, i, w[i])}
<1>1. /\ w \in [1..(L + 1) -> Progress(L)] /\ L \in Nat
      /\ w[L + 1] = [seen |-> {}, taken |-> {}]
      /\ \A i \in 1..L : w[i] = Visit(acts, i, w[i + 1])
  BY WalkWorks
<1> HIDE DEF w
<1>2. L + 1 \in S
  <2>1. WalkInv(acts, L + 1, [seen |-> {}, taken |-> {}])
    BY FS_EmptySet, MaxKeptAssumption DEF WalkInv
  <2> QED BY <1>1, <2>1
<1>3. ASSUME NEW i \in 1..L, i + 1 \in S PROVE i \in S
  <2> DEFINE old == w[i + 1]
             new == w[i]
  <2>1. WalkInv(acts, i + 1, old) /\ new = Visit(acts, i, old) /\ new \in Progress(L) /\ old \in Progress(L)
    BY <1>1, <1>3
  <2> HIDE DEF old, new
  <2>2. CASE new = old
    BY <2>1, <2>2, <1>1 DEF WalkInv, new
  <2>3. CASE new # old
    <3>1. PICK r \in Receivers(acts[i]) :
            /\ Cardinality(old.taken) # MaxKept
            /\ r \notin old.seen
            /\ new = [seen |-> old.seen \cup {r}, taken |-> old.taken \cup {i}]
      BY <2>1, <2>3, VisitAlternatives
    <3>2. i \notin old.taken
      BY <2>1, <1>1 DEF WalkInv
    <3>3. /\ IsFiniteSet(new.seen) /\ Cardinality(new.seen) = Cardinality(old.seen) + 1
          /\ IsFiniteSet(new.taken) /\ Cardinality(new.taken) = Cardinality(old.taken) + 1
          /\ Cardinality(old.taken) \in Nat
      BY <3>1, <3>2, <2>1, FS_AddElement, FS_CardinalityType DEF WalkInv
    <3>4. WalkInv(acts, i, new)
      BY <1>1, <2>1, <3>1, <3>3, MaxKeptAssumption DEF WalkInv
    <3> QED BY <1>1, <3>4 DEF new
  <2> QED BY <2>2, <2>3
<1> HIDE DEF S
<1>4. 1..(L + 1) \subseteq S
  BY <1>1, <1>2, <1>3, CountingDown
<1> QED BY <1>4 DEF S, w

\* The last activity about an agent.
LastAbout(acts, agent, m) ==
  /\ m \in 1..Len(acts) /\ agent \in Receivers(acts[m])
  /\ \A k \in 1..Len(acts) : agent \in Receivers(acts[k]) => k <= m

\* No more activities are taken than there is room for.
LEMMA LatestBounded ==
  ASSUME NEW acts \in Seq(All)
  PROVE  /\ Latest(acts) \in SUBSET (1..Len(acts)) /\ IsFiniteSet(Latest(acts))
         /\ Cardinality(Latest(acts)) \in Nat /\ Cardinality(Latest(acts)) <= MaxKept
<1>1. 1 \in 1..(Len(acts) + 1)
  OBVIOUS
<1>2. WalkInv(acts, 1, Walk(acts)[1])
  BY <1>1, WalkCounts
<1> QED BY <1>2, FS_CardinalityType DEF WalkInv, Latest

\* What was taken stays taken.
LEMMA TakenOnce ==
  ASSUME NEW acts \in Seq(All), NEW m \in 1..Len(acts), m \in Walk(acts)[m].taken
  PROVE  m \in Latest(acts)
<1> DEFINE w == Walk(acts)
           S == {n \in Nat : n >= m \/ m \in w[m - n].taken}
<1>1. \A i \in 1..Len(acts) : w[i] = Visit(acts, i, w[i + 1]) 
  BY WalkWorks
<1>2. ASSUME NEW i \in 1..Len(acts) PROVE w[i + 1].taken \subseteq w[i].taken
  <2>1. w[i] = Visit(acts, i, w[i + 1])
    BY <1>1
  <2> QED BY <2>1, VisitAlternatives
<1> HIDE DEF w
<1>3. 0 \in S
  <2>1. m - 0 = m
    OBVIOUS
  <2> QED BY <2>1 DEF w
<1>4. ASSUME NEW n \in Nat, n \in S PROVE n + 1 \in S
  <2>1. CASE n + 1 >= m
    BY <2>1
  <2>2. CASE n + 1 < m
    <3>1. m - (n + 1) \in 1..Len(acts) /\ (m - (n + 1)) + 1 = m - n /\ ~(n >= m)
      BY <2>2
    <3>2. m \in w[m - n].taken
      BY <1>4, <3>1
    <3> QED BY <1>2, <3>1, <3>2
  <2> QED BY <2>1, <2>2
<1> HIDE DEF S
<1>5. m - 1 \in S
  <2>1. m - 1 \in Nat
    OBVIOUS
  <2> QED BY <2>1, <1>3, <1>4, Counting
<1>6. m \in w[1].taken
  <2>1. m - (m - 1) = 1 /\ ~(m - 1 >= m)
    OBVIOUS
  <2> QED BY <2>1, <1>5 DEF S
<1> QED BY <1>6 DEF w, Latest

\* If there is room for all agents, the last activity about one is taken.
LEMMA LatestTakes ==
  ASSUME NEW acts \in Seq(All), Cardinality(Agents) <= MaxKept,
         NEW agent \in Agents, NEW m, LastAbout(acts, agent, m)
  PROVE  m \in Latest(acts)
<1> DEFINE newer == Walk(acts)[m + 1]
<1>1. /\ m \in 1..Len(acts) /\ agent \in Receivers(acts[m])
      /\ \A k \in 1..Len(acts) : agent \in Receivers(acts[k]) => k <= m
      /\ m + 1 \in 1..(Len(acts) + 1)
  BY DEF LastAbout
<1>2. /\ newer \in Progress(Len(acts)) /\ Walk(acts)[m] = Visit(acts, m, newer)
      /\ WalkInv(acts, m + 1, newer)
  BY <1>1, WalkWorks, WalkCounts
<1> HIDE DEF newer
<1>3. agent \notin newer.seen
  <2> SUFFICES ASSUME agent \in newer.seen PROVE FALSE
    OBVIOUS
  <2>1. PICK k \in (m + 1)..Len(acts) : agent \in Receivers(acts[k])
    BY <1>2 DEF WalkInv
  <2>2. k \in 1..Len(acts) /\ ~(k <= m)
    BY <1>1
  <2> QED BY <1>1, <2>1, <2>2
<1>4. Cardinality(newer.taken) # MaxKept
  <2>1. newer.seen \in SUBSET (Agents \ {agent})
    BY <1>2, <1>3 DEF Progress
  <2>2. /\ IsFiniteSet(Agents \ {agent}) 
        /\ Cardinality(Agents \ {agent}) = Cardinality(Agents) - 1
    BY AgentsAssumption, FS_RemoveElement
  <2>3. Cardinality(newer.seen) <= Cardinality(Agents \ {agent})
    BY <2>1, <2>2, FS_Subset
  <2>4. Cardinality(newer.seen) \in Nat /\ Cardinality(Agents) \in Nat /\ MaxKept \in Nat
    BY <1>2, AgentsAssumption, MaxKeptAssumption, FS_CardinalityType DEF WalkInv
  <2>5. Cardinality(newer.seen) = Cardinality(newer.taken)
    BY <1>2 DEF WalkInv
  <2> QED BY <2>2, <2>3, <2>4, <2>5
<1>5. m \in Walk(acts)[m].taken
  <2>1. PICK r \in Receivers(acts[m]) :
          Visit(acts, m, newer) = [seen |-> newer.seen \cup {r}, taken |-> newer.taken \cup {m}]
    BY <1>1, <1>3, <1>4, VisitAlternatives
  <2> QED BY <1>2, <2>1
<1> QED BY <1>1, <1>5, TakenOnce

\* Fewer than k larger members: there are at most k of those.
LEMMA FewNewest ==
  ASSUME NEW L \in Nat, NEW others \in SUBSET (1..L), NEW k \in Int
  PROVE  LET F == {i \in others : Cardinality({j \in others : j > i}) < k} IN
         IsFiniteSet(F) /\ Cardinality(F) \in Nat /\ (Cardinality(F) <= k \/ F = {})
<1> DEFINE above(i) == {j \in others : j > i}
           F == {i \in others : Cardinality(above(i)) < k}
<1>1. IsFiniteSet(F) /\ Cardinality(F) \in Nat
  <2>1. F \in SUBSET (1..L)
    OBVIOUS
  <2> QED BY <2>1, Enumeration
<1>2. ASSUME F # {} PROVE Cardinality(F) <= k
  <2>0. F \subseteq Nat
    <3>1. F \subseteq others /\ others \subseteq 1..L /\ 1..L \subseteq Nat
      OBVIOUS
    <3> QED BY <3>1
  <2>1. PICK i \in F : \A j \in F : i <= j
    <3> HIDE DEF F
    <3> QED BY <1>2, <2>0, Smallest
  <2>2. /\ IsFiniteSet(F \ {i}) /\ Cardinality(F \ {i}) = Cardinality(F) - 1
    BY <1>1, FS_RemoveElement
  <2>3. F \ {i} \in SUBSET above(i)
    <3>1. ASSUME NEW j \in F \ {i} PROVE j \in others /\ j > i
      <4>1. j \in Nat /\ i \in Nat /\ i <= j /\ i # j
        BY <2>0, <2>1
      <4> QED BY <4>1
    <3> QED BY <3>1
  <2>4. above(i) \in SUBSET (1..L)
    OBVIOUS
  <2>5. IsFiniteSet(above(i)) /\ Cardinality(above(i)) \in Nat
    BY <2>4, Enumeration
  <2>6. Cardinality(F \ {i}) <= Cardinality(above(i))
    BY <2>3, <2>5, FS_Subset
  <2>7. Cardinality(above(i)) < k
    OBVIOUS
  <2> HIDE DEF F, above
  <2> QED BY <1>1, <2>2, <2>5, <2>6, <2>7
<1> QED BY <1>1, <1>2

\* P is the part of acts at the places of order, and has the last one about every
\* agent.
Selection(acts, P, order) ==
  /\ P \in Seq(All) /\ Len(P) <= Len(acts) /\ Len(P) <= MaxKept
  /\ order \in [1..Len(P) -> 1..Len(acts)]
  /\ \A m, n \in 1..Len(P) : m < n => order[m] < order[n]
  /\ \A n \in 1..Len(P) : P[n] = acts[order[n]]
  /\ Cardinality(Agents) <= MaxKept =>
       \A agent \in Agents, m \in 1..Len(acts) :
         LastAbout(acts, agent, m) => \E n \in 1..Len(P) : order[n] = m

\* bounded_projection is an ordered part of the activities within the limit that
\* has the last one about every agent, if there is room for all agents.
LEMMA ProjectionSelects ==
  ASSUME NEW acts \in Seq(All)
  PROVE  \E order : Selection(acts, BoundedProjection(acts), order)
<1>1. CASE Len(acts) <= MaxKept
  <2> DEFINE order == [n \in 1..Len(acts) |-> n]
  <2>1. Selection(acts, acts, order)
    BY <1>1 DEF Selection
  <2>2. BoundedProjection(acts) = acts
    BY <1>1 DEF BoundedProjection
  <2> HIDE DEF order
  <2> QED BY <2>1, <2>2
<1>2. CASE ~(Len(acts) <= MaxKept)
  <2> DEFINE L == Len(acts)
             taken == Latest(acts)
             others == (1..L) \ taken
             room == MaxKept - Cardinality(taken)
             F == Filling(acts, taken)
             S == taken \cup F
             K == Cardinality(S)
             order == Sorted(S)
             P == [n \in DOMAIN order |-> acts[order[n]]]
  <2>1. BoundedProjection(acts) = P
    BY <1>2 DEF BoundedProjection
  <2>2. L \in Nat /\ acts \in [1..L -> All] /\ MaxKept \in Nat
    BY MaxKeptAssumption
  <2>3. /\ taken \in SUBSET (1..L) /\ IsFiniteSet(taken)
        /\ Cardinality(taken) \in Nat /\ Cardinality(taken) <= MaxKept
    BY LatestBounded
  <2>4. F = {i \in others : Cardinality({j \in others : j > i}) < room}
    BY DEF Filling
  <2> HIDE DEF taken, L
  <2>5. room \in Int /\ others \in SUBSET (1..L)
    BY <2>2, <2>3
  <2>6. F \in SUBSET (1..L)
    <3> HIDE DEF F, room
    <3> QED BY <2>4, <2>5
  <2>7. IsFiniteSet(F) /\ Cardinality(F) \in Nat /\ (Cardinality(F) <= room \/ F = {})
    <3> HIDE DEF F, room, others
    <3> QED BY <2>2, <2>4, <2>5, FewNewest
  <2> HIDE DEF F
  <2>8. S \in SUBSET (1..L) /\ taken \subseteq S
    BY <2>3, <2>6
  <2>9. K \in Nat /\ K <= MaxKept
    <3>1. Cardinality(F) <= room
      BY <2>2, <2>3, <2>7, FS_EmptySet
    <3>2. taken \cap F = {}
      <4> HIDE DEF room
      <4> QED BY <2>4
    <3>3. Cardinality(taken \cap F) = 0
      BY <3>2, FS_EmptySet
    <3>4. IsFiniteSet(S) /\ K = Cardinality(taken) + Cardinality(F) - Cardinality(taken \cap F)
      BY <2>3, <2>7, FS_Union
    <3> HIDE DEF S
    <3> QED BY <2>2, <2>3, <2>7, <3>1, <3>3, <3>4
  <2> HIDE DEF S
  <2>10. \E f \in [1..K -> S] : 
            /\ \A m, n \in 1..K : m < n => f[m] < f[n]
            /\ \A i \in S : \E n \in 1..K : f[n] = i
    BY <2>2, <2>8, Enumeration
  <2>11. order \in [1..K -> S] /\ \A m, n \in 1..K : m < n => order[m] < order[n]
    BY <2>10 DEF Sorted
  <2> HIDE DEF order, K
  <2>12. P = [n \in 1..K |-> acts[order[n]]]
    BY <2>11
  <2> HIDE DEF P
  <2>13. \A n \in 1..K : order[n] \in 1..L /\ acts[order[n]] \in All
    BY <2>2, <2>8, <2>11
  <2>14. P \in Seq(All) /\ Len(P) = K /\ \A n \in 1..K : P[n] = acts[order[n]]
    BY <2>9, <2>12, <2>13
  <2>15. \A i \in S : \E n \in 1..K : order[n] = i
    <3>1. order \in Injection(1..K, S)
      <4>1. ASSUME NEW m \in 1..K, NEW n \in 1..K, order[m] = order[n] PROVE m = n
        <5>1. order[m] \in Nat /\ order[n] \in Nat
          BY <2>13
        <5> QED BY <2>11, <2>9, <4>1, <5>1
      <4> QED BY <2>11, <4>1 DEF Injection, IsInjective
    <3>2. IsFiniteSet(S) /\ IsFiniteSet(1..K) /\ Cardinality(1..K) = K /\ Cardinality(S) = K
      <4>1. IsFiniteSet(S)
        BY <2>2, <2>8, Enumeration
      <4>2. IsFiniteSet(1..K) /\ Cardinality(1..K) = IF 1 > K THEN 0 ELSE K - 1 + 1
        BY <2>9, FS_Interval
      <4> QED BY <2>9, <4>1, <4>2 DEF K
    <3>3. order \in Surjection(1..K, S)
      BY <3>1, <3>2, FS_Injection
    <3> QED BY <3>3 DEF Surjection
  <2>16. ASSUME Cardinality(Agents) <= MaxKept, NEW agent \in Agents, NEW m \in 1..L, LastAbout(acts, agent, m)
         PROVE  \E n \in 1..K : order[n] = m
    BY <2>8, <2>15, <2>16, LatestTakes DEF taken
  <2>17. Selection(acts, P, order)
    <3>1. Len(P) <= Len(acts) /\ Len(P) <= MaxKept
      BY <2>2, <2>9, <2>14, <1>2 DEF L
    <3> QED BY <2>11, <2>8, <2>13, <2>14, <2>16, <3>1 DEF Selection, L
  <2> QED BY <2>1, <2>17
<1> QED BY <1>1, <1>2
-----------------------------------------------------------------------------
(* The document as a part of what it was given.                            *)

\* An activity of s that none of the same call follows, those about an agent, and
\* the newest of these.
LiveIn(s, i) == ~\E j \in DOMAIN s : j > i /\ s[j].call = s[i].call
AboutIn(s, agent) == {i \in DOMAIN s : agent \in Receivers(s[i]) /\ LiveIn(s, i)}
IsNewest(s, agent, i) == i \in AboutIn(s, agent) /\ \A j \in AboutIn(s, agent) : j <= i

\* k is the part of s at the places at, all live.
Embeds(s, k, at) ==
  /\ at \in [1..Len(k) -> 1..Len(s)]
  /\ \A m, n \in 1..Len(k) : m < n => at[m] < at[n]
  /\ \A n \in 1..Len(k) : k[n] = s[at[n]] /\ LiveIn(s, at[n])

\* The newest about the agent is among them.
Shows(s, k, at, agent) ==
  \A i \in 1..Len(s) : IsNewest(s, agent, i) => \E n \in 1..Len(k) : at[n] = i

\* A part of a part of what was given: the places compose.
LEMMA Projected ==
  ASSUME NEW s \in Seq(All), NEW acts \in Seq(All), NEW at, Embeds(s, acts, at),
         NEW P, NEW order, Selection(acts, P, order)
  PROVE  LET to == [n \in 1..Len(P) |-> at[order[n]]] IN
         /\ Embeds(s, P, to)
         /\ Cardinality(Agents) <= MaxKept =>
              \A agent \in Agents : Shows(s, acts, at, agent) => Shows(s, P, to, agent)
<1> DEFINE to == [n \in 1..Len(P) |-> at[order[n]]]
<1>1. /\ P \in Seq(All) /\ Len(P) \in Nat /\ Len(acts) \in Nat /\ Len(s) \in Nat
      /\ order \in [1..Len(P) -> 1..Len(acts)]
      /\ \A m, n \in 1..Len(P) : m < n => order[m] < order[n]
      /\ \A n \in 1..Len(P) : P[n] = acts[order[n]]
  BY DEF Selection
<1>2. /\ at \in [1..Len(acts) -> 1..Len(s)]
      /\ \A m, n \in 1..Len(acts) : m < n => at[m] < at[n]
      /\ \A n \in 1..Len(acts) : acts[n] = s[at[n]] /\ LiveIn(s, at[n])
  BY DEF Embeds
<1>3. Embeds(s, P, to)
  <2>1. to \in [1..Len(P) -> 1..Len(s)]
    BY <1>1, <1>2
  <2>2. ASSUME NEW m \in 1..Len(P), NEW n \in 1..Len(P), m < n PROVE to[m] < to[n]
    BY <1>1, <1>2, <2>2
  <2>3. ASSUME NEW n \in 1..Len(P) PROVE P[n] = s[to[n]] /\ LiveIn(s, to[n])
    BY <1>1, <1>2
  <2> QED BY <2>1, <2>2, <2>3 DEF Embeds
<1>4. ASSUME Cardinality(Agents) <= MaxKept, NEW agent \in Agents, Shows(s, acts, at, agent),
             NEW i \in 1..Len(s), IsNewest(s, agent, i)
      PROVE  \E n \in 1..Len(P) : to[n] = i
  <2>1. PICK m \in 1..Len(acts) : at[m] = i
    BY <1>4 DEF Shows
  <2>2. /\ agent \in Receivers(s[i])
        /\ \A j \in 1..Len(s) : agent \in Receivers(s[j]) /\ LiveIn(s, j) => j <= i
    BY <1>4 DEF IsNewest, AboutIn
  <2>3. ASSUME NEW k \in 1..Len(acts), agent \in Receivers(acts[k]) PROVE k <= m
    <3>1. at[k] \in 1..Len(s) /\ agent \in Receivers(s[at[k]]) /\ LiveIn(s, at[k])
      BY <1>2, <2>3
    <3>2. at[k] <= at[m]
      BY <2>1, <2>2, <3>1
    <3>3. m < k => at[m] < at[k]
      BY <1>2
    <3>4. at[m] \in 1..Len(s) /\ at[k] \in 1..Len(s) /\ m \in Nat /\ k \in Nat
      BY <1>2
    <3> QED BY <1>1, <3>2, <3>3, <3>4
  <2>4. agent \in Receivers(acts[m])
    BY <1>2, <2>1, <2>2
  <2>5. LastAbout(acts, agent, m)
    BY <2>3, <2>4 DEF LastAbout
  <2>6. PICK n \in 1..Len(P) : order[n] = m
    BY <1>4, <2>5 DEF Selection
  <2> QED BY <2>1, <2>6
<1> HIDE DEF to
<1>5. ASSUME Cardinality(Agents) <= MaxKept, NEW agent \in Agents, Shows(s, acts, at, agent)
      PROVE  Shows(s, P, to, agent)
  BY <1>4, <1>5 DEF Shows
<1> QED BY <1>3, <1>5 DEF to

\* What removing one element leaves.
LEMMA Removed ==
  ASSUME NEW k \in Seq(All), NEW p \in 1..Len(k)
  PROVE  /\ RemoveAt(k, p) \in Seq(All) /\ Len(RemoveAt(k, p)) = Len(k) - 1
         /\ \A n \in 1..(Len(k) - 1) : RemoveAt(k, p)[n] = IF n < p THEN k[n] ELSE k[n + 1]
<1> DEFINE l == SubSeq(k, 1, p - 1)
           r == SubSeq(k, p + 1, Len(k))
<1>1. l \in Seq(All) /\ Len(l) = p - 1 /\ \A n \in 1..(p - 1) : l[n] = k[n]
  OBVIOUS
<1>2. r \in Seq(All) /\ Len(r) = Len(k) - p /\ \A n \in 1..(Len(k) - p) : r[n] = k[n + p]
  OBVIOUS
<1>3. RemoveAt(k, p) = l \o r
  BY DEF RemoveAt
<1> HIDE DEF l, r
<1>4. l \o r \in Seq(All) /\ Len(l \o r) = Len(k) - 1
  BY <1>1, <1>2
<1>5. ASSUME NEW n \in 1..(Len(k) - 1) PROVE (l \o r)[n] = IF n < p THEN k[n] ELSE k[n + 1]
  <2>1. CASE n < p
    BY <1>1, <1>2, <2>1
  <2>2. CASE ~(n < p)
    <3>1. (l \o r)[n] = r[n - (p - 1)]
      BY <1>1, <1>2, <2>2
    <3>2. n - (p - 1) \in 1..(Len(k) - p) /\ (n - (p - 1)) + p = n + 1
      BY <2>2
    <3> QED BY <1>2, <2>2, <3>1, <3>2
  <2> QED BY <2>1, <2>2
<1> QED BY <1>3, <1>4, <1>5

\* apply_activity replaces an activity of the same call, or appends.
LEMMA PushForms ==
  ASSUME NEW k \in Seq(All), NEW a
  PROVE  \/ (\A i \in 1..Len(k) : k[i].call # a.call) /\ Push(k, a) = Append(k, a)
         \/ \E p \in 1..Len(k) : k[p].call = a.call /\ Push(k, a) = Append(RemoveAt(k, p), a)
<1> DEFINE same == {i \in 1..Len(k) : k[i].call = a.call}
<1>1. CASE same = {}
  BY <1>1 DEF Push, RemoveFirstMatch
<1>2. CASE same # {}
  <2>1. Min(same) \in same
    <3>1. same \subseteq Nat
      OBVIOUS
    <3> HIDE DEF same
    <3> QED BY <1>2, <3>1, MinOf
  <2>2. Push(k, a) = Append(RemoveAt(k, Min(same)), a)
    BY <1>2 DEF Push, RemoveFirstMatch, SelectInSeq
  <2> HIDE DEF same
  <2>3. Min(same) \in 1..Len(k) /\ k[Min(same)].call = a.call
    BY <2>1 DEF same
  <2> QED BY <2>2, <2>3
<1> QED BY <1>1, <1>2
\* What a replaces does not name an agent that a does not name.
Replaces(s, a, agent) ==
  \A j \in 1..Len(s) : s[j].call = a.call /\ agent \in Receivers(s[j]) => agent \in Receivers(a)

\* Who is still live after an activity was given.
LEMMA LiveAfter ==
  ASSUME NEW s \in Seq(All), NEW a \in All, NEW i \in 1..Len(s)
  PROVE  LiveIn(Append(s, a), i) <=> LiveIn(s, i) /\ s[i].call # a.call
<1> DEFINE t == Append(s, a)
<1>1. t \in Seq(All) /\ Len(t) = Len(s) + 1 /\ t[Len(s) + 1] = a /\ \A j \in 1..Len(s) : t[j] = s[j]
  OBVIOUS
<1> HIDE DEF t
<1>2. DOMAIN t = 1..(Len(s) + 1) /\ DOMAIN s = 1..Len(s) /\ Len(s) \in Nat
  BY <1>1
<1>3. ASSUME LiveIn(s, i), s[i].call # a.call PROVE LiveIn(t, i)
  BY <1>1, <1>2, <1>3 DEF LiveIn
<1>4. ASSUME LiveIn(t, i) PROVE LiveIn(s, i) /\ s[i].call # a.call
  <2>1. \A j \in 1..(Len(s) + 1) : j > i => t[j].call # t[i].call
    BY <1>2, <1>4 DEF LiveIn
  <2>2. t[i] = s[i] /\ Len(s) + 1 \in 1..(Len(s) + 1) /\ Len(s) + 1 > i
    BY <1>1, <1>2
  <2>3. s[i].call # a.call
    BY <1>1, <2>1, <2>2
  <2>4. ASSUME NEW j \in 1..Len(s), j > i PROVE s[j].call # s[i].call
    BY <1>1, <1>2, <2>1, <2>2, <2>4
  <2> QED BY <1>2, <2>3, <2>4 DEF LiveIn
<1> QED BY <1>3, <1>4 DEF t

\* An older activity that is the newest about an agent was so before.
LEMMA NewestAfter ==
  ASSUME NEW s \in Seq(All), NEW a \in All, NEW agent, Replaces(s, a, agent),
         NEW i \in 1..(Len(s) + 1), IsNewest(Append(s, a), agent, i), i # Len(s) + 1
  PROVE  IsNewest(s, agent, i) /\ s[i].call # a.call
<1> DEFINE t == Append(s, a)
<1>1. t \in Seq(All) /\ Len(t) = Len(s) + 1 /\ t[Len(s) + 1] = a /\ \A j \in 1..Len(s) : t[j] = s[j]
  OBVIOUS
<1>2. DOMAIN t = 1..(Len(s) + 1) /\ DOMAIN s = 1..Len(s) /\ Len(s) \in Nat /\ i \in 1..Len(s)
  BY <1>1
<1>3. \A j \in 1..Len(s) : LiveIn(t, j) <=> LiveIn(s, j) /\ s[j].call # a.call
  BY LiveAfter
<1>4. /\ LiveIn(t, i) /\ agent \in Receivers(t[i])
      /\ \A j \in 1..(Len(s) + 1) : agent \in Receivers(t[j]) /\ LiveIn(t, j) => j <= i
  BY <1>2 DEF IsNewest, AboutIn
<1> HIDE DEF t
<1>5. LiveIn(t, Len(s) + 1)
  BY <1>2 DEF LiveIn
<1>6. agent \notin Receivers(a)
  BY <1>1, <1>2, <1>4, <1>5
<1>7. LiveIn(s, i) /\ s[i].call # a.call /\ agent \in Receivers(s[i])
  BY <1>1, <1>2, <1>3, <1>4
<1>8. ASSUME NEW j \in 1..Len(s), agent \in Receivers(s[j]), LiveIn(s, j) PROVE j <= i
  <2>1. s[j].call # a.call
    BY <1>6, <1>8 DEF Replaces
  <2> QED BY <1>1, <1>2, <1>3, <1>4, <1>8, <2>1
<1> QED BY <1>2, <1>7, <1>8 DEF IsNewest, AboutIn

\* rest is what is left of k without the activities of a's call.
Leaves(k, a, rest, from) ==
  /\ from \in [1..Len(rest) -> 1..Len(k)]
  /\ \A m, n \in 1..Len(rest) : m < n => from[m] < from[n]
  /\ \A n \in 1..Len(rest) : rest[n] = k[from[n]] /\ rest[n].call # a.call
  /\ \A m \in 1..Len(k) : k[m].call # a.call => \E n \in 1..Len(rest) : from[n] = m

\* apply_activity leaves an ordered part of what was given, with the newest about
\* an agent, if the activity it replaces does not take an agent away.
LEMMA Pushed ==
  ASSUME NEW s \in Seq(All), NEW k \in Seq(All), NEW at, Embeds(s, k, at), NEW a \in All
  PROVE  /\ Push(k, a) \in Seq(All)
         /\ \E to : /\ Embeds(Append(s, a), Push(k, a), to)
                    /\ \A agent : Replaces(s, a, agent) /\ Shows(s, k, at, agent) =>
                                    Shows(Append(s, a), Push(k, a), to, agent)
<1> DEFINE t == Append(s, a)
           L == Len(s)
<1>1. /\ t \in Seq(All) /\ Len(t) = L + 1 /\ t[L + 1] = a /\ L \in Nat
      /\ \A j \in 1..L : t[j] = s[j]
  OBVIOUS
<1>2. DOMAIN t = 1..(L + 1) /\ DOMAIN s = 1..L /\ Len(k) \in Nat
  BY <1>1
<1>3. \A j \in 1..L : LiveIn(t, j) <=> LiveIn(s, j) /\ s[j].call # a.call
  BY LiveAfter
<1>4. LiveIn(t, L + 1)
  BY <1>1, <1>2 DEF LiveIn
<1>5. \A agent : \A i \in 1..(L + 1) : Replaces(s, a, agent) /\ IsNewest(t, agent, i) /\ i # L + 1
        => IsNewest(s, agent, i) /\ s[i].call # a.call
  BY NewestAfter
<1>6. /\ at \in [1..Len(k) -> 1..L]
      /\ \A m, n \in 1..Len(k) : m < n => at[m] < at[n]
      /\ \A n \in 1..Len(k) : k[n] = s[at[n]] /\ LiveIn(s, at[n])
  BY DEF Embeds
<1> HIDE DEF t
<1> DEFINE Goal(q) == /\ q \in Seq(All)
                      /\ \E to : /\ Embeds(t, q, to)
                                 /\ \A agent : Replaces(s, a, agent) /\ Shows(s, k, at, agent) =>
                                                  Shows(t, q, to, agent)
<1> SUFFICES Goal(Push(k, a))
  BY DEF t
<1>7. ASSUME NEW rest \in Seq(All), NEW from, Leaves(k, a, rest, from)
      PROVE  Goal(Append(rest, a))
  <2> DEFINE q == Append(rest, a)
             R == Len(rest)
             to == [n \in 1..(R + 1) |-> IF n = R + 1 THEN L + 1 ELSE at[from[n]]]
  <2>1. q \in Seq(All) /\ Len(q) = R + 1 /\ R \in Nat /\ q[R + 1] = a /\ \A n \in 1..R : q[n] = rest[n]
    OBVIOUS
  <2> HIDE DEF q, L, R
  <2>2. \A n \in 1..(R + 1) : n = R + 1 \/ n \in 1..R
    BY <2>1
  <2>3. \A n \in 1..R : from[n] \in 1..Len(k) /\ at[from[n]] \in 1..L
    BY <1>6, <1>7 DEF R, Leaves
  <2>4. to \in [1..(R + 1) -> 1..(L + 1)]
    <3>1. ASSUME NEW n \in 1..(R + 1) PROVE (IF n = R + 1 THEN L + 1 ELSE at[from[n]]) \in 1..(L + 1)
      BY <1>1, <2>2, <2>3
    <3> QED BY <3>1
  <2>5. to[R + 1] = L + 1 /\ \A n \in 1..R : to[n] = at[from[n]]
    BY <2>1
  <2> HIDE DEF to
  <2>6. ASSUME NEW m \in 1..(R + 1), NEW n \in 1..(R + 1), m < n PROVE to[m] < to[n]
    <3>1. m \in 1..R
      BY <2>1, <2>6
    <3>2. CASE n = R + 1
      BY <1>1, <2>3, <2>5, <3>1, <3>2
    <3>3. CASE n # R + 1
      <4>1. n \in 1..R
        BY <2>2, <3>3
      <4>2. from[m] < from[n]
        BY <1>7, <2>6, <3>1, <4>1 DEF R, Leaves
      <4> QED BY <1>6, <2>3, <2>5, <3>1, <4>1, <4>2
    <3> QED BY <3>2, <3>3
  <2>7. ASSUME NEW n \in 1..(R + 1) PROVE q[n] = t[to[n]] /\ LiveIn(t, to[n])
    <3>1. CASE n = R + 1
      BY <1>1, <1>4, <2>1, <2>5, <3>1 DEF L
    <3>2. CASE n \in 1..R
      <4>1. q[n] = k[from[n]] /\ q[n].call # a.call
        BY <1>7, <2>1, <3>2 DEF R, Leaves
      <4>2. k[from[n]] = s[at[from[n]]] /\ LiveIn(s, at[from[n]])
        BY <1>6, <2>3, <3>2
      <4> QED BY <1>1, <1>3, <2>3, <2>5, <3>2, <4>1, <4>2 DEF L
    <3> QED BY <2>2, <3>1, <3>2
  <2>8. Embeds(t, q, to)
    BY <1>1, <2>1, <2>4, <2>6, <2>7 DEF Embeds, L
  <2>9. ASSUME NEW agent, Replaces(s, a, agent), Shows(s, k, at, agent),
               NEW i \in 1..(L + 1), IsNewest(t, agent, i)
        PROVE  \E n \in 1..(R + 1) : to[n] = i
    <3>1. CASE i = L + 1
      BY <2>1, <2>5, <3>1
    <3>2. CASE i # L + 1
      <4>1. IsNewest(s, agent, i) /\ s[i].call # a.call /\ i \in 1..L
        BY <1>1, <1>5, <2>9, <3>2 DEF L
      <4>2. PICK m \in 1..Len(k) : at[m] = i
        BY <2>9, <4>1 DEF Shows, L
      <4>3. k[m].call # a.call
        BY <1>6, <4>1, <4>2
      <4>4. PICK n \in 1..R : from[n] = m
        BY <1>7, <4>3 DEF R, Leaves
      <4>5. n \in 1..(R + 1) /\ to[n] = i
        BY <2>1, <2>5, <4>2, <4>4
      <4> QED BY <4>5
    <3> QED BY <3>1, <3>2
  <2>10. \A agent : Replaces(s, a, agent) /\ Shows(s, k, at, agent) => Shows(t, q, to, agent)
    BY <1>1, <2>1, <2>9 DEF Shows, L
  <2> QED BY <2>1, <2>8, <2>10 DEF q
<1> HIDE DEF Goal
<1>8. CASE (\A i \in 1..Len(k) : k[i].call # a.call) /\ Push(k, a) = Append(k, a)
  <2> DEFINE from == [n \in 1..Len(k) |-> n]
  <2>1. /\ from \in [1..Len(k) -> 1..Len(k)]
        /\ \A m, n \in 1..Len(k) : m < n => from[m] < from[n]
        /\ \A n \in 1..Len(k) : k[n] = k[from[n]] /\ k[n].call # a.call
        /\ \A m \in 1..Len(k) : k[m].call # a.call => \E n \in 1..Len(k) : from[n] = m
    BY <1>8
  <2>2. Leaves(k, a, k, from)
    BY <2>1 DEF Leaves
  <2> HIDE DEF from
  <2> QED BY <1>7, <1>8, <2>2
<1>9. ASSUME NEW p \in 1..Len(k), k[p].call = a.call, Push(k, a) = Append(RemoveAt(k, p), a)
      PROVE  Goal(Push(k, a))
  <2> DEFINE rest == RemoveAt(k, p)
             R == Len(rest)
             from == [n \in 1..R |-> IF n < p THEN n ELSE n + 1]
  <2>1. rest \in Seq(All) /\ R = Len(k) - 1 /\ \A n \in 1..R : rest[n] = IF n < p THEN k[n] ELSE k[n + 1]
    BY Removed
  <2> HIDE DEF rest
  <2>2. from \in [1..R -> 1..Len(k)]
    BY <1>2, <2>1
  <2>3. \A n \in 1..R : from[n] = IF n < p THEN n ELSE n + 1
    OBVIOUS
  <2> HIDE DEF from, R
  <2>4. \A m, n \in 1..R : m < n => from[m] < from[n]
    BY <1>2, <2>1, <2>3
  <2>5. ASSUME NEW n \in 1..R PROVE rest[n] = k[from[n]] /\ rest[n].call # a.call
    <3>1. rest[n] = k[from[n]]
      BY <2>1, <2>3
    <3>2. from[n] \in 1..Len(k) /\ from[n] # p
      BY <1>2, <2>1, <2>2, <2>3
    <3>3. CASE from[n] < p
      <4>1. at[from[n]] < at[p] /\ at[p] \in DOMAIN s /\ LiveIn(s, at[from[n]])
        BY <1>2, <1>6, <3>2, <3>3
      <4>2. at[p] > at[from[n]]
        BY <1>1, <1>6, <3>2, <4>1
      <4>3. s[at[p]].call # s[at[from[n]]].call
        BY <4>1, <4>2 DEF LiveIn
      <4> QED BY <1>6, <1>9, <3>1, <3>2, <4>3
    <3>4. CASE p < from[n]
      <4>1. at[p] < at[from[n]] /\ at[from[n]] \in DOMAIN s /\ LiveIn(s, at[p])
        BY <1>2, <1>6, <3>2, <3>4
      <4>2. at[from[n]] > at[p]
        BY <1>1, <1>6, <3>2, <4>1
      <4>3. s[at[p]].call # s[at[from[n]]].call
        BY <4>1, <4>2 DEF LiveIn
      <4> QED BY <1>6, <1>9, <3>1, <3>2, <4>3
    <3> QED BY <1>2, <3>2, <3>3, <3>4
  <2>6. ASSUME NEW m \in 1..Len(k), k[m].call # a.call PROVE \E n \in 1..R : from[n] = m
    <3>1. m # p
      BY <1>9, <2>6
    <3>2. CASE m < p
      <4>1. m \in 1..R /\ from[m] = m
        BY <1>2, <2>1, <2>3, <3>2
      <4> QED BY <4>1
    <3>3. CASE p < m
      <4>1. m - 1 \in 1..R /\ from[m - 1] = m
        BY <1>2, <2>1, <2>3, <3>3
      <4> QED BY <4>1
    <3> QED BY <1>2, <3>1, <3>2, <3>3
  <2>7. Leaves(k, a, rest, from)
    BY <2>2, <2>4, <2>5, <2>6 DEF R, Leaves
  <2>8. Goal(Append(rest, a))
    BY <1>7, <2>1, <2>7
  <2> QED BY <1>9, <2>8 DEF rest
<1> QED BY <1>8, <1>9, PushForms

-----------------------------------------------------------------------------
(* The inductive invariant.                                                *)

Shape ==
  /\ applied \in Seq(All) /\ kept \in Seq(All)
  /\ made \in [Calls -> Nat] /\ \A c \in Calls : made[c] <= Len(Script[c])
  /\ todo \in [Calls -> Seq(All)]
  /\ pc \in [Calls -> {"idle", "archiving", "updating"}]
  /\ history \in BOOLEAN /\ failures \in 0..MaxFailures

\* A contribution on its way, and what it has still to archive.
Carried(c) ==
  /\ pc[c] # "idle" => made[c] < Len(Script[c])
  /\ (todo[c] # << >>) = (pc[c] = "archiving")
  /\ pc[c] = "archiving" =>
       /\ Given \subseteq archive \cup Range(todo[c])
       /\ Current(c) \in archive \cup Range(todo[c])
  /\ pc[c] = "updating" => Given \subseteq archive /\ Current(c) \in archive

Settled == IF history THEN Given \subseteq archive ELSE kept = applied

\* What was given of a call of the turn is one of its contributions so far.
Scripted ==
  \A i \in 1..Len(applied) : applied[i].call \in Calls =>
    \E v \in 1..made[applied[i].call] : applied[i].receivers = Script[applied[i].call][v]

\* The document is an ordered part of what it was given and shows every agent.
Document ==
  /\ history => Len(kept) <= MaxKept
  /\ \E at : /\ Embeds(applied, kept, at)
             /\ Cardinality(Agents) <= MaxKept =>
                  \A agent \in Agents : Steady(agent) => Shows(applied, kept, at, agent)

IInv == Shape /\ Settled /\ Scripted /\ Document /\ \A c \in Calls : Carried(c)

\* Appending adds one element to a sequence's range.
LEMMA RangeAppend ==
  ASSUME NEW S, NEW s \in Seq(S), NEW e \in S
  PROVE  Append(s, e) \in Seq(S) /\ Range(Append(s, e)) = Range(s) \cup {e}
<1>1. Append(s, e) \in Seq(S)
  OBVIOUS
<1>2. ASSUME NEW y \in Range(Append(s, e)) PROVE y \in Range(s) \cup {e}
  BY <1>2 DEF Range
<1>3. ASSUME NEW y \in Range(s) PROVE y \in Range(Append(s, e))
  <2>1. PICK i \in 1..Len(s) : y = s[i]
    BY <1>3 DEF Range
  <2>2. i \in DOMAIN Append(s, e) /\ Append(s, e)[i] = y
    BY <2>1
  <2> QED BY <2>2 DEF Range
<1>4. e \in Range(Append(s, e))
  <2>1. Len(s) + 1 \in DOMAIN Append(s, e) /\ Append(s, e)[Len(s) + 1] = e
    OBVIOUS
  <2> QED BY <2>1 DEF Range
<1> QED BY <1>1, <1>2, <1>3, <1>4

\* A sequence's range is its head and the range of its tail.
LEMMA RangeTail ==
  ASSUME NEW S, NEW s \in Seq(S), s # << >>
  PROVE  /\ Tail(s) \in Seq(S)
         /\ Range(s) = {Head(s)} \cup Range(Tail(s))
         /\ Len(s) = 1 => Range(Tail(s)) = {}
         /\ Len(s) # 1 => Tail(s) # << >>
         /\ Len(s) = 1 => Tail(s) = << >>
<1>1. Tail(s) \in Seq(S) /\ Len(s) \in Nat \ {0} /\ Len(Tail(s)) = Len(s) - 1
  OBVIOUS
<1>2. \A i \in 1..Len(Tail(s)) : Tail(s)[i] = s[i + 1]
  OBVIOUS
<1>3. ASSUME NEW y \in Range(s) PROVE y \in {Head(s)} \cup Range(Tail(s))
  <2>1. PICK i \in 1..Len(s) : y = s[i]
    BY <1>3 DEF Range
  <2>2. CASE i = 1
    BY <2>1, <2>2
  <2>3. CASE i # 1
    <3>1. i - 1 \in DOMAIN Tail(s) /\ Tail(s)[i - 1] = y
      BY <1>1, <1>2, <2>1, <2>3
    <3> QED BY <3>1 DEF Range
  <2> QED BY <2>2, <2>3
<1>4. ASSUME NEW y \in Range(Tail(s)) PROVE y \in Range(s)
  <2>1. PICK i \in 1..Len(Tail(s)) : y = Tail(s)[i]
    BY <1>1, <1>4 DEF Range
  <2>2. i + 1 \in DOMAIN s /\ s[i + 1] = y
    BY <1>1, <1>2, <2>1
  <2> QED BY <2>2 DEF Range
<1>5. Head(s) \in Range(s)
  <2>1. 1 \in DOMAIN s /\ s[1] = Head(s)
    BY <1>1
  <2> QED BY <2>1 DEF Range
<1>6. Len(s) = 1 => Range(Tail(s)) = {}
  BY <1>1 DEF Range
<1>7. Len(s) # 1 => Len(Tail(s)) # 0
  BY <1>1
<1>8. Tail(s) = << >> => Len(Tail(s)) = 0
  <2>1. Len(<< >>) = 0
    OBVIOUS
  <2> QED BY <2>1, Zenon
<1>9. Len(s) = 1 => Tail(s) = << >>
  <2>1. ASSUME NEW t \in Seq(S), t # << >> PROVE Len(t) # 0
    BY <2>1
  <2>2. Len(s) = 1 => Len(Tail(s)) = 0
    BY <1>1
  <2> QED BY <1>1, <2>1, <2>2, Zenon
<1> QED BY <1>1, <1>3, <1>4, <1>5, <1>6, <1>7, <1>8, <1>9

\* The contribution a call is about to make is an activity.
LEMMA CurrentIsActivity ==
  ASSUME Shape, NEW c \in Calls, made[c] < Len(Script[c])
  PROVE  /\ Current(c) \in All /\ Current(c).call = c
         /\ made[c] + 1 \in DOMAIN Script[c] /\ Current(c).receivers = Script[c][made[c] + 1]
<1>1. Script[c] \in Seq(Seq(Agents)) /\ made[c] \in Nat
  BY ScriptAssumption DEF Shape
<1>2. made[c] + 1 \in 1..Len(Script[c])
  BY <1>1
<1>3. Script[c][made[c] + 1] \in Seq(Agents) /\ made[c] + 1 \in DOMAIN Script[c]
  BY <1>1, <1>2
<1> QED BY <1>1, <1>3 DEF Current, Activity, All, Names

\* Nothing was dropped from a document the archive has not seen.
LEMMA InitInv == Init => IInv
<1> SUFFICES ASSUME Init PROVE IInv
  OBVIOUS
<1>1. Legacy \in Seq(All)
  <2>1. Legacy \in Seq([call: {Legacy[i].call : i \in DOMAIN Legacy}, version: Nat, receivers: Seq(Agents)])
    BY LegacyAssumption
  <2> DEFINE C == {Legacy[i].call : i \in DOMAIN Legacy}
  <2>2. C \subseteq Names
    BY DEF Names
  <2>3. [call: C, version: Nat, receivers: Seq(Agents)] \subseteq All
    <3> HIDE DEF C
    <3> QED BY <2>2 DEF All
  <2> DEFINE R == [call: C, version: Nat, receivers: Seq(Agents)]
  <2>4. Legacy \in Seq(R) /\ R \subseteq All
    BY <2>1, <2>3
  <2> HIDE DEF R
  <2> QED BY <2>4
<1>2. << >> \in Seq(All)
  OBVIOUS
<1>3. Shape
  <2>1. \A c \in Calls : Len(Script[c]) \in Nat
    BY ScriptAssumption
  <2>2. applied \in Seq(All) /\ kept \in Seq(All) /\ history \in BOOLEAN
    BY <1>1 DEF Init
  <2>3. made \in [Calls -> Nat] /\ \A c \in Calls : made[c] <= Len(Script[c])
    BY <2>1 DEF Init
  <2>4. todo \in [Calls -> Seq(All)]
    BY <1>2 DEF Init
  <2>5. pc \in [Calls -> {"idle", "archiving", "updating"}]
    BY DEF Init
  <2>6. failures \in 0..MaxFailures
    BY MaxFailuresAssumption DEF Init
  <2> QED BY <2>2, <2>3, <2>4, <2>5, <2>6 DEF Shape
<1>4. Settled /\ \A c \in Calls : Carried(c)
  BY DEF Init, Settled, Carried
<1>5. DOMAIN Legacy = 1..Len(Legacy)
  BY <1>1
<1>6. Scripted
  BY <1>5, LegacyAssumption DEF Init, Scripted
<1>7. Document
  <2> DEFINE at == [n \in 1..Len(Legacy) |-> n]
  <2>1. ASSUME NEW n \in 1..Len(Legacy) PROVE LiveIn(Legacy, n)
    <3>1. ASSUME NEW j \in DOMAIN Legacy, j > n, Legacy[j].call = Legacy[n].call
          PROVE  FALSE
      <4>1. j = n
        BY <1>5, <3>1, LegacyAssumption
      <4> QED BY <1>1, <1>5, <3>1, <4>1
    <3> QED BY <3>1 DEF LiveIn
  <2>2. Embeds(Legacy, Legacy, at)
    BY <2>1 DEF Embeds
  <2>3. \A agent : Shows(Legacy, Legacy, at, agent)
    BY DEF Shows
  <2> HIDE DEF at
  <2> QED BY <2>2, <2>3 DEF Init, Document
<1> QED BY <1>3, <1>4, <1>6, <1>7 DEF IInv

\* Reading the document: its activities are the list, if it has no history.
LEMMA SnapshotInv ==
  ASSUME IInv, NEW c \in Calls, Snapshot(c)
  PROVE  IInv'
<1> USE DEF Snapshot
<1>1. Current(c) \in All
  BY CurrentIsActivity DEF IInv
<1>2. Backfill \in Seq(All) /\ Given \subseteq archive \cup Range(Backfill)
  <2>1. CASE history
    BY <2>1 DEF IInv, Settled, Backfill
  <2>2. CASE ~history
    BY <2>2 DEF IInv, Settled, Backfill, Shape, Given
  <2> QED BY <2>1, <2>2
<1> DEFINE list == Backfill \o <<Current(c)>>
<1>3. list = Append(Backfill, Current(c))
  BY <1>1, <1>2
<1>4. list \in Seq(All) /\ Range(list) = Range(Backfill) \cup {Current(c)} /\ list # << >>
  <2>1. list \in Seq(All) /\ Range(list) = Range(Backfill) \cup {Current(c)}
    <3>1. /\ Append(Backfill, Current(c)) \in Seq(All)
          /\ Range(Append(Backfill, Current(c))) = Range(Backfill) \cup {Current(c)}
      BY <1>1, <1>2, RangeAppend
    <3> HIDE DEF list
    <3> QED BY <1>3, <3>1
  <2>2. list # << >>
    BY <1>1, <1>2, <1>3
  <2> QED BY <2>1, <2>2
<1>5. todo' = [todo EXCEPT ![c] = list]
  OBVIOUS
<1> HIDE DEF list
<1>6. Shape'
  BY <1>4, <1>5 DEF IInv, Shape
<1>7. Settled' /\ Scripted' /\ Document'
  BY DEF IInv, Settled, Given, Scripted, Document
<1>8. ASSUME NEW d \in Calls PROVE Carried(d)'
  <2>1. Current(d)' = Current(d) /\ Given' = Given
    BY DEF Current, Given
  <2>2. CASE d = c
    <3>1. todo'[c] = list /\ pc'[c] = "archiving"
      BY <1>5 DEF IInv, Shape
    <3> QED BY <1>2, <1>4, <2>1, <2>2, <3>1 DEF Carried
  <2>3. CASE d # c
    <3>1. pc'[d] = pc[d] /\ todo'[d] = todo[d] /\ Carried(d)
      BY <1>5, <2>3 DEF IInv, Shape
    <3> QED BY <2>1, <3>1 DEF Carried
  <2> QED BY <2>2, <2>3
<1> QED BY <1>6, <1>7, <1>8 DEF IInv

\* Archiving moves the head of the list to the log.
LEMMA AppendInv ==
  ASSUME IInv, NEW c \in Calls, Append1(c)
  PROVE  IInv'
<1> USE DEF Append1
<1>1. todo[c] \in Seq(All) /\ todo[c] # << >> /\ Carried(c)
  BY DEF IInv, Shape, Carried
<1>2. /\ Tail(todo[c]) \in Seq(All)
      /\ Range(todo[c]) = {Head(todo[c])} \cup Range(Tail(todo[c]))
      /\ Len(todo[c]) = 1 => Range(Tail(todo[c])) = {}
      /\ Len(todo[c]) # 1 => Tail(todo[c]) # << >>
      /\ Len(todo[c]) = 1 => Tail(todo[c]) = << >>
  BY <1>1, RangeTail
<1>3. Shape'
  BY <1>2 DEF IInv, Shape
<1>4. Settled' /\ Scripted' /\ Document'
  BY DEF IInv, Settled, Given, Scripted, Document
<1>5. ASSUME NEW d \in Calls PROVE Carried(d)'
  <2>1. Current(d)' = Current(d) /\ Given' = Given /\ archive \subseteq archive'
    BY DEF Current, Given
  <2>2. CASE d = c
    <3>1. pc'[c] = IF Len(todo[c]) = 1 THEN "updating" ELSE "archiving"
      BY DEF IInv, Shape
    <3>2. todo'[c] = Tail(todo[c])
      BY DEF IInv, Shape
    <3>3. pc[c] = "archiving" /\ archive' = archive \cup {Head(todo[c])} /\ made' = made
      OBVIOUS
    <3>4. /\ Given \subseteq archive' \cup Range(todo'[c])
          /\ Current(c) \in archive' \cup Range(todo'[c])
          /\ made[c] < Len(Script[c])
      BY <1>1, <1>2, <3>2, <3>3 DEF Carried
    <3>5. CASE Len(todo[c]) = 1
      <4>1. todo'[c] = << >> /\ Range(todo'[c]) = {} /\ pc'[c] = "updating"
        BY <1>2, <3>1, <3>2, <3>5
      <4>2. (todo'[c] # << >>) = (pc'[c] = "archiving")
        BY <4>1
      <4> QED BY <2>1, <2>2, <3>3, <3>4, <4>1, <4>2 DEF Carried
    <3>6. CASE Len(todo[c]) # 1
      <4>1. todo'[c] # << >> /\ pc'[c] = "archiving"
        BY <1>2, <3>1, <3>2, <3>6
      <4>2. (todo'[c] # << >>) = (pc'[c] = "archiving")
        BY <4>1
      <4> QED BY <2>1, <2>2, <3>3, <3>4, <4>1, <4>2 DEF Carried
    <3> QED BY <3>5, <3>6
  <2>3. CASE d # c
    <3>1. pc'[d] = pc[d] /\ todo'[d] = todo[d] /\ Carried(d)
      BY <2>3 DEF IInv, Shape
    <3> QED BY <2>1, <3>1 DEF Carried
  <2> QED BY <2>2, <2>3
<1> QED BY <1>3, <1>4, <1>5 DEF IInv

\* A steady agent is not taken away by the next contribution of a call.
LEMMA SteadyReplaces ==
  ASSUME IInv, NEW c \in Calls, made[c] < Len(Script[c]), NEW agent, Steady(agent)
  PROVE  Replaces(applied, Current(c), agent)
<1> DEFINE a == Current(c)
           v == made[c] + 1
<1>1. a.call = c /\ v \in DOMAIN Script[c] /\ a.receivers = Script[c][v]
  BY CurrentIsActivity DEF IInv
<1> HIDE DEF a
<1>2. ASSUME NEW j \in 1..Len(applied), applied[j].call = a.call, agent \in Receivers(applied[j])
      PROVE  agent \in Receivers(a)
  <2>1. PICK u \in 1..made[c] : applied[j].receivers = Script[c][u]
    BY <1>1, <1>2 DEF IInv, Scripted
  <2>2. made[c] \in Nat /\ DOMAIN Script[c] = 1..Len(Script[c]) /\ Len(Script[c]) \in Nat
    BY ScriptAssumption DEF IInv, Shape
  <2>3. u \in DOMAIN Script[c] /\ u <= v
    BY <2>2
  <2>4. agent \in Range(Script[c][u])
    BY <1>2, <2>1 DEF Receivers
  <2>5. agent \in Range(Script[c][v])
    BY <1>1, <2>3, <2>4 DEF Steady
  <2> QED BY <1>1, <2>5 DEF Receivers
<1> QED BY <1>2 DEF Replaces, a

\* Updating: everything given so far is archived, and so is the new activity;
\* the document stays an ordered part that shows every agent.
LEMMA UpdateInv ==
  ASSUME IInv, NEW c \in Calls, Update(c)
  PROVE  IInv'
<1> USE DEF Update
<1> DEFINE a == Current(c)
           acts == Push(kept, a)
<1>1. /\ a \in All /\ Given \subseteq archive /\ a \in archive /\ made[c] < Len(Script[c])
      /\ a.call = c /\ a.receivers = Script[c][made[c] + 1]
  BY CurrentIsActivity DEF IInv, Carried
<1>2. applied' \in Seq(All) /\ Given' = Given \cup {a}
  BY <1>1, RangeAppend DEF IInv, Shape, Given
<1>3. kept \in Seq(All) /\ applied \in Seq(All) /\ applied' = Append(applied, a)
  BY DEF IInv, Shape
<1>4. PICK at : /\ Embeds(applied, kept, at)
                /\ Cardinality(Agents) <= MaxKept =>
                     \A agent \in Agents : Steady(agent) => Shows(applied, kept, at, agent)
  BY DEF IInv, Document
<1>5. \A agent : Steady(agent) => Replaces(applied, a, agent)
  BY <1>1, SteadyReplaces
<1> HIDE DEF a
<1>6. PICK to : /\ acts \in Seq(All)
                /\ Embeds(applied', acts, to)
                /\ \A agent : Replaces(applied, a, agent) /\ Shows(applied, kept, at, agent) =>
                                Shows(applied', acts, to, agent)
  BY <1>1, <1>3, <1>4, Pushed
<1>7. kept' = BoundedProjection(acts)
  BY DEF a
<1> HIDE DEF acts
<1>8. PICK order : Selection(acts, kept', order)
  BY <1>6, <1>7, ProjectionSelects
<1>9. kept' \in Seq(All) /\ Len(kept') <= MaxKept
  BY <1>8 DEF Selection
<1>10. Document'
  <2> DEFINE fro == [n \in 1..Len(kept') |-> to[order[n]]]
  <2>1. /\ Embeds(applied', kept', fro)
        /\ Cardinality(Agents) <= MaxKept =>
             \A agent \in Agents : Shows(applied', acts, to, agent) => Shows(applied', kept', fro, agent)
    BY <1>2, <1>6, <1>8, Projected
  <2> HIDE DEF fro
  <2>2. ASSUME Cardinality(Agents) <= MaxKept, NEW agent \in Agents, Steady(agent)
        PROVE  Shows(applied', kept', fro, agent)
    BY <1>4, <1>5, <1>6, <2>1, <2>2
  <2> QED BY <1>9, <2>1, <2>2 DEF Document
<1>11. /\ made' \in [Calls -> Nat] /\ made'[c] = made[c] + 1
       /\ \A d \in Calls : made'[d] \in Nat /\ made[d] \in Nat /\ made'[d] >= made[d]
  BY DEF IInv, Shape
<1>12. Shape'
  <2>1. \A d \in Calls : made'[d] <= Len(Script[d])
    <3>1. \A d \in Calls : Len(Script[d]) \in Nat
      BY ScriptAssumption
    <3> QED BY <1>1, <1>11, <3>1 DEF IInv, Shape
  <2> QED BY <1>2, <1>9, <1>11, <2>1 DEF IInv, Shape
<1>13. Settled'
  BY <1>1, <1>2 DEF Settled
<1>14. Scripted'
  <2> SUFFICES ASSUME NEW i \in 1..Len(applied'), applied'[i].call \in Calls
               PROVE  \E v \in 1..made'[applied'[i].call] :
                         applied'[i].receivers = Script[applied'[i].call][v]
    BY DEF Scripted
  <2>1. CASE i = Len(applied) + 1
    <3>1. applied'[i] = a
      BY <1>1, <1>3, <2>1
    <3>2. made[c] + 1 \in 1..made'[c]
      BY <1>11
    <3> QED BY <1>1, <3>1, <3>2
  <2>2. CASE i # Len(applied) + 1
    <3>1. i \in 1..Len(applied) /\ applied'[i] = applied[i]
      BY <1>1, <1>3, <2>2
    <3>2. PICK v \in 1..made[applied[i].call] : applied[i].receivers = Script[applied[i].call][v]
      BY <3>1 DEF IInv, Scripted
    <3>3. v \in 1..made'[applied[i].call]
      BY <1>11, <3>1
    <3> QED BY <3>1, <3>2, <3>3
  <2> QED BY <2>1, <2>2
<1>15. ASSUME NEW d \in Calls PROVE Carried(d)'
  <2>1. CASE d = c
    BY <2>1 DEF IInv, Shape, Carried
  <2>2. CASE d # c
    <3>1. Current(d)' = Current(d) /\ made'[d] = made[d]
      BY <2>2 DEF IInv, Shape, Current
    <3>2. pc'[d] = pc[d] /\ todo'[d] = todo[d] /\ Carried(d)
      BY <2>2 DEF IInv, Shape
    <3> QED BY <1>1, <1>2, <3>1, <3>2 DEF Carried
  <2> QED BY <2>1, <2>2
<1> QED BY <1>10, <1>12, <1>13, <1>14, <1>15 DEF IInv

\* A contribution that is given up leaves the document and the log alone.
LEMMA FailInv ==
  ASSUME IInv, NEW c \in Calls, Fail(c)
  PROVE  IInv'
<1> USE DEF Fail
<1>1. made[c] < Len(Script[c])
  BY DEF IInv, Carried
<1>2. /\ made' \in [Calls -> Nat] /\ made'[c] = made[c] + 1
      /\ \A d \in Calls : made'[d] \in Nat /\ made[d] \in Nat /\ made'[d] >= made[d]
  BY DEF IInv, Shape
<1>3. \A d \in Calls : made'[d] <= Len(Script[d])
  <2>1. \A d \in Calls : Len(Script[d]) \in Nat
    BY ScriptAssumption
  <2> QED BY <1>1, <1>2, <2>1 DEF IInv, Shape
<1>4. Shape'
  BY <1>2, <1>3, MaxFailuresAssumption DEF IInv, Shape
<1>5. Settled' /\ Document'
  BY DEF IInv, Settled, Given, Document
<1>6. Scripted'
  <2> SUFFICES ASSUME NEW i \in 1..Len(applied), applied[i].call \in Calls
               PROVE  \E v \in 1..made'[applied[i].call] :
                         applied[i].receivers = Script[applied[i].call][v]
    BY DEF Scripted
  <2>1. PICK v \in 1..made[applied[i].call] : applied[i].receivers = Script[applied[i].call][v]
    BY DEF IInv, Scripted
  <2>2. v \in 1..made'[applied[i].call]
    BY <1>2
  <2> QED BY <2>1, <2>2
<1>7. ASSUME NEW d \in Calls PROVE Carried(d)'
  <2>1. CASE d = c
    BY <2>1 DEF IInv, Shape, Carried
  <2>2. CASE d # c
    <3>1. Current(d)' = Current(d) /\ Given' = Given /\ made'[d] = made[d]
      BY <2>2 DEF IInv, Shape, Current, Given
    <3>2. pc'[d] = pc[d] /\ todo'[d] = todo[d] /\ Carried(d)
      BY <2>2 DEF IInv, Shape
    <3> QED BY <3>1, <3>2 DEF Carried
  <2> QED BY <2>1, <2>2
<1> QED BY <1>4, <1>5, <1>6, <1>7 DEF IInv

\* The inductive invariant holds throughout.
THEOREM Invariant == Spec => []IInv
<1>1. IInv /\ UNCHANGED vars => IInv'
  BY DEF IInv, Shape, Settled, Carried, Given, Current, Scripted, Document, vars
<1>2. IInv /\ Next => IInv'
  BY SnapshotInv, AppendInv, UpdateInv, FailInv DEF Next
<1> QED BY InitInv, <1>1, <1>2, PTL DEF Spec

\* What the state document no longer holds is in the event log
\* (archive_activities before apply_activity, with the one-time backfill).
THEOREM NothingIsLost == Spec => []DroppedIsArchived
<1>1. IInv => DroppedIsArchived
  BY DEF IInv, Settled, DroppedIsArchived, Given
<1> QED BY Invariant, <1>1, PTL

\* The projection in the state document stays within its limit and, while
\* there is room, never loses the newest activity of an agent, however many
\* calls contribute side by side (bounded_projection after apply_activity).
THEOREM AgentsStay == Spec => []ProjectionInv
<1>1. ASSUME IInv PROVE TypeOK
  <2>1. PICK at : Embeds(applied, kept, at)
    BY <1>1 DEF IInv, Document
  <2>2. Range(kept) \subseteq Given
    <3>1. ASSUME NEW y \in Range(kept) PROVE y \in Range(applied)
      <4>1. PICK n \in 1..Len(kept) : y = kept[n]
        BY <1>1, <3>1 DEF Range, IInv, Shape
      <4>2. at[n] \in DOMAIN applied /\ applied[at[n]] = y
        BY <1>1, <2>1, <4>1 DEF Embeds, IInv, Shape
      <4> QED BY <4>2 DEF Range
    <3> QED BY <3>1 DEF Given
  <2>3. ASSUME NEW c \in Calls PROVE made[c] \in 0..Len(Script[c])
    <3>1. Len(Script[c]) \in Nat
      BY ScriptAssumption
    <3> QED BY <1>1, <3>1 DEF IInv, Shape
  <2> QED BY <1>1, <2>2, <2>3 DEF TypeOK, IInv, Shape, Document, Carried
<1>2. ASSUME IInv PROVE AgentsKept
  <2> SUFFICES ASSUME Cardinality(Agents) <= MaxKept, NEW agent \in Agents, Steady(agent),
                      NEW i \in About(agent), \A j \in About(agent) : j <= i
               PROVE  applied[i] \in Range(kept)
    BY DEF AgentsKept, NewestAbout
  <2>1. PICK at : Embeds(applied, kept, at) /\ Shows(applied, kept, at, agent)
    BY <1>2 DEF IInv, Document
  <2>2. About(agent) = AboutIn(applied, agent)
    BY DEF About, AboutIn, LiveIn
  <2>3. i \in 1..Len(applied) /\ IsNewest(applied, agent, i)
    <3>1. applied \in Seq(All) /\ DOMAIN applied = 1..Len(applied)
      BY <1>2 DEF IInv, Shape
    <3>2. i \in DOMAIN applied
      BY DEF About
    <3> QED BY <2>2, <3>1, <3>2 DEF IsNewest
  <2>4. PICK n \in 1..Len(kept) : at[n] = i
    BY <2>1, <2>3 DEF Shows
  <2>5. n \in DOMAIN kept /\ kept[n] = applied[i]
    BY <1>2, <2>1, <2>4 DEF Embeds, IInv, Shape
  <2> QED BY <2>5 DEF Range
<1>3. IInv => ProjectionInv
  BY <1>1, <1>2 DEF ProjectionInv
<1> QED BY Invariant, <1>3, PTL
=============================================================================
