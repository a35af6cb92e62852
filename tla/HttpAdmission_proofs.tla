-------------------------- MODULE HttpAdmission_proofs --------------------------
(***************************************************************************)
(* Proofs about HttpAdmission and the pool of FairShare, for any set of        *)
(* requests and any capacity, reserve, cap and depth.                        *)
(*                                                                         *)
(* What a pool owes its holders (Budget) is kept by taking and by freeing a   *)
(* slot.  admitWaiters is a loop: each of its rounds keeps the budget and     *)
(* what it has granted so far in turn (Turn), and it ends with no head that   *)
(* fits.                                                                   *)
(***************************************************************************)
EXTENDS HttpAdmission, FiniteSetTheorems, TLAPS

Class == {"owner", "connector", "bearer"}

Pools == [held : Nat, byPrincipal : [Principal -> Nat], waiting : [Class -> Seq(Request)]]

(* A request waits once, in the line of its class.                            *)
InLine(p) ==
    \A cls \in Class :
        /\ \A i \in 1..Len(p.waiting[cls]) : ClassOf[p.waiting[cls][i]] = cls
        /\ \A i, j \in 1..Len(p.waiting[cls]) : p.waiting[cls][i] = p.waiting[cls][j] => i = j

Of(H, x) == {r \in H : PrincipalOf[r] = x}
Others(H) == {r \in H : ~Owner(r)}

(* The counters of a pool are those of its holders H, which keep the shares.    *)
Budget(p, H) ==
    /\ H \subseteq Request /\ IsFiniteSet(H)
    /\ p.held = Cardinality(H) /\ p.held <= Capacity
    /\ \A x \in Principal : p.byPrincipal[x] = Cardinality(Of(H, x))
    /\ Cardinality(Others(H)) <= Capacity - Reserve
    /\ \A x \in Principal : Cardinality(Of(Others(H), x)) <= PerPrincipalMax

(* A pool with the requests U, each of which holds a slot or waits for one.     *)
Sound(p, U) ==
    /\ p \in Pools /\ InLine(p) /\ Queued(p) \subseteq U /\ U \subseteq Request
    /\ Budget(p, U \ Queued(p))

(* From pool q to pool p the lines lost a prefix, and each request granted meanwhile *)
(* had to be: a head of a higher class does not even fit with its slot.              *)
Turn(q, p) ==
    /\ \A cls \in Class :
          /\ Len(p.waiting[cls]) <= Len(q.waiting[cls])
          /\ \A i \in 1..Len(p.waiting[cls]) :
                p.waiting[cls][i] =
                    q.waiting[cls][i + Len(q.waiting[cls]) - Len(p.waiting[cls])]
    /\ \A w \in Queued(q) \ Queued(p), h \in Heads(p) :
          Rank(h) < Rank(w) => Blocked(Free(p, w), h)

AllBlocked(p) == \A h \in Heads(p) : Blocked(p, h)

-------------------------------------------------------------------------------
(* The order of the classes, and who waits and who is next.                    *)
LEMMA Classes ==
  /\ DOMAIN ClassOrder = 1..3 /\ ToSet(ClassOrder) = Class
  /\ \A i \in 1..3 : ClassOrder[i] \in Class
  /\ \A i, j \in 1..3 : ClassOrder[i] = ClassOrder[j] => i = j
  /\ \A cls \in Class : \E i \in 1..3 : ClassOrder[i] = cls
<1>1. DOMAIN ClassOrder = 1..3
  BY DEF ClassOrder
<1>2. ClassOrder[1] = "owner" /\ ClassOrder[2] = "connector" /\ ClassOrder[3] = "bearer"
  BY DEF ClassOrder
<1>3. \A i : i \in 1..3 <=> i = 1 \/ i = 2 \/ i = 3
  OBVIOUS
<1>4. ToSet(ClassOrder) = Class
  BY <1>1, <1>2, <1>3 DEF ToSet, Class
<1> QED
  BY <1>1, <1>2, <1>3, <1>4 DEF Class

LEMMA RankIs ==
  ASSUME NEW r \in Request
  PROVE  Rank(r) \in 1..3 /\ ClassOrder[Rank(r)] = ClassOf[r]
<1>1. ClassOf[r] \in Class
  BY AdmissionAssumption DEF Class
<1>2. \E i \in DOMAIN ClassOrder : ClassOrder[i] = ClassOf[r]
  BY <1>1, Classes
<1> QED
  BY <1>2, Classes DEF Rank

LEMMA QueuedIs ==
  ASSUME NEW p \in Pools
  PROVE  /\ \A r : r \in Queued(p) <=>
                \E cls \in Class : \E i \in 1..Len(p.waiting[cls]) : r = p.waiting[cls][i]
         /\ Queued(p) \subseteq Request
         /\ IsFiniteSet(Queued(p))
<1>1. \A cls \in Class : /\ p.waiting[cls] \in Seq(Request) /\ Len(p.waiting[cls]) \in Nat
                         /\ DOMAIN p.waiting[cls] = 1..Len(p.waiting[cls])
  BY DEF Pools
<1>2. Queued(p) = UNION {ToSet(p.waiting[cls]) : cls \in Class}
  BY Classes DEF Queued
<1>3. \A r : r \in Queued(p) <=>
          \E cls \in Class : \E i \in 1..Len(p.waiting[cls]) : r = p.waiting[cls][i]
  BY <1>1, <1>2 DEF ToSet
<1>4. Queued(p) \subseteq Request
  BY <1>1, <1>3
<1>5. ASSUME NEW cls \in Class PROVE IsFiniteSet(ToSet(p.waiting[cls]))
  <2> DEFINE line == p.waiting[cls]
  <2>1. line \in [1..Len(line) -> ToSet(line)] /\ Len(line) \in Nat
    BY <1>1 DEF ToSet
  <2>2. \A x \in ToSet(line) : \E i \in 1..Len(line) : line[i] = x
    BY <1>1 DEF ToSet
  <2>3. line \in Surjection(1..Len(line), ToSet(line))
    BY <2>1, <2>2 DEF Surjection
  <2>4. IsFiniteSet(1..Len(line))
    BY <2>1, FS_Interval
  <2> QED
    BY <2>3, <2>4, FS_Surjection
<1>6. Queued(p) = (ToSet(p.waiting["owner"]) \cup ToSet(p.waiting["connector"]))
                    \cup ToSet(p.waiting["bearer"])
  BY <1>2 DEF Class
<1>7. /\ IsFiniteSet(ToSet(p.waiting["owner"])) /\ IsFiniteSet(ToSet(p.waiting["connector"]))
      /\ IsFiniteSet(ToSet(p.waiting["bearer"]))
  BY <1>5 DEF Class
<1>8. IsFiniteSet(ToSet(p.waiting["owner"]) \cup ToSet(p.waiting["connector"]))
  BY <1>7, FS_Union
<1>9. IsFiniteSet(Queued(p))
  BY <1>6, <1>7, <1>8, FS_Union
<1> QED
  BY <1>3, <1>4, <1>9

LEMMA HeadsAre ==
  ASSUME NEW p \in Pools
  PROVE  /\ \A h : h \in Heads(p) <=>
                \E cls \in Class : p.waiting[cls] # <<>> /\ h = p.waiting[cls][1]
         /\ \A cls \in Class : p.waiting[cls] # <<>> =>
                /\ Head(p.waiting[cls]) = p.waiting[cls][1]
                /\ 1 \in 1..Len(p.waiting[cls]) /\ p.waiting[cls][1] \in Request
         /\ Heads(p) \subseteq Queued(p)
<1>1. \A cls \in Class : p.waiting[cls] \in Seq(Request)
  BY DEF Pools
<1>2. \A cls \in Class : p.waiting[cls] # <<>> =>
          /\ Head(p.waiting[cls]) = p.waiting[cls][1]
          /\ 1 \in 1..Len(p.waiting[cls]) /\ p.waiting[cls][1] \in Request
  BY <1>1
<1>3. ASSUME NEW h
      PROVE  h \in Heads(p) <=>
                \E cls \in Class : p.waiting[cls] # <<>> /\ h = p.waiting[cls][1]
  BY <1>2, Classes DEF Heads
<1>4. Heads(p) \subseteq Queued(p)
  BY <1>2, <1>3, QueuedIs
<1> QED
  BY <1>2, <1>3, <1>4
-------------------------------------------------------------------------------
(* Taking and freeing a slot.                                                 *)
LEMMA TakeIs ==
  ASSUME NEW p \in Pools, NEW r \in Request
  PROVE  /\ Take(p, r) \in Pools
         /\ Take(p, r).held = p.held + 1 /\ Take(p, r).waiting = p.waiting
         /\ Take(p, r).byPrincipal =
               [p.byPrincipal EXCEPT ![PrincipalOf[r]] = p.byPrincipal[PrincipalOf[r]] + 1]
<1> DEFINE by == [p.byPrincipal EXCEPT ![PrincipalOf[r]] = p.byPrincipal[PrincipalOf[r]] + 1]
<1>1. PrincipalOf[r] \in Principal
  BY AdmissionAssumption
<1>2. by \in [Principal -> Nat] /\ p.held + 1 \in Nat
  BY <1>1 DEF Pools
<1>3. Take(p, r) = [p EXCEPT !.held = p.held + 1, !.byPrincipal = by]
  BY DEF Take
<1> HIDE DEF by
<1>4. [p EXCEPT !.held = p.held + 1, !.byPrincipal = by] \in Pools
  BY <1>2 DEF Pools
<1>5. /\ Take(p, r).held = p.held + 1 /\ Take(p, r).waiting = p.waiting
      /\ Take(p, r).byPrincipal = by
  BY <1>3 DEF Pools
<1> QED
  BY <1>3, <1>4, <1>5 DEF by

LEMMA FreeIs ==
  ASSUME NEW p \in Pools, NEW r \in Request
  PROVE  /\ Free(p, r).held = p.held - 1 /\ Free(p, r).waiting = p.waiting
         /\ Free(p, r).byPrincipal =
               [p.byPrincipal EXCEPT ![PrincipalOf[r]] = p.byPrincipal[PrincipalOf[r]] - 1]
<1>1. PrincipalOf[r] \in Principal
  BY AdmissionAssumption
<1> QED
  BY <1>1 DEF Free, Pools

(* Parts of a finite set of holders.                                          *)
LEMMA Parts ==
  ASSUME NEW H, IsFiniteSet(H), NEW x
  PROVE  /\ IsFiniteSet(Of(H, x)) /\ IsFiniteSet(Others(H)) /\ IsFiniteSet(Of(Others(H), x))
         /\ {Cardinality(H), Cardinality(Of(H, x)), Cardinality(Others(H)),
             Cardinality(Of(Others(H), x))} \subseteq Nat
         /\ Cardinality(Of(H, x)) <= Cardinality(H)
         /\ Cardinality(Others(H)) <= Cardinality(H)
         /\ Cardinality(Of(Others(H), x)) <= Cardinality(Of(H, x))
<1>1. Of(H, x) \in SUBSET H /\ Others(H) \in SUBSET H /\ Of(Others(H), x) \in SUBSET Of(H, x)
  BY DEF Of, Others
<1>2. /\ IsFiniteSet(Of(H, x)) /\ IsFiniteSet(Others(H))
      /\ Cardinality(Of(H, x)) <= Cardinality(H) /\ Cardinality(Others(H)) <= Cardinality(H)
  BY <1>1, FS_Subset
<1>3. IsFiniteSet(Of(Others(H), x)) /\ Cardinality(Of(Others(H), x)) <= Cardinality(Of(H, x))
  BY <1>1, <1>2, FS_Subset
<1> QED
  BY <1>2, <1>3, FS_CardinalityType

LEMMA TakeBudget ==
  ASSUME NEW p \in Pools, NEW H, Budget(p, H), NEW r \in Request \ H, ~Blocked(p, r)
  PROVE  Budget(Take(p, r), H \cup {r})
<1> DEFINE q == Take(p, r)
           G == H \cup {r}
<1>1. /\ q.held = p.held + 1
      /\ q.byPrincipal =
            [p.byPrincipal EXCEPT ![PrincipalOf[r]] = p.byPrincipal[PrincipalOf[r]] + 1]
  BY TakeIs
<1>2. H \subseteq Request /\ IsFiniteSet(H) /\ PrincipalOf[r] \in Principal
  BY AdmissionAssumption DEF Budget
<1>3. G \subseteq Request /\ IsFiniteSet(G) /\ Cardinality(G) = Cardinality(H) + 1
  BY <1>2, FS_AddElement
<1>4. Capacity \in Nat /\ Reserve \in Nat /\ PerPrincipalMax \in Nat /\ p.held \in Nat
  BY AdmissionAssumption DEF Pools
<1>5. q.held = Cardinality(G) /\ q.held <= Capacity
  BY <1>1, <1>3, <1>4 DEF Budget, Blocked
<1>6. ASSUME NEW x \in Principal PROVE q.byPrincipal[x] = Cardinality(Of(G, x))
  <2>1. p.byPrincipal[x] = Cardinality(Of(H, x)) /\ p.byPrincipal \in [Principal -> Nat]
    BY DEF Budget, Pools
  <2>2. CASE x = PrincipalOf[r]
    <3>1. Of(G, x) = Of(H, x) \cup {r} /\ r \notin Of(H, x)
      BY <2>2 DEF Of
    <3>2. Cardinality(Of(G, x)) = Cardinality(Of(H, x)) + 1
      BY <1>2, <3>1, Parts, FS_AddElement
    <3> QED
      BY <1>1, <2>1, <2>2, <3>2
  <2>3. CASE x # PrincipalOf[r]
    <3>1. Of(G, x) = Of(H, x)
      BY <2>3 DEF Of
    <3> QED
      BY <1>1, <2>1, <2>3, <3>1
  <2> QED
    BY <2>2, <2>3
<1>7. CASE Owner(r)
  <2>1. Others(G) = Others(H)
    BY <1>7 DEF Others
  <2> HIDE DEF q, G
  <2> QED
    BY <1>3, <1>5, <1>6, <2>1 DEF Budget, q, G
<1>8. CASE ~Owner(r)
  <2>1. Others(G) = Others(H) \cup {r} /\ r \notin Others(H)
    BY <1>8 DEF Others
  <2>2. Cardinality(Others(G)) = Cardinality(Others(H)) + 1
    BY <1>2, <2>1, Parts, FS_AddElement
  <2>3. Cardinality(Others(G)) <= Capacity - Reserve
    <3>1. p.held < Capacity - Reserve
      BY <1>4, <1>8 DEF Blocked
    <3>2. Cardinality(Others(H)) <= p.held /\ Cardinality(Others(H)) \in Nat
      BY <1>2, Parts DEF Budget
    <3> QED
      BY <1>4, <2>2, <3>1, <3>2
  <2>4. ASSUME NEW x \in Principal
        PROVE  Cardinality(Of(Others(G), x)) <= PerPrincipalMax
    <3>1. CASE x = PrincipalOf[r]
      <4>1. Of(Others(G), x) = Of(Others(H), x) \cup {r} /\ r \notin Of(Others(H), x)
        BY <2>1, <3>1 DEF Of
      <4>2. Cardinality(Of(Others(G), x)) = Cardinality(Of(Others(H), x)) + 1
        BY <1>2, <4>1, Parts, FS_AddElement
      <4>3. p.byPrincipal[x] < PerPrincipalMax
        BY <1>4, <1>8, <3>1 DEF Blocked, Pools
      <4>4. /\ Cardinality(Of(Others(H), x)) <= p.byPrincipal[x]
            /\ Cardinality(Of(Others(H), x)) \in Nat /\ p.byPrincipal[x] \in Nat
        BY <1>2, Parts DEF Budget, Pools
      <4> QED
        BY <1>4, <4>2, <4>3, <4>4
    <3>2. CASE x # PrincipalOf[r]
      <4>1. Of(Others(G), x) = Of(Others(H), x)
        BY <2>1, <3>2 DEF Of
      <4> QED
        BY <4>1 DEF Budget
    <3> QED
      BY <3>1, <3>2
  <2> HIDE DEF q, G
  <2> QED
    BY <1>3, <1>5, <1>6, <2>3, <2>4 DEF Budget, q, G
<1> QED
  BY <1>7, <1>8

LEMMA FreeBudget ==
  ASSUME NEW p \in Pools, NEW H, Budget(p, H), NEW r \in H
  PROVE  Free(p, r) \in Pools /\ Budget(Free(p, r), H \ {r})
<1> DEFINE q == Free(p, r)
           G == H \ {r}
<1>1. H \subseteq Request /\ IsFiniteSet(H) /\ r \in Request /\ PrincipalOf[r] \in Principal
  BY AdmissionAssumption DEF Budget
<1>2. /\ q.held = p.held - 1 /\ q.waiting = p.waiting
      /\ q.byPrincipal =
            [p.byPrincipal EXCEPT ![PrincipalOf[r]] = p.byPrincipal[PrincipalOf[r]] - 1]
  BY <1>1, FreeIs
<1>3. G \subseteq Request /\ IsFiniteSet(G) /\ Cardinality(G) = Cardinality(H) - 1
  BY <1>1, FS_RemoveElement
<1>4. /\ Capacity \in Nat /\ Reserve \in Nat /\ PerPrincipalMax \in Nat /\ p.held \in Nat
      /\ p.byPrincipal \in [Principal -> Nat]
  BY AdmissionAssumption DEF Pools
<1>5. q.held = Cardinality(G) /\ q.held <= Capacity /\ q.held \in Nat
  BY <1>2, <1>3, <1>4, FS_CardinalityType DEF Budget
<1>6. ASSUME NEW x \in Principal
      PROVE  q.byPrincipal[x] = Cardinality(Of(G, x)) /\ q.byPrincipal[x] \in Nat
  <2>1. p.byPrincipal[x] = Cardinality(Of(H, x))
    BY DEF Budget
  <2>2. CASE x = PrincipalOf[r]
    <3>1. Of(G, x) = Of(H, x) \ {r} /\ r \in Of(H, x)
      BY <2>2 DEF Of
    <3>2. Cardinality(Of(G, x)) = Cardinality(Of(H, x)) - 1 /\ Cardinality(Of(G, x)) \in Nat
      BY <1>1, <1>3, <3>1, Parts, FS_RemoveElement
    <3> QED
      BY <1>2, <1>4, <2>1, <2>2, <3>2
  <2>3. CASE x # PrincipalOf[r]
    <3>1. Of(G, x) = Of(H, x)
      BY <2>3 DEF Of
    <3> QED
      BY <1>2, <1>4, <2>1, <2>3, <3>1
  <2> QED
    BY <2>2, <2>3
<1>7. q \in Pools
  <2> DEFINE by == [p.byPrincipal EXCEPT ![PrincipalOf[r]] = p.byPrincipal[PrincipalOf[r]] - 1]
  <2>1. by \in [Principal -> Nat]
    <3>1. \A x \in Principal : by[x] \in Nat
      BY <1>2, <1>6
    <3>2. by = [x \in Principal |-> by[x]]
      BY <1>4
    <3> HIDE DEF by
    <3> QED
      BY <3>1, <3>2
  <2>2. q = [p EXCEPT !.held = p.held - 1, !.byPrincipal = by] /\ p.held - 1 \in Nat
    BY <1>2, <1>5 DEF Free
  <2> HIDE DEF by, q
  <2>3. [p EXCEPT !.held = p.held - 1, !.byPrincipal = by] \in Pools
    BY <2>1, <2>2 DEF Pools
  <2> QED
    BY <2>2, <2>3
<1>8. Cardinality(Others(G)) <= Capacity - Reserve
  <2>1. Others(G) \in SUBSET Others(H)
    BY DEF Others
  <2>2. Cardinality(Others(G)) <= Cardinality(Others(H))
    BY <1>1, <2>1, Parts, FS_Subset
  <2>3. Cardinality(Others(G)) \in Nat /\ Cardinality(Others(H)) \in Nat
    BY <1>1, <1>3, Parts
  <2> QED
    BY <1>4, <2>2, <2>3 DEF Budget
<1>9. ASSUME NEW x \in Principal PROVE Cardinality(Of(Others(G), x)) <= PerPrincipalMax
  <2>1. Of(Others(G), x) \in SUBSET Of(Others(H), x)
    BY DEF Others, Of
  <2>2. Cardinality(Of(Others(G), x)) <= Cardinality(Of(Others(H), x))
    BY <1>1, <2>1, Parts, FS_Subset
  <2>3. Cardinality(Of(Others(G), x)) \in Nat /\ Cardinality(Of(Others(H), x)) \in Nat
    BY <1>1, <1>3, Parts
  <2> QED
    BY <1>4, <2>2, <2>3 DEF Budget
<1> HIDE DEF q, G
<1> QED
  BY <1>3, <1>5, <1>6, <1>7, <1>8, <1>9 DEF Budget, q, G

(* A fuller pool refuses whom a pool refuses.                                  *)
LEMMA FullerBlocks ==
  ASSUME NEW p, NEW q, p.held \in Int, q.held \in Int, p.held <= q.held,
         NEW r \in Request, p.byPrincipal[PrincipalOf[r]] \in Int,
         q.byPrincipal[PrincipalOf[r]] \in Int,
         p.byPrincipal[PrincipalOf[r]] <= q.byPrincipal[PrincipalOf[r]], Blocked(p, r)
  PROVE  Blocked(q, r)
BY AdmissionAssumption DEF Blocked
-------------------------------------------------------------------------------
(* One round of admitWaiters: a head takes a slot.                             *)
Grantable(p, cls) == p.waiting[cls] # <<>> /\ ~Blocked(p, Head(p.waiting[cls]))

LEMMA GrantIs ==
  ASSUME NEW p \in Pools, InLine(p), NEW cls \in Class, p.waiting[cls] # <<>>
  PROVE  LET q == GrantHead(p, cls)
             r == p.waiting[cls][1]
         IN  /\ q \in Pools /\ InLine(q)
             /\ q.held = p.held + 1
             /\ q.byPrincipal =
                   [p.byPrincipal EXCEPT ![PrincipalOf[r]] = p.byPrincipal[PrincipalOf[r]] + 1]
             /\ \A c \in Class \ {cls} : q.waiting[c] = p.waiting[c]
             /\ Len(q.waiting[cls]) = Len(p.waiting[cls]) - 1
             /\ \A i \in 1..Len(q.waiting[cls]) : q.waiting[cls][i] = p.waiting[cls][i + 1]
             /\ r \in Queued(p) /\ ClassOf[r] = cls /\ Queued(q) = Queued(p) \ {r}
<1> DEFINE line == p.waiting[cls]
           r == line[1]
           lines == [p.waiting EXCEPT ![cls] = Tail(line)]
           m == [p EXCEPT !.waiting = lines]
           q == GrantHead(p, cls)
<1>1. /\ line \in Seq(Request) /\ Len(line) \in Nat /\ 1 \in 1..Len(line)
      /\ r \in Request /\ r = Head(line)
  BY HeadsAre DEF Pools
<1>2. /\ Tail(line) \in Seq(Request) /\ Len(Tail(line)) = Len(line) - 1
      /\ \A i \in 1..Len(Tail(line)) : Tail(line)[i] = line[i + 1]
  BY <1>1
<1>3. lines \in [Class -> Seq(Request)]
  BY <1>2 DEF Pools
<1>4. m \in Pools /\ m.held = p.held /\ m.byPrincipal = p.byPrincipal /\ m.waiting = lines
  <2> HIDE DEF lines
  <2> QED
    BY <1>3 DEF Pools
<1>5. q = Take(m, r)
  BY <1>1 DEF GrantHead
<1>6. /\ q \in Pools /\ q.held = p.held + 1 /\ q.waiting = lines
      /\ q.byPrincipal =
            [p.byPrincipal EXCEPT ![PrincipalOf[r]] = p.byPrincipal[PrincipalOf[r]] + 1]
  <2> HIDE DEF m, q, lines, r, line
  <2>1. /\ Take(m, r) \in Pools
        /\ Take(m, r).held = m.held + 1 /\ Take(m, r).waiting = m.waiting
        /\ Take(m, r).byPrincipal =
              [m.byPrincipal EXCEPT ![PrincipalOf[r]] = m.byPrincipal[PrincipalOf[r]] + 1]
    BY <1>1, <1>4, TakeIs
  <2> QED
    BY <1>4, <1>5, <2>1
<1>7. /\ \A c \in Class \ {cls} : q.waiting[c] = p.waiting[c]
      /\ q.waiting[cls] = Tail(line)
  <2> HIDE DEF q
  <2> QED
    BY <1>6 DEF Pools
<1>8. InLine(q)
  <2> HIDE DEF q, line
  <2> SUFFICES ASSUME NEW c \in Class
               PROVE  /\ \A i \in 1..Len(q.waiting[c]) : ClassOf[q.waiting[c][i]] = c
                      /\ \A i, j \in 1..Len(q.waiting[c]) :
                            q.waiting[c][i] = q.waiting[c][j] => i = j
    BY DEF InLine
  <2>1. CASE c # cls
    BY <1>7, <2>1 DEF InLine
  <2>2. CASE c = cls
    <3>1. \A i \in 1..Len(Tail(line)) : i + 1 \in 1..Len(line)
      BY <1>1, <1>2
    <3>2. /\ \A i \in 1..Len(line) : ClassOf[line[i]] = cls
          /\ \A i, j \in 1..Len(line) : line[i] = line[j] => i = j
      BY DEF InLine, line
    <3>3. /\ \A i \in 1..Len(Tail(line)) : ClassOf[Tail(line)[i]] = cls
          /\ \A i, j \in 1..Len(Tail(line)) : Tail(line)[i] = Tail(line)[j] => i = j
      <4>1. ASSUME NEW i \in 1..Len(Tail(line)), NEW j \in 1..Len(Tail(line)),
                   Tail(line)[i] = Tail(line)[j]
            PROVE  i = j
        <5>1. i + 1 = j + 1
          BY <1>2, <3>1, <3>2, <4>1
        <5> QED
          BY <1>1, <1>2, <5>1
      <4> QED
        BY <1>2, <3>1, <3>2, <4>1
    <3>4. q.waiting[c] = Tail(line)
      BY <1>7, <2>2
    <3> HIDE DEF r, lines, m
    <3> QED
      BY <2>2, <3>3, <3>4
  <2> QED
    BY <2>1, <2>2
<1>9. r \in Queued(p) /\ ClassOf[r] = cls
  BY <1>1, QueuedIs DEF InLine
<1>10. ASSUME NEW x PROVE x \in Queued(q) <=> x \in Queued(p) \ {r}
  <2> HIDE DEF q, lines, m
  <2>0. \A y : y \in Queued(q) <=>
            \E c \in Class : \E i \in 1..Len(q.waiting[c]) : y = q.waiting[c][i]
    BY <1>6, QueuedIs
  <2>1. ASSUME x \in Queued(q) PROVE x \in Queued(p) \ {r}
    <3>1. PICK c \in Class : \E i \in 1..Len(q.waiting[c]) : x = q.waiting[c][i]
      BY <2>0, <2>1
    <3>2. PICK i \in 1..Len(q.waiting[c]) : x = q.waiting[c][i]
      BY <3>1
    <3>3. CASE c # cls
      <4>1. i \in 1..Len(p.waiting[c]) /\ x = p.waiting[c][i]
        BY <1>7, <3>2, <3>3
      <4>2. x \in Queued(p) /\ ClassOf[x] = c
        BY <4>1, QueuedIs DEF InLine
      <4> QED
        BY <1>9, <3>3, <4>2
    <3>4. CASE c = cls
      <4>1. i \in 1..Len(Tail(line)) /\ x = line[i + 1]
        BY <1>2, <1>7, <3>2, <3>4
      <4>2. i + 1 \in 1..Len(line) /\ i + 1 # 1
        BY <1>1, <1>2, <4>1
      <4>3. x \in Queued(p)
        BY <4>1, <4>2, QueuedIs
      <4>4. x # r
        BY <1>1, <4>1, <4>2 DEF InLine
      <4> QED
        BY <4>3, <4>4
    <3> QED
      BY <3>3, <3>4
  <2>2. ASSUME x \in Queued(p), x # r PROVE x \in Queued(q)
    <3>1. PICK c \in Class : \E i \in 1..Len(p.waiting[c]) : x = p.waiting[c][i]
      BY <2>2, QueuedIs
    <3>2. PICK i \in 1..Len(p.waiting[c]) : x = p.waiting[c][i]
      BY <3>1
    <3>3. CASE c # cls
      <4>1. i \in 1..Len(q.waiting[c]) /\ x = q.waiting[c][i]
        BY <1>7, <3>2, <3>3
      <4> QED
        BY <2>0, <4>1
    <3>4. CASE c = cls
      <4>1. i \in 1..Len(line) /\ i # 1
        BY <2>2, <3>2, <3>4
      <4>2. i - 1 \in 1..Len(Tail(line)) /\ (i - 1) + 1 = i
        BY <1>1, <1>2, <4>1
      <4>3. x = Tail(line)[i - 1]
        BY <1>2, <3>2, <3>4, <4>2
      <4>4. i - 1 \in 1..Len(q.waiting[c]) /\ x = q.waiting[c][i - 1]
        BY <1>7, <3>4, <4>2, <4>3
      <4> QED
        BY <2>0, <4>4
    <3> QED
      BY <3>3, <3>4
  <2> QED
    BY <2>1, <2>2
<1> HIDE DEF q, r, line
<1>11. Queued(q) = Queued(p) \ {r}
  BY <1>10
<1> QED
  BY <1>2, <1>6, <1>7, <1>8, <1>9, <1>11 DEF q, r, line

(* A round leaves the pool alone if no head fits; otherwise the head of the     *)
(* highest class that fits takes a slot.                                     *)
LEMMA NextIs ==
  ASSUME NEW p \in Pools, InLine(p)
  PROVE  \/ AllBlocked(p) /\ GrantNext(p) = p
         \/ \E cls \in Class :
               /\ Grantable(p, cls) /\ GrantNext(p) = GrantHead(p, cls)
               /\ \A h \in Heads(p) : Rank(h) < Rank(p.waiting[cls][1]) => Blocked(p, h)
<1> DEFINE F == Fitting(p)
<1>1. F = {i \in 1..3 : Grantable(p, ClassOrder[i])}
  BY Classes DEF Fitting, Grantable
<1>2. ASSUME NEW cls \in Class, p.waiting[cls] # <<>>
      PROVE  /\ p.waiting[cls][1] \in Request /\ Head(p.waiting[cls]) = p.waiting[cls][1]
             /\ Rank(p.waiting[cls][1]) \in 1..3
             /\ ClassOrder[Rank(p.waiting[cls][1])] = cls
  <2>1. /\ p.waiting[cls][1] \in Request /\ Head(p.waiting[cls]) = p.waiting[cls][1]
        /\ ClassOf[p.waiting[cls][1]] = cls
    BY <1>2, HeadsAre DEF InLine
  <2> QED
    BY <2>1, RankIs
<1>3. CASE F = {}
  <2>1. ASSUME NEW h \in Heads(p) PROVE Blocked(p, h)
    <3>1. PICK cls \in Class : p.waiting[cls] # <<>> /\ h = p.waiting[cls][1]
      BY HeadsAre
    <3>2. Rank(h) \in 1..3 /\ ClassOrder[Rank(h)] = cls /\ h = Head(p.waiting[cls])
      BY <1>2, <3>1
    <3> HIDE DEF F
    <3> QED
      BY <1>1, <1>3, <3>1, <3>2 DEF Grantable
  <2> QED
    BY <1>3, <2>1 DEF GrantNext, AllBlocked
<1>4. CASE F # {}
  <2>1. F \subseteq {1, 2, 3}
    BY <1>1
  <2>2. \E m \in F : \A i \in F : m =< i
    <3> HIDE DEF F
    <3>1. CASE 1 \in F
      BY <2>1, <3>1
    <3>2. CASE 1 \notin F /\ 2 \in F
      BY <2>1, <3>2
    <3>3. CASE 1 \notin F /\ 2 \notin F
      <4>1. F = {3}
        BY <1>4, <2>1, <3>3
      <4> QED
        BY <4>1
    <3> QED
      BY <3>1, <3>2, <3>3
  <2> DEFINE m == Min(F)
             cls == ClassOrder[m]
  <2>3. m \in F /\ \A i \in F : m <= i
    BY <2>2 DEF Min
  <2> HIDE DEF m, F
  <2>4. m \in 1..3 /\ cls \in Class /\ Grantable(p, cls)
    BY <1>1, <2>3, Classes
  <2>5. GrantNext(p) = GrantHead(p, cls)
    BY <1>4 DEF GrantNext, F, m
  <2>6. Rank(p.waiting[cls][1]) = m
    <3>1. /\ Rank(p.waiting[cls][1]) \in 1..3
          /\ ClassOrder[Rank(p.waiting[cls][1])] = ClassOrder[m]
      BY <1>2, <2>4 DEF Grantable
    <3> QED
      BY <2>4, <3>1, Classes
  <2>7. ASSUME NEW h \in Heads(p), Rank(h) < m PROVE Blocked(p, h)
    <3>1. PICK c \in Class : p.waiting[c] # <<>> /\ h = p.waiting[c][1]
      BY HeadsAre
    <3>2. Rank(h) \in 1..3 /\ ClassOrder[Rank(h)] = c /\ h = Head(p.waiting[c])
      BY <1>2, <3>1
    <3>3. Rank(h) \notin F
      BY <2>3, <2>4, <2>7, <3>2
    <3> QED
      BY <1>1, <3>1, <3>2, <3>3 DEF Grantable
  <2> QED
    BY <2>4, <2>5, <2>6, <2>7
<1> QED
  BY <1>3, <1>4

LEMMA RoundKeeps ==
  ASSUME NEW o \in Pools, NEW p, NEW U, Sound(p, U), Turn(o, p),
         NEW cls \in Class, Grantable(p, cls),
         \A h \in Heads(p) : Rank(h) < Rank(p.waiting[cls][1]) => Blocked(p, h)
  PROVE  LET q == GrantHead(p, cls)
         IN  /\ Sound(q, U) /\ Turn(o, q)
             /\ Cardinality(Queued(q)) = Cardinality(Queued(p)) - 1
<1> DEFINE q == GrantHead(p, cls)
           r == p.waiting[cls][1]
<1>1. /\ p \in Pools /\ InLine(p) /\ Queued(p) \subseteq U /\ U \subseteq Request
      /\ Budget(p, U \ Queued(p)) /\ p.waiting[cls] # <<>>
  BY DEF Sound, Grantable
<1>2. /\ q \in Pools /\ InLine(q)
      /\ q.held = p.held + 1
      /\ q.byPrincipal =
            [p.byPrincipal EXCEPT ![PrincipalOf[r]] = p.byPrincipal[PrincipalOf[r]] + 1]
      /\ \A c \in Class \ {cls} : q.waiting[c] = p.waiting[c]
      /\ Len(q.waiting[cls]) = Len(p.waiting[cls]) - 1
      /\ \A i \in 1..Len(q.waiting[cls]) : q.waiting[cls][i] = p.waiting[cls][i + 1]
      /\ r \in Queued(p) /\ ClassOf[r] = cls /\ Queued(q) = Queued(p) \ {r}
  BY <1>1, GrantIs
<1>3. ~Blocked(p, r) /\ r \in Request /\ r \in Heads(p)
  BY <1>1, HeadsAre DEF Grantable
<1> HIDE DEF q, r
<1>4. Budget(q, U \ Queued(q))
  <2> DEFINE H == U \ Queued(p)
  <2>1. U \ Queued(q) = H \cup {r} /\ r \in Request \ H
    BY <1>1, <1>2, <1>3
  <2>2. Budget(Take(p, r), H \cup {r})
    BY <1>1, <1>3, <2>1, TakeBudget
  <2>3. Take(p, r).held = q.held /\ Take(p, r).byPrincipal = q.byPrincipal
    BY <1>1, <1>2, <1>3, TakeIs
  <2> QED
    BY <2>1, <2>2, <2>3 DEF Budget
<1>5. Sound(q, U)
  BY <1>1, <1>2, <1>4 DEF Sound
<1>6. Cardinality(Queued(q)) = Cardinality(Queued(p)) - 1
  BY <1>1, <1>2, QueuedIs, FS_RemoveElement
<1>7. ASSUME NEW c \in Class
      PROVE  /\ Len(q.waiting[c]) <= Len(o.waiting[c])
             /\ \A i \in 1..Len(q.waiting[c]) :
                   q.waiting[c][i] =
                       o.waiting[c][i + Len(o.waiting[c]) - Len(q.waiting[c])]
  <2>1. /\ Len(p.waiting[c]) <= Len(o.waiting[c])
        /\ \A i \in 1..Len(p.waiting[c]) :
              p.waiting[c][i] = o.waiting[c][i + Len(o.waiting[c]) - Len(p.waiting[c])]
    BY DEF Turn
  <2>2. CASE c # cls
    BY <1>2, <2>1, <2>2
  <2>3. CASE c = cls
    <3>1. /\ Len(p.waiting[c]) \in Nat /\ Len(o.waiting[c]) \in Nat
          /\ Len(q.waiting[c]) = Len(p.waiting[c]) - 1
      BY <1>1, <1>2, <2>3 DEF Pools
    <3>2. ASSUME NEW i \in 1..Len(q.waiting[c])
          PROVE  q.waiting[c][i] = o.waiting[c][i + Len(o.waiting[c]) - Len(q.waiting[c])]
      <4>1. i \in Nat /\ i + 1 \in 1..Len(p.waiting[c]) /\ q.waiting[c][i] = p.waiting[c][i + 1]
        BY <1>2, <2>3, <3>1
      <4>2. p.waiting[c][i + 1] = o.waiting[c][(i + 1) + Len(o.waiting[c]) - Len(p.waiting[c])]
        BY <2>1, <4>1
      <4>3. (i + 1) + Len(o.waiting[c]) - Len(p.waiting[c])
                = i + Len(o.waiting[c]) - Len(q.waiting[c])
        <5> DEFINE a == Len(o.waiting[c])
                   b == Len(p.waiting[c])
                   d == Len(q.waiting[c])
        <5>1. a \in Int /\ b \in Int /\ d = b - 1 /\ i \in Int
          BY <3>1, <4>1
        <5> HIDE DEF a, b, d
        <5>2. (i + 1) + a - b = i + a - d
          BY <5>1
        <5> QED
          BY <5>2 DEF a, b, d
      <4> QED
        BY <4>1, <4>2, <4>3
    <3>3. Len(q.waiting[c]) <= Len(o.waiting[c])
      <4>1. \A a, b \in Int : a <= b => a - 1 <= b
        OBVIOUS
      <4> QED
        BY <2>1, <3>1, <4>1
    <3> QED
      BY <3>2, <3>3
  <2> QED
    BY <2>2, <2>3
<1>8. ASSUME NEW w \in Queued(o) \ Queued(q), NEW h \in Heads(q), Rank(h) < Rank(w)
      PROVE  Blocked(Free(q, w), h)
  <2>1. w \in Request /\ h \in Request
    BY <1>2, QueuedIs, HeadsAre
  <2>2. PrincipalOf[w] \in Principal /\ PrincipalOf[h] \in Principal /\ PrincipalOf[r] \in Principal
    BY <1>3, <2>1, AdmissionAssumption
  <2>3. /\ p.held \in Int /\ p.byPrincipal \in [Principal -> Int]
        /\ q.held \in Int /\ q.byPrincipal \in [Principal -> Int]
        /\ \A x \in Principal : p.byPrincipal[x] <= q.byPrincipal[x]
    BY <1>1, <1>2, <2>2 DEF Pools
  <2>4. /\ Free(q, w).held = q.held - 1
        /\ Free(q, w).byPrincipal =
              [q.byPrincipal EXCEPT ![PrincipalOf[w]] = q.byPrincipal[PrincipalOf[w]] - 1]
    BY <1>2, <2>1, FreeIs
  <2>5. PICK c \in Class : q.waiting[c] # <<>> /\ h = q.waiting[c][1]
    BY <1>2, HeadsAre
  <2>6. CASE w = r
    <3>1. ClassOf[h] = c
      BY <1>2, <2>5, HeadsAre DEF InLine
    <3>2. c # cls
      <4>1. c = cls => Rank(h) = Rank(w)
        BY <1>2, <2>6, <3>1 DEF Rank
      <4>2. Rank(h) \in 1..3
        BY <2>1, RankIs
      <4> QED
        BY <1>8, <4>1, <4>2
    <3>3. h \in Heads(p)
      BY <1>1, <1>2, <2>5, <3>2, HeadsAre
    <3>4. Blocked(p, h)
      BY <1>8, <2>6, <3>3 DEF r
    <3>5. Free(q, w).held = p.held /\ Free(q, w).byPrincipal = p.byPrincipal
      BY <1>2, <2>2, <2>3, <2>4, <2>6
    <3> QED
      BY <3>4, <3>5 DEF Blocked
  <2>7. CASE w # r
    <3>1. w \in Queued(o) \ Queued(p)
      BY <1>2, <2>7
    <3>2. c # cls
      <4> SUFFICES ASSUME c = cls PROVE FALSE
        OBVIOUS
      <4>1. ClassOf[h] = cls
        BY <1>2, <2>5, HeadsAre DEF InLine
      <4>2. Rank(r) = Rank(h)
        BY <1>2, <4>1 DEF Rank
      <4>3. Blocked(Free(p, w), r)
        BY <1>3, <1>8, <3>1, <4>2 DEF Turn
      <4>4. /\ Free(p, w).held = p.held - 1
            /\ Free(p, w).byPrincipal =
                  [p.byPrincipal EXCEPT ![PrincipalOf[w]] = p.byPrincipal[PrincipalOf[w]] - 1]
        BY <1>1, <2>1, FreeIs
      <4>5. /\ Free(p, w).held \in Int /\ Free(p, w).held <= p.held
            /\ Free(p, w).byPrincipal[PrincipalOf[r]] \in Int
            /\ Free(p, w).byPrincipal[PrincipalOf[r]] <= p.byPrincipal[PrincipalOf[r]]
        BY <2>2, <2>3, <4>4
      <4>6. p.byPrincipal[PrincipalOf[r]] \in Int
        BY <2>2, <2>3
      <4>7. Blocked(p, r)
        BY <1>3, <2>3, <4>3, <4>5, <4>6, FullerBlocks
      <4> QED
        BY <1>3, <4>7
    <3>3. h \in Heads(p)
      BY <1>1, <1>2, <2>5, <3>2, HeadsAre
    <3>4. Blocked(Free(p, w), h)
      BY <1>8, <3>1, <3>3 DEF Turn
    <3>5. /\ Free(p, w).held = p.held - 1
          /\ Free(p, w).byPrincipal =
                [p.byPrincipal EXCEPT ![PrincipalOf[w]] = p.byPrincipal[PrincipalOf[w]] - 1]
      BY <1>1, <2>1, FreeIs
    <3>6. /\ Free(p, w).held \in Int /\ Free(q, w).held \in Int
          /\ Free(p, w).held <= Free(q, w).held
      BY <1>2, <2>3, <2>4, <3>5
    <3>7. /\ Free(p, w).byPrincipal[PrincipalOf[h]] \in Int
          /\ Free(q, w).byPrincipal[PrincipalOf[h]] \in Int
          /\ Free(p, w).byPrincipal[PrincipalOf[h]] <= Free(q, w).byPrincipal[PrincipalOf[h]]
      BY <2>2, <2>3, <2>4, <3>5
    <3> QED
      BY <2>1, <3>4, <3>6, <3>7, FullerBlocks
  <2> QED
    BY <2>6, <2>7
<1>9. Turn(o, q)
  BY <1>7, <1>8 DEF Turn
<1> QED
  BY <1>5, <1>6, <1>9 DEF q

(* Every set of numbers has a least one.                                       *)
LEMMA Least ==
  ASSUME NEW T \in SUBSET Nat, T # {}
  PROVE  \E n \in T : \A m \in T : n <= m
<1>1. PICK n \in T : \A m \in T : ~(<<m, n>> \in OpToRel(<, Nat))
  BY NatLessThanWellFounded, WFMin, Zenon
<1>2. ASSUME NEW m \in T, m < n PROVE <<m, n>> \in OpToRel(<, Nat)
  BY <1>2 DEF OpToRel
<1>3. \A m \in T : ~(m < n)
  BY <1>1, <1>2, Zenon
<1> QED
  BY <1>3

(* The rounds of admitWaiters on pool o, up to the k-th.                        *)
Rounds(after, o, k) ==
    after = [n \in 0..k |-> IF n = 0 THEN {o} ELSE {GrantNext(p) : p \in after[n - 1]}]

LEMMA RoundsExist ==
  ASSUME NEW o, NEW k \in Nat
  PROVE  \E after : Rounds(after, o, k)
<1> DEFINE Bad == {n \in Nat : ~ \E after : Rounds(after, o, n)}
<1> SUFFICES ASSUME Bad # {} PROVE FALSE
  OBVIOUS
<1>1. PICK n \in Bad : \A m \in Bad : n <= m
  <2> HIDE DEF Bad
  <2> QED
    BY Least DEF Bad
<1>2. n \in Nat /\ ~ \E after : Rounds(after, o, n)
  BY <1>1
<1>3. n # 0
  <2> DEFINE first == [m \in 0..0 |-> {o}]
  <2>1. first = [m \in 0..0 |-> IF m = 0 THEN {o} ELSE {GrantNext(p) : p \in first[m - 1]}]
    <3>1. \A m \in 0..0 : m = 0
      OBVIOUS
    <3> QED
      BY <3>1
  <2> HIDE DEF first
  <2>2. Rounds(first, o, 0)
    BY <2>1 DEF Rounds
  <2> QED
    BY <1>2, <2>2
<1>4. n - 1 \in Nat /\ n - 1 \notin Bad
  BY <1>1, <1>2, <1>3
<1>5. PICK f : Rounds(f, o, n - 1)
  BY <1>4
<1> DEFINE g == [m \in 0..n |-> IF m = n THEN {GrantNext(p) : p \in f[n - 1]} ELSE f[m]]
<1>6. ASSUME NEW m \in 0..n
      PROVE  g[m] = IF m = 0 THEN {o} ELSE {GrantNext(p) : p \in g[m - 1]}
  <2>1. CASE m = n
    <3>1. n - 1 \in 0..n /\ n - 1 # n
      BY <1>2, <1>4
    <3>2. g[m - 1] = f[n - 1]
      BY <2>1, <3>1
    <3> QED
      BY <1>3, <2>1, <3>2
  <2>2. CASE m # n
    <3>1. m \in 0..(n - 1)
      BY <1>2, <2>2
    <3>2. f[m] = IF m = 0 THEN {o} ELSE {GrantNext(p) : p \in f[m - 1]}
      BY <1>5, <3>1 DEF Rounds
    <3>3. m # 0 => m - 1 \in 0..n /\ m - 1 # n
      BY <1>2, <3>1
    <3>4. m # 0 => g[m - 1] = f[m - 1]
      BY <3>3
    <3> QED
      BY <2>2, <3>2, <3>4
  <2> QED
    BY <2>1, <2>2
<1>7. g = [m \in 0..n |-> g[m]]
  OBVIOUS
<1> HIDE DEF g
<1>8. g = [m \in 0..n |-> IF m = 0 THEN {o} ELSE {GrantNext(p) : p \in g[m - 1]}]
  BY <1>6, <1>7
<1> QED
  BY <1>2, <1>8 DEF Rounds

(* After a round nobody who waits fits, or fewer rounds are still needed.       *)
LEMMA RoundsKeep ==
  ASSUME NEW o, NEW U, Sound(o, U), NEW f, NEW k \in Nat, k = Cardinality(Queued(o)),
         Rounds(f, o, k), NEW n \in 0..k
  PROVE  \E p : /\ f[n] = {p} /\ Sound(p, U) /\ Turn(o, p)
                /\ AllBlocked(p) \/ Cardinality(Queued(p)) <= k - n
<1> DEFINE Kept(i) == \E p : /\ f[i] = {p} /\ Sound(p, U) /\ Turn(o, p)
                             /\ AllBlocked(p) \/ Cardinality(Queued(p)) <= k - i
           Bad == {i \in 0..k : ~Kept(i)}
<1> SUFFICES ASSUME Bad # {} PROVE FALSE
  OBVIOUS
<1>1. PICK i \in Bad : \A j \in Bad : i <= j
  <2>1. Bad \in SUBSET Nat
    OBVIOUS
  <2> HIDE DEF Bad
  <2> QED
    BY <2>1, Least
<1>2. i \in 0..k /\ ~Kept(i)
  BY <1>1
<1>3. o \in Pools /\ InLine(o)
  BY DEF Sound
<1>4. \A j \in 0..k : f[j] = IF j = 0 THEN {o} ELSE {GrantNext(p) : p \in f[j - 1]}
  BY DEF Rounds
<1>5. i # 0
  <2>1. Turn(o, o)
    <3>1. \A cls \in Class : Len(o.waiting[cls]) \in Nat
      BY <1>3 DEF Pools
    <3>2. \A a \in Nat, b \in Nat : a + b - b = a
      OBVIOUS
    <3> QED
      BY <3>1, <3>2 DEF Turn
  <2>2. f[0] = {o} /\ Cardinality(Queued(o)) <= k - 0
    <3>1. 0 \in 0..k /\ k <= k - 0
      OBVIOUS
    <3>2. f[0] = {o}
      BY <1>4, <3>1, Zenon
    <3> QED
      BY <3>1, <3>2
  <2>3. Kept(0)
    BY <2>1, <2>2
  <2> QED
    BY <1>2, <2>3
<1>6. i - 1 \in 0..k /\ i - 1 \notin Bad
  BY <1>1, <1>2, <1>5
<1>7. PICK p : /\ f[i - 1] = {p} /\ Sound(p, U) /\ Turn(o, p)
               /\ AllBlocked(p) \/ Cardinality(Queued(p)) <= k - (i - 1)
  BY <1>6
<1>8. f[i] = {GrantNext(p)}
  <2>1. f[i] = {GrantNext(x) : x \in f[i - 1]}
    BY <1>2, <1>4, <1>5, Zenon
  <2>2. {GrantNext(x) : x \in {p}} = {GrantNext(p)}
    OBVIOUS
  <2>3. f[i - 1] = {p}
    BY <1>7
  <2> QED
    BY <2>1, <2>2, <2>3, Zenon
<1>9. p \in Pools /\ InLine(p)
  BY <1>7 DEF Sound
<1>10. CASE AllBlocked(p) /\ GrantNext(p) = p
  <2>1. Kept(i)
    BY <1>7, <1>8, <1>10
  <2> QED
    BY <1>2, <2>1
<1>11. ASSUME NEW cls \in Class, Grantable(p, cls), GrantNext(p) = GrantHead(p, cls),
              \A h \in Heads(p) : Rank(h) < Rank(p.waiting[cls][1]) => Blocked(p, h)
       PROVE  FALSE
  <2>1. /\ Sound(GrantNext(p), U) /\ Turn(o, GrantNext(p))
        /\ Cardinality(Queued(GrantNext(p))) = Cardinality(Queued(p)) - 1
    BY <1>3, <1>7, <1>11, RoundKeeps
  <2>2. ~AllBlocked(p)
    BY <1>9, <1>11, HeadsAre DEF Grantable, AllBlocked
  <2>3. Cardinality(Queued(p)) \in Nat
    BY <1>9, QueuedIs, FS_CardinalityType
  <2>4. Cardinality(Queued(GrantNext(p))) <= k - i
    BY <1>2, <1>7, <2>1, <2>2, <2>3
  <2>5. Kept(i)
    BY <1>8, <2>1, <2>4
  <2> QED
    BY <1>2, <2>5
<1> QED
  BY <1>9, <1>10, <1>11, NextIs

(* admitWaiters keeps the budget, grants in turn and leaves no head that fits.  *)
LEMMA AdmitIs ==
  ASSUME NEW o, NEW U, Sound(o, U)
  PROVE  LET p == AdmitWaiters(o)
         IN  Sound(p, U) /\ Turn(o, p) /\ AllBlocked(p)
<1> DEFINE k == Cardinality(Queued(o))
           f == CHOOSE g : Rounds(g, o, k)
<1>1. k \in Nat
  BY QueuedIs, FS_CardinalityType DEF Sound
<1>2. AdmitWaiters(o) = CHOOSE p \in f[k] : TRUE
  BY DEF AdmitWaiters, Rounds
<1>3. Rounds(f, o, k)
  BY <1>1, RoundsExist
<1> HIDE DEF f
<1>4. PICK p : /\ f[k] = {p} /\ Sound(p, U) /\ Turn(o, p)
               /\ AllBlocked(p) \/ Cardinality(Queued(p)) <= k - k
  <2>1. k \in 0..k
    BY <1>1
  <2> HIDE DEF k
  <2> QED
    BY <1>1, <1>3, <2>1, RoundsKeep DEF k
<1>5. AdmitWaiters(o) = p
  BY <1>2, <1>4
<1>6. AllBlocked(p)
  <2> SUFFICES ASSUME Cardinality(Queued(p)) <= 0 PROVE AllBlocked(p)
    BY <1>1, <1>4
  <2>1. p \in Pools /\ IsFiniteSet(Queued(p)) /\ Cardinality(Queued(p)) \in Nat
    BY <1>4, QueuedIs, FS_CardinalityType DEF Sound
  <2>2. Queued(p) = {}
    BY <2>1, FS_EmptySet
  <2> QED
    BY <2>1, <2>2, HeadsAre DEF AllBlocked
<1> QED
  BY <1>4, <1>5, <1>6
-------------------------------------------------------------------------------
(* Lines that lost a prefix hold no one else, and whoever is left in one is     *)
(* followed by the same requests.                                             *)
LEMMA Suffix ==
  ASSUME NEW o \in Pools, InLine(o), NEW p \in Pools, Turn(o, p)
  PROVE  /\ Queued(p) \subseteq Queued(o)
         /\ \A cls \in Class : Len(p.waiting[cls]) <= Len(o.waiting[cls])
         /\ \A cls \in Class : \A i, j \in 1..Len(o.waiting[cls]) :
               i < j /\ o.waiting[cls][i] \in Queued(p) => o.waiting[cls][j] \in Queued(p)
<1>1. ASSUME NEW cls \in Class
      PROVE  /\ Len(p.waiting[cls]) \in Nat /\ Len(o.waiting[cls]) \in Nat
             /\ Len(p.waiting[cls]) <= Len(o.waiting[cls])
  <2>1. Len(p.waiting[cls]) \in Nat /\ Len(o.waiting[cls]) \in Nat
    BY DEF Pools
  <2>2. Len(p.waiting[cls]) <= Len(o.waiting[cls])
    BY DEF Turn
  <2> QED
    BY <2>1, <2>2
<1>2. ASSUME NEW cls \in Class, NEW i \in 1..Len(p.waiting[cls])
      PROVE  /\ i + (Len(o.waiting[cls]) - Len(p.waiting[cls])) \in 1..Len(o.waiting[cls])
             /\ p.waiting[cls][i] =
                    o.waiting[cls][i + (Len(o.waiting[cls]) - Len(p.waiting[cls]))]
  <2>1. p.waiting[cls][i] = o.waiting[cls][i + Len(o.waiting[cls]) - Len(p.waiting[cls])]
    BY DEF Turn
  <2> DEFINE a == Len(o.waiting[cls])
             b == Len(p.waiting[cls])
  <2>2. a \in Nat /\ b \in Nat /\ b <= a /\ i \in 1..b
    BY <1>1
  <2> HIDE DEF a, b
  <2>3. i + (a - b) \in 1..a
    BY <2>2
  <2> QED
    BY <2>1, <2>3 DEF a, b
<1>3. Queued(p) \subseteq Queued(o)
  <2> SUFFICES ASSUME NEW x \in Queued(p) PROVE x \in Queued(o)
    OBVIOUS
  <2>1. PICK cls \in Class : \E i \in 1..Len(p.waiting[cls]) : x = p.waiting[cls][i]
    BY QueuedIs
  <2>2. PICK i \in 1..Len(p.waiting[cls]) : x = p.waiting[cls][i]
    BY <2>1
  <2>3. \E j \in 1..Len(o.waiting[cls]) : x = o.waiting[cls][j]
    BY <1>2, <2>2
  <2> QED
    BY <2>3, QueuedIs
<1>4. ASSUME NEW cls \in Class,
             NEW i \in 1..Len(o.waiting[cls]), NEW j \in 1..Len(o.waiting[cls]),
             i < j, o.waiting[cls][i] \in Queued(p)
      PROVE  o.waiting[cls][j] \in Queued(p)
  <2> DEFINE x == o.waiting[cls][i]
             a == Len(o.waiting[cls])
             b == Len(p.waiting[cls])
  <2>1. PICK c \in Class : \E m \in 1..Len(p.waiting[c]) : x = p.waiting[c][m]
    BY <1>4, QueuedIs
  <2>2. PICK m \in 1..Len(p.waiting[c]) : x = p.waiting[c][m]
    BY <2>1
  <2>3. c = cls
    <3>1. PICK n \in 1..Len(o.waiting[c]) : x = o.waiting[c][n]
      BY <1>2, <2>2
    <3>2. ClassOf[o.waiting[c][n]] = c /\ ClassOf[o.waiting[cls][i]] = cls
      BY DEF InLine
    <3> QED
      BY <3>1, <3>2
  <2>4. /\ m \in 1..b /\ m + (a - b) \in 1..a
        /\ o.waiting[cls][m + (a - b)] = o.waiting[cls][i]
    BY <1>2, <2>2, <2>3
  <2>5. i = m + (a - b)
    BY <2>4 DEF InLine
  <2>6. a \in Nat /\ b \in Nat /\ b <= a /\ i \in 1..a /\ j \in 1..a
    BY <1>1
  <2>7. o.waiting[cls][j] = p.waiting[cls][j - (a - b)] /\ j - (a - b) \in 1..b
    <3> HIDE DEF a, b
    <3>1. j - (a - b) \in 1..b /\ (j - (a - b)) + (a - b) = j
      BY <1>4, <2>4, <2>5, <2>6
    <3> QED
      BY <1>2, <3>1 DEF a, b
  <2> QED
    BY <2>7, QueuedIs
<1> QED
  BY <1>1, <1>3, <1>4

LEMMA JoinIs ==
  ASSUME NEW p \in Pools, InLine(p), NEW r \in Request, r \notin Queued(p)
  PROVE  LET q == JoinQueue(p, r)
             cls == ClassOf[r]
         IN  /\ q \in Pools /\ InLine(q) /\ q.held = p.held /\ q.byPrincipal = p.byPrincipal
             /\ \A c \in Class \ {cls} : q.waiting[c] = p.waiting[c]
             /\ q.waiting[cls] = Append(p.waiting[cls], r)
             /\ Queued(q) = Queued(p) \cup {r}
             /\ Heads(q) \subseteq Heads(p) \cup {r}
<1> DEFINE q == JoinQueue(p, r)
           cls == ClassOf[r]
           line == p.waiting[cls]
           lines == [p.waiting EXCEPT ![cls] = Append(line, r)]
<1>1. cls \in Class
  BY AdmissionAssumption DEF Class
<1>2. line \in Seq(Request) /\ Len(line) \in Nat /\ Append(line, r) \in Seq(Request)
  BY <1>1 DEF Pools
<1>3. /\ Len(Append(line, r)) = Len(line) + 1
      /\ \A i \in 1..Len(line) : Append(line, r)[i] = line[i]
      /\ Append(line, r)[Len(line) + 1] = r
  BY <1>2
<1>4. lines \in [Class -> Seq(Request)]
  BY <1>1, <1>2 DEF Pools
<1>5. q = [p EXCEPT !.waiting = lines]
  BY DEF JoinQueue
<1>6. q \in Pools /\ q.held = p.held /\ q.byPrincipal = p.byPrincipal /\ q.waiting = lines
  <2> HIDE DEF q, lines
  <2> QED
    BY <1>4, <1>5 DEF Pools
<1>7. /\ \A c \in Class \ {cls} : q.waiting[c] = p.waiting[c]
      /\ q.waiting[cls] = Append(line, r)
  <2> HIDE DEF q
  <2> QED
    BY <1>1, <1>6 DEF Pools
<1> HIDE DEF q
<1>8. ASSUME NEW c \in Class, NEW i \in 1..Len(q.waiting[c])
      PROVE  \/ i \in 1..Len(p.waiting[c]) /\ q.waiting[c][i] = p.waiting[c][i]
             \/ c = cls /\ i = Len(line) + 1 /\ q.waiting[c][i] = r
  <2>1. CASE c # cls
    BY <1>7, <2>1
  <2>2. CASE c = cls
    <3>1. q.waiting[c] = Append(line, r) /\ p.waiting[c] = line
      BY <1>7, <2>2
    <3>2. i \in 1..(Len(line) + 1)
      BY <1>3, <3>1
    <3>3. i \in 1..Len(line) \/ i = Len(line) + 1
      BY <1>2, <3>2
    <3> HIDE DEF line, cls, lines
    <3> QED
      BY <1>3, <2>2, <3>1, <3>3
  <2> QED
    BY <2>1, <2>2
<1>9. ASSUME NEW c \in Class, NEW i \in 1..Len(p.waiting[c])
      PROVE  i \in 1..Len(q.waiting[c]) /\ q.waiting[c][i] = p.waiting[c][i]
  <2>1. CASE c # cls
    BY <1>7, <2>1
  <2>2. CASE c = cls
    <3>1. q.waiting[c] = Append(line, r) /\ p.waiting[c] = line
      BY <1>7, <2>2
    <3>2. i \in 1..(Len(line) + 1) /\ i \in 1..Len(line)
      BY <1>2, <3>1
    <3> HIDE DEF line, cls, lines
    <3> QED
      BY <1>3, <3>1, <3>2
  <2> QED
    BY <2>1, <2>2
<1>10. \A c \in Class : \A i \in 1..Len(p.waiting[c]) : p.waiting[c][i] # r
  BY QueuedIs
<1>11. InLine(q)
  <2>1. ASSUME NEW c \in Class, NEW i \in 1..Len(q.waiting[c])
        PROVE  ClassOf[q.waiting[c][i]] = c
    BY <1>8 DEF InLine
  <2>2. ASSUME NEW c \in Class, NEW i \in 1..Len(q.waiting[c]), NEW j \in 1..Len(q.waiting[c]),
               q.waiting[c][i] = q.waiting[c][j]
        PROVE  i = j
    <3>1. \/ i \in 1..Len(p.waiting[c]) /\ q.waiting[c][i] = p.waiting[c][i]
          \/ i = Len(line) + 1 /\ q.waiting[c][i] = r
      BY <1>8
    <3>2. \/ j \in 1..Len(p.waiting[c]) /\ q.waiting[c][j] = p.waiting[c][j]
          \/ j = Len(line) + 1 /\ q.waiting[c][j] = r
      BY <1>8
    <3> QED
      BY <1>10, <2>2, <3>1, <3>2 DEF InLine
  <2> QED
    BY <2>1, <2>2 DEF InLine
<1>12. ASSUME NEW x PROVE x \in Queued(q) <=> x \in Queued(p) \cup {r}
  <2>0. \A y : y \in Queued(q) <=>
            \E c \in Class : \E i \in 1..Len(q.waiting[c]) : y = q.waiting[c][i]
    BY <1>6, QueuedIs
  <2>1. \A y : y \in Queued(p) <=>
            \E c \in Class : \E i \in 1..Len(p.waiting[c]) : y = p.waiting[c][i]
    BY QueuedIs
  <2>2. x \in Queued(q) => x \in Queued(p) \cup {r}
    BY <1>8, <2>0, <2>1
  <2>3. x \in Queued(p) => x \in Queued(q)
    BY <1>9, <2>0, <2>1
  <2>4. r \in Queued(q)
    <3>1. Len(line) + 1 \in 1..Len(q.waiting[cls]) /\ q.waiting[cls][Len(line) + 1] = r
      BY <1>2, <1>3, <1>7
    <3> QED
      BY <1>1, <2>0, <3>1
  <2> QED
    BY <2>2, <2>3, <2>4
<1>13. ASSUME NEW h \in Heads(q) PROVE h \in Heads(p) \cup {r}
  <2> HIDE DEF line, lines, cls
  <2>0. /\ \A x : x \in Heads(q) <=> \E c \in Class : q.waiting[c] # <<>> /\ x = q.waiting[c][1]
        /\ \A c \in Class : q.waiting[c] # <<>> => 1 \in 1..Len(q.waiting[c])
    BY <1>6, HeadsAre
  <2>1. PICK c \in Class : q.waiting[c] # <<>> /\ h = q.waiting[c][1]
    BY <2>0
  <2>2. 1 \in 1..Len(q.waiting[c])
    BY <2>0, <2>1
  <2>3. CASE 1 \in 1..Len(p.waiting[c]) /\ q.waiting[c][1] = p.waiting[c][1]
    <3>1. p.waiting[c] # <<>>
      BY <2>3
    <3> QED
      BY <2>1, <2>3, <3>1, HeadsAre
  <2> QED
    BY <1>8, <2>1, <2>2, <2>3
<1> HIDE DEF cls, line, lines
<1>14. Queued(q) = Queued(p) \cup {r} /\ Heads(q) \subseteq Heads(p) \cup {r}
  BY <1>12, <1>13
<1> QED
  BY <1>6, <1>7, <1>11, <1>14 DEF q, cls, line

LEMMA Removed ==
  ASSUME NEW S, NEW line \in Seq(S), NEW k \in 1..Len(line)
  PROVE  /\ RemoveAt(line, k) \in Seq(S) /\ Len(RemoveAt(line, k)) = Len(line) - 1
         /\ \A i \in 1..(Len(line) - 1) :
               RemoveAt(line, k)[i] = IF i < k THEN line[i] ELSE line[i + 1]
<1> DEFINE a == SubSeq(line, 1, k - 1)
           b == SubSeq(line, k + 1, Len(line))
<1>1. Len(line) \in Nat /\ k \in Nat /\ 1 <= k /\ k <= Len(line)
  OBVIOUS
<1>2. a \in Seq(S) /\ Len(a) = k - 1 /\ \A i \in 1..(k - 1) : a[i] = line[i]
  BY <1>1
<1>3. /\ b \in Seq(S) /\ Len(b) = Len(line) - k
      /\ \A i \in 1..(Len(line) - k) : b[i] = line[k + i]
  BY <1>1
<1> HIDE DEF a, b
<1>4. a \o b \in Seq(S) /\ Len(a \o b) = Len(line) - 1
  <2>1. a \in Seq(S) /\ b \in Seq(S)
    BY <1>2, <1>3
  <2>2. a \o b \in Seq(S)
    BY <2>1
  <2>3. Len(a \o b) = Len(a) + Len(b)
    BY <2>1
  <2> QED
    BY <1>1, <1>2, <1>3, <2>2, <2>3
<1>5. ASSUME NEW i \in 1..(Len(line) - 1)
      PROVE  (a \o b)[i] = IF i < k THEN line[i] ELSE line[i + 1]
  <2>1. CASE i < k
    BY <1>1, <1>2, <1>3, <2>1
  <2>2. CASE ~(i < k)
    <3>1. i - (k - 1) \in 1..(Len(line) - k) /\ k + (i - (k - 1)) = i + 1
      BY <1>1, <2>2
    <3>2. (a \o b)[i] = b[i - (k - 1)]
      BY <1>1, <1>2, <1>3, <2>2
    <3> QED
      BY <1>3, <2>2, <3>1, <3>2
  <2> QED
    BY <2>1, <2>2
<1> QED
  BY <1>4, <1>5 DEF RemoveAt, a, b

LEMMA LeaveIs ==
  ASSUME NEW p \in Pools, InLine(p), NEW r \in Queued(p)
  PROVE  LET q == LeaveQueue(p, r)
         IN  /\ q \in Pools /\ InLine(q) /\ q.held = p.held /\ q.byPrincipal = p.byPrincipal
             /\ Queued(q) = Queued(p) \ {r}
             /\ \A c \in Class : Len(q.waiting[c]) <= Len(p.waiting[c])
             /\ \A c \in Class : \A i, j \in 1..Len(p.waiting[c]) :
                   i < j /\ p.waiting[c][i] # r /\ p.waiting[c][j] # r =>
                      \E k, l \in 1..Len(q.waiting[c]) :
                         /\ k < l
                         /\ q.waiting[c][k] = p.waiting[c][i] /\ q.waiting[c][l] = p.waiting[c][j]
<1> DEFINE q == LeaveQueue(p, r)
           cls == ClassOf[r]
           line == p.waiting[cls]
           at == CHOOSE i \in DOMAIN line : line[i] = r
           rest == RemoveAt(line, at)
           lines == [p.waiting EXCEPT ![cls] = rest]
<1>1. cls \in Class /\ at \in 1..Len(line) /\ line[at] = r
  <2>1. PICK c \in Class : \E i \in 1..Len(p.waiting[c]) : r = p.waiting[c][i]
    BY QueuedIs
  <2>2. c = cls
    BY <2>1 DEF InLine
  <2>3. p.waiting[c] \in Seq(Request)
    BY DEF Pools
  <2>4. p.waiting[c] = line
    BY <2>2
  <2>5. DOMAIN line = 1..Len(line) /\ \E i \in DOMAIN line : line[i] = r
    <3> HIDE DEF line, cls
    <3>1. DOMAIN line = 1..Len(line)
      BY <2>3, <2>4
    <3> QED
      BY <2>1, <2>4, <3>1
  <2> QED
    BY <2>2, <2>5
<1>2. line \in Seq(Request) /\ Len(line) \in Nat
  BY <1>1 DEF Pools
<1>3. /\ rest \in Seq(Request) /\ Len(rest) = Len(line) - 1
      /\ \A i \in 1..(Len(line) - 1) : rest[i] = IF i < at THEN line[i] ELSE line[i + 1]
  <2> HIDE DEF at, line
  <2> QED
    BY <1>1, <1>2, Removed
<1> HIDE DEF at
<1>4. lines \in [Class -> Seq(Request)]
  <2> HIDE DEF rest
  <2> QED
    BY <1>1, <1>3 DEF Pools
<1>5. q = [p EXCEPT !.waiting = lines]
  BY DEF LeaveQueue, at
<1> HIDE DEF rest
<1>6. q \in Pools /\ q.held = p.held /\ q.byPrincipal = p.byPrincipal /\ q.waiting = lines
  <2> HIDE DEF q, lines
  <2> QED
    BY <1>4, <1>5 DEF Pools
<1>7. (\A c \in Class \ {cls} : q.waiting[c] = p.waiting[c]) /\ q.waiting[cls] = rest
  <2> HIDE DEF q
  <2> QED
    BY <1>1, <1>6 DEF Pools
<1> HIDE DEF q, lines
(* Where a place of the shorter line came from, and where a place goes.         *)
<1>8. ASSUME NEW i \in 1..Len(rest)
      PROVE  \E k \in 1..Len(line) : /\ rest[i] = line[k] /\ k # at
                                     /\ k = IF i < at THEN i ELSE i + 1
  BY <1>1, <1>2, <1>3
<1>9. ASSUME NEW k \in 1..Len(line), k # at
      PROVE  \E i \in 1..Len(rest) : /\ rest[i] = line[k]
                                     /\ i = IF k < at THEN k ELSE k - 1
  <2>1. CASE k < at
    BY <1>1, <1>2, <1>3, <2>1
  <2>2. CASE at < k
    <3>1. k - 1 \in 1..(Len(line) - 1) /\ (k - 1) + 1 = k /\ ~(k - 1 < at)
      BY <1>1, <1>2, <2>2
    <3>2. rest[k - 1] = line[k]
      BY <1>3, <3>1
    <3>3. k - 1 \in 1..Len(rest) /\ k - 1 = IF k < at THEN k ELSE k - 1
      BY <1>1, <1>2, <1>3, <2>2, <3>1
    <3> HIDE DEF line
    <3> QED
      BY <3>2, <3>3
  <2> QED
    BY <1>1, <1>9, <2>1, <2>2
<1>10. ASSUME NEW c \in Class, c # cls, NEW i \in 1..Len(p.waiting[c])
       PROVE  p.waiting[c][i] # r
  BY <1>10 DEF InLine
<1>11. \A i \in 1..Len(line) : i # at => line[i] # r
  BY <1>1 DEF InLine
<1>12. InLine(q)
  <2> SUFFICES ASSUME NEW c \in Class
               PROVE  /\ \A i \in 1..Len(q.waiting[c]) : ClassOf[q.waiting[c][i]] = c
                      /\ \A i, j \in 1..Len(q.waiting[c]) :
                            q.waiting[c][i] = q.waiting[c][j] => i = j
    BY DEF InLine
  <2>1. CASE c # cls
    <3>1. q.waiting[c] = p.waiting[c]
      BY <1>7, <2>1
    <3> QED
      BY <3>1 DEF InLine
  <2>2. CASE c = cls
    <3>1. /\ \A i \in 1..Len(line) : ClassOf[line[i]] = cls
          /\ \A i, j \in 1..Len(line) : line[i] = line[j] => i = j
      BY <1>1 DEF InLine
    <3> HIDE DEF line
    <3>2. \A i \in 1..Len(rest) : ClassOf[rest[i]] = cls
      BY <1>8, <3>1
    <3>3. ASSUME NEW i \in 1..Len(rest), NEW j \in 1..Len(rest), rest[i] = rest[j]
          PROVE  i = j
      <4>1. PICK k \in 1..Len(line) : rest[i] = line[k] /\ k = IF i < at THEN i ELSE i + 1
        BY <1>8
      <4>2. PICK l \in 1..Len(line) : rest[j] = line[l] /\ l = IF j < at THEN j ELSE j + 1
        BY <1>8
      <4>3. k = l
        BY <3>1, <3>3, <4>1, <4>2
      <4> QED
        BY <1>1, <1>2, <1>3, <4>1, <4>2, <4>3
    <3>4. q.waiting[c] = rest
      BY <1>7, <2>2
    <3> QED
      BY <2>2, <3>2, <3>3, <3>4
  <2> QED
    BY <2>1, <2>2
<1>13. ASSUME NEW x PROVE x \in Queued(q) <=> x \in Queued(p) \ {r}
  <2>0. \A y : y \in Queued(q) <=>
            \E c \in Class : \E i \in 1..Len(q.waiting[c]) : y = q.waiting[c][i]
    BY <1>6, QueuedIs
  <2>1. \A y : y \in Queued(p) <=>
            \E c \in Class : \E i \in 1..Len(p.waiting[c]) : y = p.waiting[c][i]
    BY QueuedIs
  <2>2. ASSUME NEW c \in Class, NEW i \in 1..Len(q.waiting[c]), x = q.waiting[c][i]
        PROVE  x \in Queued(p) \ {r}
    <3>1. CASE c # cls
      <4>1. i \in 1..Len(p.waiting[c]) /\ x = p.waiting[c][i]
        BY <1>7, <2>2, <3>1
      <4> QED
        BY <1>10, <2>1, <3>1, <4>1
    <3>2. CASE c = cls
      <4>1. i \in 1..Len(rest) /\ x = rest[i]
        BY <1>7, <2>2, <3>2
      <4>2. PICK k \in 1..Len(line) : x = line[k] /\ k # at
        BY <1>8, <4>1
      <4> QED
        BY <1>1, <1>11, <2>1, <4>2
    <3> QED
      BY <3>1, <3>2
  <2>3. ASSUME NEW c \in Class, NEW k \in 1..Len(p.waiting[c]), x = p.waiting[c][k], x # r
        PROVE  x \in Queued(q)
    <3>1. CASE c # cls
      <4>1. k \in 1..Len(q.waiting[c]) /\ x = q.waiting[c][k]
        BY <1>7, <2>3, <3>1
      <4> QED
        BY <2>0, <4>1
    <3>2. CASE c = cls
      <4>1. k \in 1..Len(line) /\ k # at /\ x = line[k]
        BY <1>1, <2>3, <3>2
      <4>2. PICK i \in 1..Len(rest) : x = rest[i]
        BY <1>9, <4>1
      <4>3. i \in 1..Len(q.waiting[cls]) /\ x = q.waiting[cls][i]
        BY <1>7, <4>2
      <4> QED
        BY <1>1, <2>0, <4>3
    <3> QED
      BY <3>1, <3>2
  <2> QED
    BY <2>0, <2>1, <2>2, <2>3
<1>14. ASSUME NEW c \in Class PROVE Len(q.waiting[c]) <= Len(p.waiting[c])
  <2>1. Len(p.waiting[c]) \in Nat
    BY DEF Pools
  <2>2. CASE c # cls
    BY <1>7, <2>1, <2>2
  <2>3. CASE c = cls
    BY <1>2, <1>3, <1>7, <2>3
  <2> QED
    BY <2>2, <2>3
<1>15. ASSUME NEW c \in Class,
              NEW i \in 1..Len(p.waiting[c]), NEW j \in 1..Len(p.waiting[c]),
              i < j, p.waiting[c][i] # r, p.waiting[c][j] # r
       PROVE  \E k, l \in 1..Len(q.waiting[c]) :
                 /\ k < l
                 /\ q.waiting[c][k] = p.waiting[c][i] /\ q.waiting[c][l] = p.waiting[c][j]
  <2>1. CASE c # cls
    <3>1. q.waiting[c] = p.waiting[c]
      BY <1>7, <2>1
    <3> QED
      BY <1>15, <3>1
  <2>2. CASE c = cls
    <3>1. /\ i \in 1..Len(line) /\ j \in 1..Len(line) /\ i # at /\ j # at
          /\ p.waiting[c][i] = line[i] /\ p.waiting[c][j] = line[j]
      BY <1>1, <1>15, <2>2
    <3> HIDE DEF line
    <3>2. PICK k \in 1..Len(rest) : rest[k] = line[i] /\ k = IF i < at THEN i ELSE i - 1
      BY <1>9, <3>1
    <3>3. PICK l \in 1..Len(rest) : rest[l] = line[j] /\ l = IF j < at THEN j ELSE j - 1
      BY <1>9, <3>1
    <3>4. k < l
      BY <1>1, <1>2, <1>15, <3>1, <3>2, <3>3
    <3>5. q.waiting[c] = rest
      BY <1>7, <2>2
    <3> QED
      BY <3>1, <3>2, <3>3, <3>4, <3>5
  <2> QED
    BY <2>1, <2>2
<1> HIDE DEF cls, line
<1>16. Queued(q) = Queued(p) \ {r}
  BY <1>13
<1> QED
  BY <1>6, <1>12, <1>14, <1>15, <1>16 DEF q
-------------------------------------------------------------------------------
Outer == In({"arrived", "working"})
Busy == In({"waiting", "woken", "working"})

(* What the steps keep: the pool is sound for the requests that wait for it or   *)
(* hold a slot of it, its lines are those of the stages, and it has no head that *)
(* fits.                                                                       *)
IInv ==
    /\ stage \in [Request -> Stages]
    /\ inflight \in 0..Capacity /\ IsFiniteSet(Outer) /\ inflight = Cardinality(Outer)
    /\ Sound(pool, Busy) /\ Queued(pool) = In({"waiting"}) /\ AllBlocked(pool)
    /\ \A cls \in Class : Len(pool.waiting[cls]) <= Depth

(* Who is where after a step that adds nobody but its own request to the lines. *)
LEMMA Moved ==
  ASSUME stage \in [Request -> Stages], Queued(pool) = In({"waiting"}),
         NEW r \in Request, NEW to \in Stages \ {"woken"}, NEW next, Move(r, to, next),
         Queued(next) \subseteq Queued(pool) \cup {r}, r \in Queued(next) <=> to = "waiting"
  PROVE  /\ stage' \in [Request -> Stages] /\ pool' = next /\ stage'[r] = to
         /\ Queued(pool') = In({"waiting"})'
         /\ Busy' = IF to \in {"waiting", "working"} THEN Busy \cup {r} ELSE Busy \ {r}
         /\ Outer' = IF to \in {"arrived", "working"} THEN Outer \cup {r} ELSE Outer \ {r}
         /\ \A w \in Request : stage[w] = "waiting" /\ stage'[w] = "woken" =>
               w # r /\ w \in Queued(pool) \ Queued(next)
<1>1. /\ pool' = next
      /\ \A q \in Request : stage'[q] = IF q = r THEN to
                                        ELSE IF q \in Queued(pool) \ Queued(next) THEN "woken"
                                        ELSE stage[q]
  BY DEF Move
<1>2. stage' \in [Request -> Stages]
  BY DEF Move, Stages
<1>3. stage'[r] = to
  BY <1>1
<1>4. \A q : q \in Queued(pool) <=> q \in Request /\ stage[q] = "waiting"
  BY DEF In
<1>5. ASSUME NEW q PROVE q \in Queued(next) <=> q \in Request /\ stage'[q] = "waiting"
  BY <1>1, <1>3, <1>4
<1>6. Queued(pool') = In({"waiting"})'
  BY <1>1, <1>5 DEF In
<1>7. Busy' = IF to \in {"waiting", "working"} THEN Busy \cup {r} ELSE Busy \ {r}
  <2>1. ASSUME NEW q \in Request, q # r
        PROVE  stage'[q] \in {"waiting", "woken", "working"}
                  <=> stage[q] \in {"waiting", "woken", "working"}
    BY <1>1, <1>4, <2>1
  <2>2. to \in {"waiting", "woken", "working"} <=> to \in {"waiting", "working"}
    OBVIOUS
  <2> QED
    BY <1>3, <2>1, <2>2 DEF Busy, In
<1>8. Outer' = IF to \in {"arrived", "working"} THEN Outer \cup {r} ELSE Outer \ {r}
  <2>1. ASSUME NEW q \in Request, q # r
        PROVE  stage'[q] \in {"arrived", "working"} <=> stage[q] \in {"arrived", "working"}
    BY <1>1, <1>4, <2>1
  <2> QED
    BY <1>3, <2>1 DEF Outer, In
<1>9. ASSUME NEW w \in Request, stage[w] = "waiting", stage'[w] = "woken"
      PROVE  w # r /\ w \in Queued(pool) \ Queued(next)
  BY <1>1, <1>3, <1>9
<1> QED
  BY <1>1, <1>2, <1>3, <1>6, <1>7, <1>8, <1>9

(* The outer limit counts one more, one less or as many, as request r moves.    *)
OuterMoves(r, to) ==
    LET before == stage[r] \in {"arrived", "working"}
        after == to \in {"arrived", "working"}
    IN  \/ ~before /\ after /\ inflight < Capacity /\ inflight' = inflight + 1
        \/ before /\ ~after /\ inflight' = inflight - 1
        \/ before /\ after /\ inflight' = inflight
        \/ ~before /\ ~after /\ inflight' = inflight

LEMMA Counted ==
  ASSUME IsFiniteSet(Outer), inflight \in 0..Capacity, inflight = Cardinality(Outer),
         NEW r \in Request, NEW to, OuterMoves(r, to),
         Outer' = IF to \in {"arrived", "working"} THEN Outer \cup {r} ELSE Outer \ {r}
  PROVE  inflight' \in 0..Capacity /\ IsFiniteSet(Outer') /\ inflight' = Cardinality(Outer')
<1>1. Capacity \in Nat
  BY AdmissionAssumption
<1>2. r \in Outer <=> stage[r] \in {"arrived", "working"}
  BY DEF Outer, In
<1>3. CASE r \notin Outer /\ Outer' = Outer \cup {r} /\ inflight' = inflight + 1
              /\ inflight < Capacity
  <2>1. IsFiniteSet(Outer \cup {r}) /\ Cardinality(Outer \cup {r}) = Cardinality(Outer) + 1
    BY <1>3, FS_AddElement
  <2> QED
    BY <1>1, <1>3, <2>1
<1>4. CASE r \in Outer /\ Outer' = Outer \ {r} /\ inflight' = inflight - 1
  <2>1. /\ IsFiniteSet(Outer \ {r}) /\ Cardinality(Outer \ {r}) = Cardinality(Outer) - 1
        /\ Cardinality(Outer \ {r}) \in Nat
    BY <1>4, FS_RemoveElement, FS_CardinalityType
  <2> QED
    BY <1>1, <1>4, <2>1
<1>5. CASE Outer' = Outer /\ inflight' = inflight
  BY <1>5
<1> QED
  BY <1>2, <1>3, <1>4, <1>5 DEF OuterMoves

(* What GrantedInTurn says of a step.                                          *)
TurnKept ==
    \A w \in Request :
        stage[w] = "waiting" /\ stage'[w] = "woken" =>
            /\ \A x \in In({"waiting"}) : Before(x, w) => stage'[x] # "waiting"
            /\ \A h \in Heads(pool') : Rank(h) < Rank(w) => Blocked(Free(pool', w), h)

(* A step that moves r and makes the pool `next` keeps the invariant when `next` *)
(* does; if it takes nobody else out of the lines, there is no turn to keep.    *)
LEMMA StepKeeps ==
  ASSUME IInv, NEW r \in Request, NEW to \in Stages \ {"woken"}, NEW next,
         Move(r, to, next), OuterMoves(r, to),
         Sound(next, IF to \in {"waiting", "working"} THEN Busy \cup {r} ELSE Busy \ {r}),
         Queued(next) \subseteq Queued(pool) \cup {r}, r \in Queued(next) <=> to = "waiting",
         AllBlocked(next), \A cls \in Class : Len(next.waiting[cls]) <= Depth
  PROVE  IInv' /\ (Queued(pool) \ {r} \subseteq Queued(next) => TurnKept)
<1>1. /\ stage' \in [Request -> Stages] /\ pool' = next /\ stage'[r] = to
      /\ Queued(pool') = In({"waiting"})'
      /\ Busy' = IF to \in {"waiting", "working"} THEN Busy \cup {r} ELSE Busy \ {r}
      /\ Outer' = IF to \in {"arrived", "working"} THEN Outer \cup {r} ELSE Outer \ {r}
      /\ \A w \in Request : stage[w] = "waiting" /\ stage'[w] = "woken" =>
            w # r /\ w \in Queued(pool) \ Queued(next)
  BY Moved DEF IInv
<1>2. inflight' \in 0..Capacity /\ IsFiniteSet(Outer') /\ inflight' = Cardinality(Outer')
  BY <1>1, Counted DEF IInv
<1>3. Sound(pool', Busy') /\ AllBlocked(pool')
  BY <1>1
<1>4. IInv'
  BY <1>1, <1>2, <1>3 DEF IInv
<1>5. ASSUME Queued(pool) \ {r} \subseteq Queued(next) PROVE TurnKept
  BY <1>1, <1>5 DEF TurnKept
<1> QED
  BY <1>4, <1>5

(* The steps that free a slot or leave a line and then admit whom they can.     *)
LEMMA AdmittingKeeps ==
  ASSUME IInv, NEW r \in Request, NEW o, Move(r, "idle", AdmitWaiters(o)), OuterMoves(r, "idle"),
         Sound(o, Busy \ {r}), Queued(o) = Queued(pool) \ {r},
         \A c \in Class : Len(o.waiting[c]) <= Len(pool.waiting[c]),
         \A c \in Class : \A i, j \in 1..Len(pool.waiting[c]) :
            i < j /\ pool.waiting[c][i] # r /\ pool.waiting[c][j] # r =>
               \E k, l \in 1..Len(o.waiting[c]) :
                  /\ k < l
                  /\ o.waiting[c][k] = pool.waiting[c][i] /\ o.waiting[c][l] = pool.waiting[c][j]
  PROVE  IInv' /\ TurnKept
<1> DEFINE p == AdmitWaiters(o)
<1>1. Sound(p, Busy \ {r}) /\ Turn(o, p) /\ AllBlocked(p)
  BY AdmitIs
<1> HIDE DEF p
<1>2. o \in Pools /\ InLine(o) /\ p \in Pools /\ pool \in Pools /\ InLine(pool)
  BY <1>1 DEF Sound, IInv
<1>3. /\ Queued(p) \subseteq Queued(o)
      /\ \A cls \in Class : Len(p.waiting[cls]) <= Len(o.waiting[cls])
      /\ \A cls \in Class : \A i, j \in 1..Len(o.waiting[cls]) :
            i < j /\ o.waiting[cls][i] \in Queued(p) => o.waiting[cls][j] \in Queued(p)
  BY <1>1, <1>2, Suffix
<1>4. Move(r, "idle", p)
  BY DEF p
<1>5. \A cls \in Class : Len(p.waiting[cls]) <= Depth
  <2>1. ASSUME NEW cls \in Class
        PROVE  /\ Len(p.waiting[cls]) \in Nat /\ Len(o.waiting[cls]) \in Nat
               /\ Len(pool.waiting[cls]) \in Nat
    BY <1>2 DEF Pools
  <2>2. Depth \in Nat /\ \A cls \in Class : Len(pool.waiting[cls]) <= Depth
    BY AdmissionAssumption DEF IInv
  <2> QED
    BY <1>3, <2>1, <2>2
<1>6. IInv'
  <2>1. /\ "idle" \in Stages \ {"woken"} /\ "idle" \notin {"waiting", "working"}
        /\ "idle" # "waiting"
    BY DEF Stages
  <2>2. Queued(p) \subseteq Queued(pool) \cup {r} /\ r \notin Queued(p)
    BY <1>3
  <2> QED
    BY <1>1, <1>4, <1>5, <2>1, <2>2, StepKeeps
<1>7. /\ pool' = p /\ Queued(pool') = In({"waiting"})'
      /\ \A w \in Request : stage[w] = "waiting" /\ stage'[w] = "woken" =>
            w # r /\ w \in Queued(pool) \ Queued(p)
  <2>1. "idle" \in Stages \ {"woken"} /\ "idle" # "waiting"
    BY DEF Stages
  <2>2. Queued(p) \subseteq Queued(pool) \cup {r} /\ r \notin Queued(p)
    BY <1>3
  <2>3. stage \in [Request -> Stages] /\ Queued(pool) = In({"waiting"})
    BY DEF IInv
  <2> QED
    BY <1>4, <2>1, <2>2, <2>3, Moved
<1>8. ASSUME NEW w \in Request, stage[w] = "waiting", stage'[w] = "woken"
      PROVE  /\ \A x \in In({"waiting"}) : Before(x, w) => stage'[x] # "waiting"
             /\ \A h \in Heads(pool') : Rank(h) < Rank(w) => Blocked(Free(pool', w), h)
  <2>1. w # r /\ w \in Queued(o) \ Queued(p)
    BY <1>7, <1>8
  <2>2. \A h \in Heads(pool') : Rank(h) < Rank(w) => Blocked(Free(pool', w), h)
    BY <1>1, <1>7, <2>1 DEF Turn
  <2>3. ASSUME NEW x \in In({"waiting"}), Before(x, w), stage'[x] = "waiting" PROVE FALSE
    <3>1. x \in Queued(p) /\ x # r
      BY <1>3, <1>7, <2>3 DEF In
    <3> DEFINE c == ClassOf[w]
    <3>2. c \in Class
      BY AdmissionAssumption DEF Class
    <3>3. pool.waiting[c] \in Seq(Request)
      BY <1>2, <3>2 DEF Pools
    <3>4. PICK i \in 1..Len(pool.waiting[c]), j \in 1..Len(pool.waiting[c]) :
             i < j /\ pool.waiting[c][i] = x /\ pool.waiting[c][j] = w
      BY <2>3, <3>3 DEF Before
    <3>5. PICK k \in 1..Len(o.waiting[c]), l \in 1..Len(o.waiting[c]) :
             k < l /\ o.waiting[c][k] = x /\ o.waiting[c][l] = w
      BY <2>1, <3>1, <3>2, <3>4
    <3>6. w \in Queued(p)
      BY <1>3, <3>1, <3>2, <3>5
    <3> QED
      BY <2>1, <3>6
  <2> QED
    BY <2>2, <2>3
<1> QED
  BY <1>6, <1>8 DEF TurnKept

LEMMA PoolIs ==
  ASSUME IInv
  PROVE  /\ pool \in Pools /\ InLine(pool) /\ Busy \ Queued(pool) = Holders
         /\ Budget(pool, Holders)
         /\ \A r \in Request : /\ r \in Queued(pool) <=> stage[r] = "waiting"
                               /\ r \in Holders <=> stage[r] \in {"woken", "working"}
                               /\ r \in Busy <=> stage[r] \in {"waiting", "woken", "working"}
<1>1. Busy \ Queued(pool) = Holders
  BY DEF IInv, Busy, Holders, In
<1> QED
  BY <1>1 DEF IInv, Sound, Busy, Holders, In

(* Steps that leave the pool alone: the request is not in its books before or    *)
(* after, or goes on with the slot it was handed.                              *)
LEMMA SamePoolKeeps ==
  ASSUME IInv, NEW r \in Request, NEW to \in {"idle", "arrived", "working"},
         Move(r, to, pool), OuterMoves(r, to),
         \/ stage[r] \in {"idle", "arrived"} /\ to # "working"
         \/ stage[r] = "woken" /\ to = "working"
  PROVE  IInv' /\ TurnKept
<1>1. to \in Stages \ {"woken"} /\ to # "waiting" /\ r \notin Queued(pool)
  BY PoolIs DEF Stages
<1>2. (IF to \in {"waiting", "working"} THEN Busy \cup {r} ELSE Busy \ {r}) = Busy
  <2>1. r \in Busy <=> stage[r] \in {"waiting", "woken", "working"}
    BY PoolIs
  <2>2. CASE to = "working"
    BY <2>1, <2>2
  <2>3. CASE to # "working"
    BY <2>1, <2>3
  <2> QED
    BY <2>2, <2>3
<1>3. /\ Sound(pool, Busy) /\ AllBlocked(pool)
      /\ \A cls \in Class : Len(pool.waiting[cls]) <= Depth
  BY DEF IInv
<1> QED
  BY <1>1, <1>2, <1>3, StepKeeps

(* A slot at once.                                                            *)
LEMMA TakingKeeps ==
  ASSUME IInv, NEW r \in Request, stage[r] = "arrived", ~Blocked(pool, r),
         Move(r, "working", Take(pool, r)), inflight' = inflight
  PROVE  IInv' /\ TurnKept
<1> DEFINE p == Take(pool, r)
<1>1. /\ p \in Pools /\ p.held = pool.held + 1 /\ p.waiting = pool.waiting
      /\ p.byPrincipal =
            [pool.byPrincipal EXCEPT
                ![PrincipalOf[r]] = pool.byPrincipal[PrincipalOf[r]] + 1]
  BY PoolIs, TakeIs
<1>2. Budget(p, Holders \cup {r})
  BY PoolIs, TakeBudget
<1> HIDE DEF p
<1>3. Queued(p) = Queued(pool) /\ Heads(p) = Heads(pool) /\ InLine(p)
  BY <1>1, PoolIs DEF Queued, Heads, InLine
<1>4. (Busy \cup {r}) \ Queued(p) = Holders \cup {r} /\ Queued(p) \subseteq Busy \cup {r}
  BY <1>3, PoolIs DEF IInv, Sound
<1>5. Sound(p, Busy \cup {r})
  BY <1>1, <1>2, <1>3, <1>4 DEF Sound, IInv
<1>6. ASSUME NEW h \in Heads(p) PROVE Blocked(p, h)
  <2>1. h \in Request /\ h \in Heads(pool)
    BY <1>3, PoolIs, HeadsAre, QueuedIs
  <2>2. PrincipalOf[h] \in Principal /\ PrincipalOf[r] \in Principal
    BY <2>1, AdmissionAssumption
  <2>3. /\ pool.held \in Int /\ p.held \in Int /\ pool.held <= p.held
        /\ pool.byPrincipal \in [Principal -> Int] /\ p.byPrincipal \in [Principal -> Int]
    <3>1. /\ pool.held \in Nat /\ p.held \in Nat
          /\ pool.byPrincipal \in [Principal -> Nat] /\ p.byPrincipal \in [Principal -> Nat]
      BY <1>1, PoolIs DEF Pools
    <3>2. pool.byPrincipal \in [Principal -> Int] /\ p.byPrincipal \in [Principal -> Int]
      BY <3>1
    <3> QED
      BY <1>1, <3>1, <3>2
  <2>4. pool.byPrincipal[PrincipalOf[h]] <= p.byPrincipal[PrincipalOf[h]]
    BY <1>1, <2>2, <2>3
  <2>5. Blocked(pool, h)
    BY <2>1 DEF IInv, AllBlocked
  <2> QED
    BY <2>1, <2>2, <2>3, <2>4, <2>5, FullerBlocks
<1>7. AllBlocked(p)
  BY <1>6 DEF AllBlocked
<1>8. \A cls \in Class : Len(p.waiting[cls]) <= Depth
  BY <1>1 DEF IInv
<1>9. OuterMoves(r, "working") /\ r \notin Queued(pool) /\ "working" \in Stages \ {"woken"}
  BY PoolIs DEF OuterMoves, Stages
<1>10. Move(r, "working", p)
  BY DEF p
<1> QED
  BY <1>3, <1>5, <1>7, <1>8, <1>9, <1>10, StepKeeps

(* A place in the line.                                                       *)
LEMMA JoiningKeeps ==
  ASSUME IInv, NEW r \in Request, stage[r] = "arrived", Blocked(pool, r), ~QueueFull(pool, r),
         Move(r, "waiting", JoinQueue(pool, r)), inflight' = inflight - 1
  PROVE  IInv' /\ TurnKept
<1> DEFINE p == JoinQueue(pool, r)
           cls == ClassOf[r]
<1>0. r \notin Queued(pool) /\ r \notin Busy /\ pool \in Pools /\ InLine(pool)
  BY PoolIs
<1>1. /\ p \in Pools /\ InLine(p) /\ p.held = pool.held /\ p.byPrincipal = pool.byPrincipal
      /\ \A c \in Class \ {cls} : p.waiting[c] = pool.waiting[c]
      /\ p.waiting[cls] = Append(pool.waiting[cls], r)
      /\ Queued(p) = Queued(pool) \cup {r}
      /\ Heads(p) \subseteq Heads(pool) \cup {r}
  BY <1>0, JoinIs
<1> HIDE DEF p
<1>2. (Busy \cup {r}) \ Queued(p) = Holders
  BY <1>0, <1>1, PoolIs
<1>3. Budget(p, Holders)
  BY <1>1, PoolIs DEF Budget
<1>4. Sound(p, Busy \cup {r})
  <2>1. Queued(pool) \subseteq Busy /\ Busy \subseteq Request
    BY DEF IInv, Sound
  <2> QED
    BY <1>1, <1>2, <1>3, <2>1 DEF Sound
<1>5. \A h \in Request : Blocked(p, h) <=> Blocked(pool, h)
  BY <1>1 DEF Blocked
<1>6. AllBlocked(p)
  <2>1. Heads(pool) \subseteq Request
    BY <1>0, HeadsAre, QueuedIs
  <2> QED
    BY <1>1, <1>5, <2>1 DEF AllBlocked, IInv
<1>7. ASSUME NEW c \in Class PROVE Len(p.waiting[c]) <= Depth
  <2>1. CASE c # cls
    BY <1>1, <2>1 DEF IInv
  <2>2. CASE c = cls
    <3>1. pool.waiting[c] \in Seq(Request) /\ Len(pool.waiting[c]) < Depth
      <4>1. pool.waiting[c] \in Seq(Request) /\ ~(Len(pool.waiting[c]) >= Depth)
        BY <1>0, <2>2 DEF Pools, QueueFull
      <4> QED
        BY <4>1, AdmissionAssumption
    <3>2. Len(p.waiting[c]) = Len(pool.waiting[c]) + 1
      BY <1>1, <2>2, <3>1
    <3> QED
      BY <3>1, <3>2, AdmissionAssumption
  <2> QED
    BY <2>1, <2>2
<1>8. OuterMoves(r, "waiting") /\ "waiting" \in Stages \ {"woken"}
  BY DEF OuterMoves, Stages
<1>9. Move(r, "waiting", p)
  BY DEF p
<1> QED
  BY <1>1, <1>4, <1>6, <1>7, <1>8, <1>9, StepKeeps

(* An expired or aborted wait.                                                *)
LEMMA GivingUpKeeps ==
  ASSUME IInv, NEW r \in Request, GiveUp(r)
  PROVE  IInv' /\ TurnKept
<1> DEFINE o == LeaveQueue(pool, r)
<1>1. /\ stage[r] = "waiting" /\ inflight' = inflight /\ Move(r, "idle", AdmitWaiters(o))
  BY DEF GiveUp, EndWait
<1>2. r \in Queued(pool) /\ pool \in Pools /\ InLine(pool)
  BY <1>1, PoolIs
<1>3. /\ o \in Pools /\ InLine(o) /\ o.held = pool.held /\ o.byPrincipal = pool.byPrincipal
      /\ Queued(o) = Queued(pool) \ {r}
      /\ \A c \in Class : Len(o.waiting[c]) <= Len(pool.waiting[c])
      /\ \A c \in Class : \A i, j \in 1..Len(pool.waiting[c]) :
            i < j /\ pool.waiting[c][i] # r /\ pool.waiting[c][j] # r =>
               \E k, l \in 1..Len(o.waiting[c]) :
                  /\ k < l
                  /\ o.waiting[c][k] = pool.waiting[c][i] /\ o.waiting[c][l] = pool.waiting[c][j]
  BY <1>2, LeaveIs
<1> HIDE DEF o
<1>4. Sound(o, Busy \ {r})
  <2>1. (Busy \ {r}) \ Queued(o) = Holders
    BY <1>2, <1>3, PoolIs
  <2>2. Budget(o, Holders)
    BY <1>3, PoolIs DEF Budget
  <2>3. Queued(pool) \subseteq Busy /\ Busy \subseteq Request
    BY DEF IInv, Sound
  <2> QED
    BY <1>3, <2>1, <2>2, <2>3 DEF Sound
<1>5. OuterMoves(r, "idle")
  BY <1>1 DEF OuterMoves
<1> QED
  BY <1>1, <1>3, <1>4, <1>5, AdmittingKeeps

(* A slot given back.                                                         *)
LEMMA ReleasingKeeps ==
  ASSUME IInv, NEW r \in Request, stage[r] \in {"woken", "working"},
         Move(r, "idle", ReleaseSlot(pool, r)), OuterMoves(r, "idle")
  PROVE  IInv' /\ TurnKept
<1> DEFINE o == Free(pool, r)
<1>1. Move(r, "idle", AdmitWaiters(o))
  BY DEF ReleaseSlot
<1>2. r \in Holders /\ r \notin Queued(pool) /\ pool \in Pools /\ InLine(pool)
  BY PoolIs
<1>3. o \in Pools /\ Budget(o, Holders \ {r}) /\ o.waiting = pool.waiting
  BY <1>2, PoolIs, FreeBudget, FreeIs
<1> HIDE DEF o
<1>4. Queued(o) = Queued(pool) /\ InLine(o)
  BY <1>2, <1>3 DEF Queued, InLine
<1>5. Sound(o, Busy \ {r})
  <2>1. (Busy \ {r}) \ Queued(o) = Holders \ {r} /\ Queued(o) \subseteq Busy \ {r}
    BY <1>2, <1>4, PoolIs DEF IInv, Sound
  <2>2. Busy \subseteq Request
    BY DEF IInv, Sound
  <2> QED
    BY <1>3, <1>4, <2>1, <2>2 DEF Sound
<1>6. Queued(o) = Queued(pool) \ {r}
  BY <1>2, <1>4
<1>7. \A c \in Class : Len(o.waiting[c]) <= Len(pool.waiting[c])
  <2>1. \A c \in Class : Len(pool.waiting[c]) \in Nat
    BY <1>2 DEF Pools
  <2> QED
    BY <1>3, <2>1
<1> QED
  BY <1>1, <1>3, <1>5, <1>6, <1>7, AdmittingKeeps

-------------------------------------------------------------------------------
LEMMA InitHolds == AdmissionInit => IInv
<1> SUFFICES ASSUME AdmissionInit PROVE IInv
  OBVIOUS
<1>1. pool = EmptyPool /\ inflight = 0 /\ stage = [r \in Request |-> "idle"]
  BY DEF AdmissionInit
<1>2. /\ pool.held = 0 /\ pool.byPrincipal = [x \in Principal |-> 0]
      /\ pool.waiting = [cls \in Class |-> <<>>]
  BY <1>1, Classes DEF EmptyPool
<1>3. pool \in Pools
  <2>1. pool = [held |-> 0, byPrincipal |-> [x \in Principal |-> 0],
                waiting |-> [cls \in Class |-> <<>>]]
    BY <1>1, Classes DEF EmptyPool
  <2>2. <<>> \in Seq(Request)
    OBVIOUS
  <2> QED
    BY <2>1, <2>2 DEF Pools
<1>4. \A cls \in Class : pool.waiting[cls] = <<>> /\ Len(pool.waiting[cls]) = 0
  BY <1>2
<1>5. Queued(pool) = {} /\ InLine(pool)
  <2>1. \A i : i \notin 1..0
    OBVIOUS
  <2>2. \A x : x \notin Queued(pool)
    BY <1>3, <1>4, <2>1, QueuedIs
  <2> QED
    BY <1>4, <2>1, <2>2 DEF InLine
<1>6. Heads(pool) = {}
  BY <1>3, <1>5, HeadsAre
<1>7. Busy = {} /\ Outer = {} /\ In({"waiting"}) = {}
  BY <1>1 DEF Busy, Outer, In
<1>8. Budget(pool, {})
  <2>1. IsFiniteSet({}) /\ Cardinality({}) = 0
    BY FS_EmptySet
  <2>2. Others({}) = {} /\ \A x : Of({}, x) = {}
    BY DEF Others, Of
  <2>3. 0 <= Capacity /\ 0 <= Capacity - Reserve /\ 0 <= PerPrincipalMax
    BY AdmissionAssumption
  <2>4. \A x \in Principal : pool.byPrincipal[x] = 0
    BY <1>2
  <2>5. \A x \in Principal : Cardinality(Of({}, x)) = 0 /\ Cardinality(Of(Others({}), x)) = 0
    BY <2>1, <2>2
  <2> QED
    BY <1>2, <2>1, <2>2, <2>3, <2>4, <2>5 DEF Budget
<1>9. Sound(pool, Busy)
  BY <1>3, <1>5, <1>7, <1>8 DEF Sound
<1>10. stage \in [Request -> Stages] /\ inflight \in 0..Capacity
  BY <1>1, AdmissionAssumption DEF Stages
<1>11. IsFiniteSet(Outer) /\ inflight = Cardinality(Outer)
  BY <1>1, <1>7, FS_EmptySet
<1>12. AllBlocked(pool) /\ \A cls \in Class : Len(pool.waiting[cls]) <= Depth
  BY <1>4, <1>6, AdmissionAssumption DEF AllBlocked
<1> QED
  BY <1>5, <1>7, <1>9, <1>10, <1>11, <1>12 DEF IInv

LEMMA NextKeeps == IInv /\ AdmissionNext => IInv' /\ TurnKept
<1> SUFFICES ASSUME IInv, NEW r \in Request,
                    \/ Enter(r) \/ AnswerUnpooled(r) \/ Admit(r)
                    \/ GiveUp(r) \/ Reenter(r) \/ Finish(r)
             PROVE  IInv' /\ TurnKept
  BY DEF AdmissionNext
<1>1. CASE Enter(r)
  <2>1. stage[r] = "idle" /\ Move(r, "arrived", pool) /\ OuterMoves(r, "arrived")
    BY <1>1 DEF Enter, OuterMoves
  <2> QED
    BY <2>1, SamePoolKeeps
<1>2. CASE AnswerUnpooled(r)
  <2>1. stage[r] = "arrived" /\ Move(r, "idle", pool) /\ OuterMoves(r, "idle")
    BY <1>2 DEF AnswerUnpooled, OuterMoves
  <2> QED
    BY <2>1, SamePoolKeeps
<1>3. CASE Admit(r)
  <2>1. CASE ~Blocked(pool, r) /\ inflight' = inflight /\ Move(r, "working", Take(pool, r))
    BY <1>3, <2>1, TakingKeeps DEF Admit
  <2>2. CASE /\ Blocked(pool, r) /\ QueueFull(pool, r)
             /\ inflight' = inflight - 1 /\ Move(r, "idle", pool)
    <3>1. stage[r] = "arrived" /\ OuterMoves(r, "idle")
      BY <1>3, <2>2 DEF Admit, OuterMoves
    <3> QED
      BY <2>2, <3>1, SamePoolKeeps
  <2>3. CASE /\ Blocked(pool, r) /\ ~QueueFull(pool, r)
             /\ inflight' = inflight - 1 /\ Move(r, "waiting", JoinQueue(pool, r))
    BY <1>3, <2>3, JoiningKeeps DEF Admit
  <2> QED
    BY <1>3, <2>1, <2>2, <2>3 DEF Admit
<1>4. CASE GiveUp(r)
  BY <1>4, GivingUpKeeps
<1>5. CASE Reenter(r)
  <2>1. CASE inflight < Capacity /\ inflight' = inflight + 1 /\ Move(r, "working", pool)
    <3>1. stage[r] = "woken" /\ OuterMoves(r, "working")
      BY <1>5, <2>1 DEF Reenter, OuterMoves
    <3> QED
      BY <2>1, <3>1, SamePoolKeeps
  <2>2. CASE inflight' = inflight /\ Move(r, "idle", ReleaseSlot(pool, r))
    <3>1. stage[r] = "woken" /\ OuterMoves(r, "idle")
      BY <1>5, <2>2 DEF Reenter, OuterMoves
    <3> QED
      BY <2>2, <3>1, ReleasingKeeps
  <2> QED
    BY <1>5, <2>1, <2>2 DEF Reenter
<1>6. CASE Finish(r)
  <2>1. /\ stage[r] = "working" /\ Move(r, "idle", ReleaseSlot(pool, r))
        /\ OuterMoves(r, "idle")
    BY <1>6 DEF Finish, OuterMoves
  <2> QED
    BY <2>1, ReleasingKeeps
<1> QED
  BY <1>1, <1>2, <1>3, <1>4, <1>5, <1>6

LEMMA StutterKeeps == IInv /\ UNCHANGED admissionVars => IInv' /\ TurnKept
<1> SUFFICES ASSUME IInv, UNCHANGED admissionVars PROVE IInv' /\ TurnKept
  OBVIOUS
<1>1. stage' = stage /\ inflight' = inflight /\ pool' = pool
  BY DEF admissionVars
<1>2. IInv'
  BY <1>1 DEF IInv, Busy, Outer, In
<1>3. TurnKept
  BY <1>1 DEF TurnKept
<1> QED
  BY <1>2, <1>3

(* The invariant holds in every state of the service.                          *)
THEOREM Inductive == AdmissionSpec => []IInv
<1>1. IInv /\ [AdmissionNext]_admissionVars => IInv'
  BY NextKeeps, StutterKeeps
<1> QED
  BY <1>1, InitHolds, PTL DEF AdmissionSpec

(* The outer count and the counters of the pool stay within the capacity, and    *)
(* no line grows over its depth.                                              *)
THEOREM TypeCorrect == AdmissionSpec => []AdmissionTypeOK
<1>1. IInv => AdmissionTypeOK
  <2> SUFFICES ASSUME IInv PROVE AdmissionTypeOK
    OBVIOUS
  <2>1. pool \in Pools /\ Budget(pool, Holders)
    BY PoolIs
  <2>2. pool.held \in 0..Capacity
    BY <2>1, AdmissionAssumption DEF Budget, Pools
  <2>3. ASSUME NEW x \in Principal PROVE pool.byPrincipal[x] \in 0..Capacity
    <3>1. IsFiniteSet(Holders) /\ pool.held = Cardinality(Holders)
          /\ pool.byPrincipal[x] = Cardinality(Of(Holders, x))
      BY <2>1 DEF Budget
    <3>2. Cardinality(Of(Holders, x)) <= Cardinality(Holders) /\ Cardinality(Of(Holders, x)) \in Nat
      BY <3>1, Parts
    <3> QED
      BY <2>2, <3>1, <3>2, AdmissionAssumption
  <2>4. pool \in [held : 0..Capacity, byPrincipal : [Principal -> 0..Capacity],
                  waiting : [Class -> Seq(Request)]]
    <3>1. pool.byPrincipal \in [Principal -> 0..Capacity]
      BY <2>1, <2>3 DEF Pools
    <3> QED
      BY <2>1, <2>2, <3>1 DEF Pools
  <2> QED
    BY <2>4, Classes DEF IInv, AdmissionTypeOK
<1> QED
  BY <1>1, Inductive, PTL

(* No slot is lost or given back twice: both counts are those of the requests   *)
(* that hold slots, and the lines hold those that wait.                        *)
THEOREM NoSlotLost == AdmissionSpec => []SlotsCounted
<1>1. IInv => SlotsCounted
  <2> SUFFICES ASSUME IInv PROVE SlotsCounted
    OBVIOUS
  <2>1. inflight = Cardinality(In({"arrived", "working"})) /\ Queued(pool) = In({"waiting"})
    BY DEF IInv, Outer
  <2>2. Budget(pool, Holders)
    BY PoolIs
  <2> QED
    BY <2>1, <2>2 DEF SlotsCounted, Budget, Of
<1> QED
  BY <1>1, Inductive, PTL

(* Callers that are not the owner leave the owner its reserve, and no principal  *)
(* among them holds more than its share.                                       *)
THEOREM SharesHold == AdmissionSpec => []SharesKept
<1>1. IInv => SharesKept
  BY PoolIs DEF SharesKept, Budget, Of, Others
<1> QED
  BY <1>1, Inductive, PTL

(* No slot lies idle while the head of a queue could have it.                   *)
THEOREM NoIdleSlot == AdmissionSpec => []NoFittingHeadWaits
<1>1. IInv => NoFittingHeadWaits
  BY DEF IInv, NoFittingHeadWaits, AllBlocked
<1> QED
  BY <1>1, Inductive, PTL

(* A waiter is granted in arrival order within its class, and none is granted a  *)
(* slot that the head of a higher class could have used instead.               *)
THEOREM TurnsKept == AdmissionSpec => GrantedInTurn
<1>1. IInv /\ [AdmissionNext]_admissionVars =>
         [\A w \in Request :
             stage[w] = "waiting" /\ stage'[w] = "woken" =>
                /\ \A r \in In({"waiting"}) : Before(r, w) => stage'[r] # "waiting"
                /\ \A r \in Heads(pool') :
                      Rank(r) < Rank(w) => Blocked(Free(pool', w), r)]_admissionVars
  BY NextKeeps DEF TurnKept
<1> QED
  BY <1>1, Inductive, PTL DEF AdmissionSpec, GrantedInTurn
===============================================================================
