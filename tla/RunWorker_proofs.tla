--------------------------- MODULE RunWorker_proofs ---------------------------
(***************************************************************************)
(* Proofs about RunWorker, for any number of workers, runs and phases, any     *)
(* ceilings and any bounds.                                                  *)
(*                                                                         *)
(* Everything a worker holds in memory may be stale, except for what nobody   *)
(* but the holder of the lease changes: the recorded phases and the pending   *)
(* question of its run.  The invariant says what a tick knows of them while    *)
(* its worker is the holder (Knows), and what stays true of a tick that was    *)
(* overtaken (Follows).                                                      *)
(***************************************************************************)
EXTENDS RunWorker, FiniteSetTheorems, TLAPS

Recorded(r) == {x[2] : x \in {y \in phases : y[1] = r}}

(* The artifact of a phase holds the recorded output.                         *)
Written(r, ph) == \E x \in phases : x[1] = r /\ x[2] = ph /\ artifact[r][ph] = x[3]

(* A set of phases without gaps.                                             *)
InOrder(S) == S \subseteq Phase /\ \A ph \in S, q \in Phase : q < ph => q \in S

(* Phases are recorded once and without gaps.                                 *)
Records ==
    /\ \A r \in Run : InOrder(Recorded(r))
    /\ \A x, y \in phases : x[1] = y[1] /\ x[2] = y[2] => x = y

(* One question of a run is pending, and it is about its next phase.           *)
Asked ==
    /\ \A r \in Run : \A d \in Pending(r) :
          d.phase \notin Recorded(r) /\ \A q \in Phase : q < d.phase => q \in Recorded(r)
    /\ \A r \in Run : \A d, e \in Pending(r) : d = e

(* From the start of a phase to the artifact that ends it, and the steps whose *)
(* tick has written, or found written, the artifact of each of its phases.     *)
InPhase == {"attempt", "reserve", "announce", "model", "commitText", "commitDecision", "artifact"}
Delivering == {"phase", "attempt", "reserve", "announce", "model", "commitText", "artifact",
               "complete"}

(* What stays true of a tick, though its worker may have lost the run.         *)
Follows(w) ==
    /\ MyRun(w) \in Run <=> ~At(w, "idle")
    /\ InOrder(tick[w].outputs)
    /\ MyRun(w) \in Run => tick[w].outputs \subseteq Recorded(MyRun(w))
    /\ tick[w].at \in InPhase => tick[w].outputs # Phase
    /\ At(w, "complete") => tick[w].outputs = Phase
    /\ tick[w].at \in Delivering => \A ph \in tick[w].outputs : Written(MyRun(w), ph)
    /\ At(w, "artifact") => <<MyRun(w), MyPhase(w), tick[w].attempt>> \in phases

(* What a tick knows while its worker holds the lease.                        *)
Knows(w) ==
    (MyRun(w) \in Run /\ Holds(w)) =>
        /\ tick[w].at \in {"rebuild", "phase", "complete"} \cup (InPhase \ {"artifact"}) =>
              tick[w].outputs = Recorded(MyRun(w))
        /\ At(w, "artifact") =>
              Recorded(MyRun(w)) = tick[w].outputs \cup {MyPhase(w)}
        /\ tick[w].at \in InPhase \ {"artifact"} => Pending(MyRun(w)) = {}

IInv ==
    /\ TypeOK /\ IsFiniteSet(ledger) /\ IsFiniteSet(decisions)
    /\ Records /\ Asked /\ CompleteMeansDelivered
    /\ \A w \in Worker : Follows(w) /\ Knows(w)

-------------------------------------------------------------------------------
(* A smallest finite set with a property, from the well-foundedness of strict  *)
(* inclusion: induction over finite sets for a set T of finite sets.           *)
LEMMA Smallest ==
  ASSUME NEW S, NEW T, T \subseteq FiniteSubsetsOf(S), T # {}
  PROVE  \E A \in T : \A B \in T : B \subseteq A => B = A
<1>1. PICK A \in T : \A B \in T : ~(<<B, A>> \in StrictSubsetOrdering(S))
  BY FS_StrictSubsetOrderingWellFounded, WFMin, Zenon
<1>2. ASSUME NEW B \in T, B \subseteq A PROVE B = A
  <2>1. A \in SUBSET S /\ B \in SUBSET S
    BY DEF FiniteSubsetsOf
  <2> QED
    BY <1>1, <1>2, <2>1 DEF StrictSubsetOrdering
<1> QED
  BY <1>2

(* A finite set of numbers has a maximum and a minimum.                        *)
LEMMA Extremes ==
  ASSUME NEW S \in SUBSET Nat, IsFiniteSet(S), S # {}
  PROVE  (\E m \in S : \A x \in S : x <= m) /\ (\E m \in S : \A x \in S : m <= x)
<1> DEFINE Good(A) == /\ \E m \in A : \A x \in A : x <= m
                      /\ \E m \in A : \A x \in A : m <= x
           Bad == {A \in FiniteSubsetsOf(Nat) : A # {} /\ ~Good(A)}
<1>1. Bad = {}
  <2> SUFFICES ASSUME Bad # {} PROVE FALSE
    OBVIOUS
  <2>1. PICK A \in Bad : \A B \in Bad : B \subseteq A => B = A
    <3>1. Bad \subseteq FiniteSubsetsOf(Nat)
      OBVIOUS
    <3> HIDE DEF Bad
    <3> QED
      BY <3>1, Smallest
  <2>2. A \in SUBSET Nat /\ IsFiniteSet(A) /\ A # {} /\ ~Good(A)
    BY DEF FiniteSubsetsOf
  <2>3. PICK n \in A : TRUE
    BY <2>2
  <2>4. IsFiniteSet(A \ {n})
    BY <2>2, FS_RemoveElement
  <2>5. A \ {n} \in FiniteSubsetsOf(Nat) /\ A \ {n} # A
    BY <2>2, <2>3, <2>4 DEF FiniteSubsetsOf
  <2>6. A \ {n} = {} \/ Good(A \ {n})
    BY <2>1, <2>5
  <2>7. CASE A \ {n} = {}
    BY <2>2, <2>3, <2>7
  <2>8. CASE Good(A \ {n})
    <3>1. PICK m \in A \ {n} : \A x \in A \ {n} : x <= m
      BY <2>8
    <3>2. PICK l \in A \ {n} : \A x \in A \ {n} : l <= x
      BY <2>8
    <3>3. \E k \in A : \A x \in A : x <= k
      <4>1. CASE n <= m
        BY <3>1, <4>1
      <4>2. CASE ~(n <= m)
        BY <2>2, <2>3, <3>1, <4>2
      <4> QED
        BY <4>1, <4>2
    <3>4. \E k \in A : \A x \in A : k <= x
      <4>1. CASE l <= n
        BY <3>2, <4>1
      <4>2. CASE ~(l <= n)
        BY <2>2, <2>3, <3>2, <4>2
      <4> QED
        BY <4>1, <4>2
    <3> QED
      BY <2>2, <3>3, <3>4
  <2> QED
    BY <2>6, <2>7, <2>8
<1>2. S \in FiniteSubsetsOf(Nat)
  BY DEF FiniteSubsetsOf
<1>3. Good(S)
  BY <1>1, <1>2
<1> QED
  BY <1>3

LEMMA MaxFound ==
  ASSUME NEW S \in SUBSET Nat, IsFiniteSet(S), S # {}
  PROVE  Max(S) \in S /\ \A x \in S : x <= Max(S)
<1>1. PICK m \in S : \A x \in S : m >= x
  BY Extremes
<1> QED
  BY <1>1 DEF Max

LEMMA MinFound ==
  ASSUME NEW S \in SUBSET Nat, IsFiniteSet(S), S # {}
  PROVE  Min(S) \in S /\ \A x \in S : Min(S) <= x
<1>1. PICK m \in S : \A x \in S : m =< x
  BY Extremes
<1> QED
  BY <1>1 DEF Min

(* The next phase is the first one without an output, and recording it leaves  *)
(* no gap.                                                                   *)
LEMMA NextPhase ==
  ASSUME NEW S, InOrder(S), S # Phase
  PROVE  LET ph == Min(Phase \ S)
         IN  /\ ph \in Phase \ S /\ S = 1..(ph - 1) /\ InOrder(S \cup {ph})
             /\ \A q \in Phase : q < ph => q \in S
             /\ \A q \in Phase \ S : (\A p \in Phase : p < q => p \in S) => q = ph
<1> DEFINE ph == Min(Phase \ S)
<1>1. /\ NumPhases \in Nat \ {0} /\ IsFiniteSet(Phase) /\ Phase \subseteq Nat
      /\ \A q : q \in Phase <=> q \in Nat /\ 1 <= q /\ q <= NumPhases
  BY WorkerAssumption, FS_Interval DEF Phase
<1>2. IsFiniteSet(Phase \ S) /\ Phase \ S # {} /\ Phase \ S \in SUBSET Nat
  BY <1>1, FS_Difference DEF InOrder
<1>3. ph \in Phase \ S /\ \A q \in Phase \ S : ph <= q
  BY <1>2, MinFound
<1> HIDE DEF ph
<1>4. \A q \in Phase : q < ph => q \in S
  BY <1>1, <1>3
<1>5. \A q \in S : q \in Phase /\ q < ph
  <2> SUFFICES ASSUME NEW q \in S PROVE q \in Phase /\ q < ph
    OBVIOUS
  <2>1. q \in Phase /\ q # ph
    BY <1>3 DEF InOrder
  <2>2. ~(ph < q)
    BY <1>3 DEF InOrder
  <2> QED
    BY <1>1, <1>3, <2>1, <2>2
<1>6. S = 1..(ph - 1)
  <2>1. ph \in Nat /\ 1 <= ph /\ ph <= NumPhases
    BY <1>1, <1>3
  <2>2. ASSUME NEW q \in S PROVE q \in 1..(ph - 1)
    <3>1. q \in Nat /\ 1 <= q /\ q < ph
      BY <1>1, <1>5
    <3> QED
      BY <2>1, <3>1
  <2>3. ASSUME NEW q \in 1..(ph - 1) PROVE q \in S
    <3>1. q \in Nat /\ 1 <= q /\ q <= NumPhases /\ q < ph
      BY <1>1, <2>1
    <3>2. q \in Phase
      BY <1>1, <3>1
    <3> QED
      BY <1>4, <3>1, <3>2
  <2> QED
    BY <2>2, <2>3
<1>7. InOrder(S \cup {ph})
  BY <1>1, <1>3, <1>4 DEF InOrder
<1>8. \A q \in Phase \ S : (\A p \in Phase : p < q => p \in S) => q = ph
  BY <1>1, <1>3, <1>5
<1> QED
  BY <1>3, <1>4, <1>6, <1>7, <1>8 DEF ph

(* A function's image of a finite set is finite.                               *)
LEMMA ImageFinite ==
  ASSUME NEW S, IsFiniteSet(S), NEW f, DOMAIN f = S
  PROVE  IsFiniteSet({f[x] : x \in S})
<1> DEFINE T == {f[x] : x \in S}
           g == [x \in S |-> f[x]]
<1>1. g \in Surjection(S, T)
  BY DEF Surjection
<1> QED
  BY <1>1, FS_Surjection

-------------------------------------------------------------------------------
(* What a step may do to the ledger: nothing, reserve one row within the        *)
(* ceilings, abandon a reservation, settle one.                                *)
Reserves(w) ==
    /\ At(w, "reserve")
    /\ ~(SpentForRun(MyRun(w)) + Estimate > RunCeiling)
    /\ ~(SpentForDay(day) + Estimate > DayCeiling)
    /\ ~Taken(w)
    /\ ledger' = ledger \cup
          {[run |-> MyRun(w), phase |-> MyPhase(w), attempt |-> tick[w].attempt,
            day |-> day, state |-> "reserved", tokens |-> Estimate]}

OpenRows(r, ph, n) == {x \in RowsOf(r, ph, n) : x.state = "reserved"}

LEMMA LedgerMoves ==
  ASSUME Next
  PROVE  \/ ledger' = ledger
         \/ \E w \in Worker : Reserves(w)
         \/ \E r, ph, n : ledger' = Abandoned(OpenRows(r, ph, n))
         \/ \E x \in ledger, n \in Actual : x.state = "reserved" /\ ledger' = Settle(x, n)
<1> USE DEF db, bounds
<1>1. ASSUME NEW w \in Worker, AbandonDead(w)
      PROVE  \E r, ph, n : ledger' = Abandoned(OpenRows(r, ph, n))
  BY <1>1 DEF AbandonDead, OpenRows
<1>2. ASSUME NEW w \in Worker, AbandonOwn(w)
      PROVE  ledger' = ledger \/ \E r, ph, n : ledger' = Abandoned(OpenRows(r, ph, n))
  BY <1>2 DEF AbandonOwn, MyReserved, OpenRows
<1>3. ASSUME NEW w \in Worker, CommitText(w) \/ CommitDecision(w)
      PROVE  \/ ledger' = ledger
             \/ \E x \in ledger, n \in Actual : x.state = "reserved" /\ ledger' = Settle(x, n)
  BY <1>3 DEF CommitText, CommitDecision, SettleThrows, LeaseLost, MyReserved, RowsOf
<1>4. ASSUME NEW w \in Worker, Reserve(w)
      PROVE  ledger' = ledger \/ Reserves(w)
  BY <1>4 DEF Reserve, ReserveUnless, Reserves
<1>5. ASSUME NEW w \in Worker,
             \/ Claim(w) \/ ListDead(w) \/ ReadOutputs(w) \/ Rebuild(w) \/ BeginPhase(w)
             \/ NextAttempt(w) \/ Announce(w) \/ ModelReplies(w) \/ SetTerminalStatus(w)
             \/ BlockOnNull(w) \/ WriteArtifact(w) \/ EndTick(w)
             \/ Heartbeat(w) \/ WriteFails(w) \/ Crash(w)
      PROVE  ledger' = ledger
  BY <1>5 DEF Claim, ListDead, ReadOutputs, Rebuild, BeginPhase, NextAttempt, Announce,
              ModelReplies, SetTerminalStatus, BlockOnNull, WriteArtifact, EndTick, Heartbeat,
              WriteFails, Crash, LeaseLost
<1>6. ASSUME NEW r \in Run,
             CreateRun(r) \/ AnswerDecision(r) \/ DeadLeaseExpires(r) \/ LeaseLapses(r)
      PROVE  ledger' = ledger
  BY <1>6 DEF CreateRun, AnswerDecision, DeadLeaseExpires, LeaseLapses, Expire
<1>7. NextDay => ledger' = ledger
  BY DEF NextDay
<1> QED
  BY <1>1, <1>2, <1>3, <1>4, <1>5, <1>6, <1>7 DEF Next, TickStep

(* The types of a tick.                                                       *)
LEMMA TickTypes ==
  ASSUME TypeOK, NEW w \in Worker
  PROVE  /\ tick[w] \in Ticks /\ tick[w].outputs \in SUBSET Phase /\ tick[w].attempt \in Nat
         /\ tick[w].dead \in SUBSET (Phase \X Nat) /\ MyRun(w) \in Run \cup {NoRun}
         /\ NoRun \notin Run
         /\ NoTick \in Ticks
<1>1. tick[w] \in Ticks
  BY DEF TypeOK
<1>2. /\ tick[w].outputs \in SUBSET Phase /\ tick[w].attempt \in Nat
      /\ tick[w].dead \in SUBSET (Phase \X Nat) /\ MyRun(w) \in Run \cup {NoRun}
  BY <1>1 DEF Ticks, MyRun
<1>3. NoRun \notin Run
  BY WorkerAssumption DEF NoRun
<1>4. NoTick \in Ticks
  BY DEF NoTick, Ticks, Steps
<1> QED
  BY <1>1, <1>2, <1>3, <1>4

(* A tick that goes on to another step keeps the rest of what it holds.        *)
LEMMA GotoTypes ==
  ASSUME TypeOK, NEW w \in Worker, NEW at \in Steps, Goto(w, at)
  PROVE  /\ tick' \in [Worker -> Ticks]
         /\ tick'[w] = [tick[w] EXCEPT !.at = at] /\ tick'[w].at = at
         /\ tick'[w].run = tick[w].run /\ tick'[w].outputs = tick[w].outputs
         /\ tick'[w].attempt = tick[w].attempt
         /\ \A v \in Worker : v # w => tick'[v] = tick[v]
<1>1. tick \in [Worker -> Ticks] /\ tick[w] \in Ticks
  BY DEF TypeOK
<1>2. tick' = [tick EXCEPT ![w] = [tick[w] EXCEPT !.at = at]]
  BY DEF Goto
<1>3. [tick[w] EXCEPT !.at = at] \in Ticks
  BY <1>1 DEF Ticks, Steps
<1> QED
  BY <1>1, <1>2, <1>3 DEF Ticks

-------------------------------------------------------------------------------
(* The phase a tick is in exists and is not among its outputs.                 *)
LEMMA PhaseKnown ==
  ASSUME IInv, NEW w \in Worker, tick[w].at \in InPhase
  PROVE  /\ MyRun(w) \in Run /\ MyPhase(w) \in Phase \ tick[w].outputs
         /\ InOrder(tick[w].outputs \cup {MyPhase(w)})
         /\ tick[w].outputs = 1..(MyPhase(w) - 1)
         /\ \A q \in Phase : q < MyPhase(w) => q \in tick[w].outputs
         /\ \A q \in Phase \ tick[w].outputs :
               (\A p \in Phase : p < q => p \in tick[w].outputs) => q = MyPhase(w)
<1>1. /\ MyRun(w) \in Run /\ InOrder(tick[w].outputs) /\ tick[w].outputs # Phase
  BY DEF IInv, Follows, InPhase, At
<1> QED
  BY <1>1, NextPhase DEF MyPhase

(* The ledger keeps its type, and is finite.                                  *)
Row == [run : Run, phase : Phase, attempt : Nat, day : Nat,
        state : {"reserved", "settled", "abandoned"}, tokens : Nat]

LEMMA LedgerTyped ==
  ASSUME IInv, Next
  PROVE  ledger' \subseteq Row /\ IsFiniteSet(ledger')
<1>1. ledger \subseteq Row /\ IsFiniteSet(ledger)
  BY DEF IInv, TypeOK, Row
<1>2. CASE ledger' = ledger
  BY <1>1, <1>2
<1>3. ASSUME NEW w \in Worker, Reserves(w) PROVE ledger' \subseteq Row /\ IsFiniteSet(ledger')
  <2> DEFINE new == [run |-> MyRun(w), phase |-> MyPhase(w), attempt |-> tick[w].attempt,
                     day |-> day, state |-> "reserved", tokens |-> Estimate]
  <2>1. tick[w].at \in InPhase
    BY <1>3 DEF Reserves, At, InPhase
  <2>2. /\ MyRun(w) \in Run /\ MyPhase(w) \in Phase /\ tick[w].attempt \in Nat /\ day \in Nat
        /\ Estimate \in Nat
    <3>1. MyRun(w) \in Run /\ MyPhase(w) \in Phase
      BY <2>1, PhaseKnown
    <3>2. tick[w].attempt \in Nat
      BY TickTypes DEF IInv
    <3>3. day \in Nat /\ Estimate \in Nat
      BY WorkerAssumption DEF IInv, TypeOK
    <3> QED
      BY <3>1, <3>2, <3>3
  <2>3. new \in Row
    BY <2>2 DEF Row
  <2>4. IsFiniteSet(ledger \cup {new})
    BY <1>1, FS_AddElement
  <2> QED
    BY <1>1, <1>3, <2>3, <2>4 DEF Reserves
<1>4. ASSUME NEW rows \in SUBSET ledger, ledger' = Abandoned(rows)
      PROVE  ledger' \subseteq Row /\ IsFiniteSet(ledger')
  <2> DEFINE f == [x \in rows |-> [x EXCEPT !.state = "abandoned"]]
  <2>1. IsFiniteSet(rows) /\ IsFiniteSet(ledger \ rows)
    BY <1>1, FS_Subset
  <2>2. IsFiniteSet({f[x] : x \in rows})
    <3>1. DOMAIN f = rows
      OBVIOUS
    <3> HIDE DEF f
    <3> QED
      BY <2>1, <3>1, ImageFinite
  <2>3. ledger' = (ledger \ rows) \cup {f[x] : x \in rows}
    BY <1>4 DEF Abandoned
  <2>4. \A x \in rows : f[x] \in Row
    BY <1>1 DEF Row
  <2> HIDE DEF f
  <2>5. IsFiniteSet((ledger \ rows) \cup {f[x] : x \in rows})
    BY <2>1, <2>2, FS_Union
  <2> QED
    BY <1>1, <2>3, <2>4, <2>5
<1>5. ASSUME NEW x \in ledger, NEW n \in Actual, ledger' = Settle(x, n)
      PROVE  ledger' \subseteq Row /\ IsFiniteSet(ledger')
  <2> DEFINE new == [x EXCEPT !.state = "settled", !.tokens = n]
  <2>1. n \in Nat
    BY WorkerAssumption
  <2>2. new \in Row
    BY <1>1, <2>1 DEF Row
  <2>3. IsFiniteSet((ledger \ {x}) \cup {new})
    BY <1>1, FS_RemoveElement, FS_AddElement
  <2> QED
    BY <1>1, <1>5, <2>2, <2>3 DEF Settle
<1>6. \A r, ph, n : OpenRows(r, ph, n) \in SUBSET ledger
  BY DEF OpenRows, RowsOf
<1> QED
  BY <1>2, <1>3, <1>4, <1>5, <1>6, LedgerMoves

(* The attempts of a phase are numbers and there is a last one: a new attempt   *)
(* has a number.                                                             *)
LEMMA AttemptsNumbered ==
  ASSUME IInv, NEW w \in Worker, NextAttempt(w)
  PROVE  \E n \in Nat : tick' = [tick EXCEPT ![w].at = "reserve", ![w].attempt = n]
<1> DEFINE rows == {y \in ledger : y.run = MyRun(w) /\ y.phase = MyPhase(w)}
           f == [x \in rows |-> x.attempt]
           used == {x.attempt : x \in rows}
           all == used \cup {0}
           last == Max(all)
<1>1. IsFiniteSet(rows)
  BY FS_Subset DEF IInv
<1>2. IsFiniteSet({f[x] : x \in rows})
  <2>1. DOMAIN f = rows
    OBVIOUS
  <2> HIDE DEF f, rows
  <2> QED
    BY <1>1, <2>1, ImageFinite
<1>3. used = {f[x] : x \in rows}
  OBVIOUS
<1>4. used \in SUBSET Nat
  BY DEF IInv, TypeOK
<1>5. tick' = [tick EXCEPT ![w].at = "reserve", ![w].attempt = last + 1]
  BY DEF NextAttempt
<1> HIDE DEF f, rows, used
<1>6. IsFiniteSet(used)
  BY <1>2, <1>3
<1>7. IsFiniteSet(all) /\ all \in SUBSET Nat /\ all # {}
  BY <1>4, <1>6, FS_AddElement
<1> HIDE DEF all
<1>8. Max(all) \in all
  BY <1>7, MaxFound
<1> HIDE DEF last
<1>9. last \in Nat
  BY <1>7, <1>8 DEF last
<1>10. last + 1 \in Nat
  BY <1>9
<1> QED
  BY <1>5, <1>10, Zenon

(* A recorded phase has one recorded attempt.                                 *)
LEMMA RecordedFound ==
  ASSUME IInv, NEW r \in Run, NEW ph \in Recorded(r)
  PROVE  /\ <<r, ph, RecordedAttempt(r, ph)>> \in phases /\ RecordedAttempt(r, ph) \in Nat
         /\ ph \in Phase
<1>1. phases \subseteq Run \X Phase \X Nat
  BY DEF IInv, TypeOK
<1>2. PICK x \in phases : x[1] = r /\ x[2] = ph
  BY DEF Recorded
<1>3. x = <<r, ph, x[3]>> /\ x[3] \in Nat /\ ph \in Phase
  BY <1>1, <1>2
<1>4. \E n \in {y[3] : y \in phases} : <<r, ph, n>> \in phases
  BY <1>2, <1>3
<1>5. <<r, ph, RecordedAttempt(r, ph)>> \in phases
  BY <1>4 DEF RecordedAttempt
<1> QED
  BY <1>1, <1>3, <1>5

-------------------------------------------------------------------------------
(* A tick whose fields change within their types stays a tick.                 *)
LEMMA TickUpdates ==
  ASSUME NEW t \in Ticks
  PROVE  /\ \A at \in Steps : [t EXCEPT !.at = at] \in Ticks
         /\ \A dead \in SUBSET (Phase \X Nat) : [t EXCEPT !.dead = dead] \in Ticks
         /\ \A at \in Steps, dead \in SUBSET (Phase \X Nat) :
               [t EXCEPT !.at = at, !.dead = dead] \in Ticks
         /\ \A at \in Steps, outputs \in SUBSET Phase :
               [t EXCEPT !.at = at, !.outputs = outputs] \in Ticks
         /\ \A at \in Steps, n \in Nat : [t EXCEPT !.at = at, !.attempt = n] \in Ticks
         /\ \A at \in Steps, holds \in BOOLEAN :
               [t EXCEPT !.at = at, !.holds = holds] \in Ticks
         /\ \A at \in Steps, r \in Run : [t EXCEPT !.at = at, !.run = r] \in Ticks
<1>1. \A at \in Steps : [t EXCEPT !.at = at] \in Ticks
  BY DEF Ticks
<1>2. \A dead \in SUBSET (Phase \X Nat) : [t EXCEPT !.dead = dead] \in Ticks
  BY DEF Ticks
<1>3. \A at \in Steps, dead \in SUBSET (Phase \X Nat) :
        [t EXCEPT !.at = at, !.dead = dead] \in Ticks
  BY DEF Ticks
<1>4. \A at \in Steps, outputs \in SUBSET Phase :
        [t EXCEPT !.at = at, !.outputs = outputs] \in Ticks
  BY DEF Ticks
<1>5. \A at \in Steps, n \in Nat : [t EXCEPT !.at = at, !.attempt = n] \in Ticks
  BY DEF Ticks
<1>6. \A at \in Steps, holds \in BOOLEAN : [t EXCEPT !.at = at, !.holds = holds] \in Ticks
  BY DEF Ticks
<1>7. \A at \in Steps, r \in Run : [t EXCEPT !.at = at, !.run = r] \in Ticks
  BY DEF Ticks
<1> QED
  BY <1>1, <1>2, <1>3, <1>4, <1>5, <1>6, <1>7

(* The tick of a worker that takes a step.                                    *)
LEMMA TickTyped ==
  ASSUME IInv, NEW w \in Worker,
         Claim(w) \/ TickStep(w) \/ Heartbeat(w) \/ WriteFails(w) \/ Crash(w)
  PROVE  \E t \in Ticks : tick' = [tick EXCEPT ![w] = t]
<1> DEFINE t == tick[w]
           Typed == \E u \in Ticks : tick' = [tick EXCEPT ![w] = u]
<1>1. tick \in [Worker -> Ticks] /\ t \in Ticks /\ NoTick \in Ticks
  BY TickTypes DEF IInv, TypeOK
<1>2. tick = [tick EXCEPT ![w] = t]
  BY <1>1
<1>3. /\ \A at \in Steps : [t EXCEPT !.at = at] \in Ticks
      /\ \A dead \in SUBSET (Phase \X Nat) : [t EXCEPT !.dead = dead] \in Ticks
      /\ \A at \in Steps, dead \in SUBSET (Phase \X Nat) :
            [t EXCEPT !.at = at, !.dead = dead] \in Ticks
      /\ \A at \in Steps, outputs \in SUBSET Phase :
            [t EXCEPT !.at = at, !.outputs = outputs] \in Ticks
      /\ \A at \in Steps, n \in Nat : [t EXCEPT !.at = at, !.attempt = n] \in Ticks
      /\ \A at \in Steps, holds \in BOOLEAN : [t EXCEPT !.at = at, !.holds = holds] \in Ticks
  BY <1>1, TickUpdates
<1>4. \A at \in Steps : Goto(w, at) => Typed
  BY <1>3 DEF Goto
<1>5. CASE tick' = tick
  BY <1>1, <1>2, <1>5
<1>6. CASE Claim(w)
  <2>1. PICK r \in Run : tick' = [tick EXCEPT ![w] = [NoTick EXCEPT !.at = "list", !.run = r]]
    BY <1>6 DEF Claim
  <2>2. "list" \in Steps
    BY DEF Steps
  <2>3. [NoTick EXCEPT !.at = "list", !.run = r] \in Ticks
    BY <1>1, <2>2, TickUpdates
  <2> QED
    BY <2>1, <2>3
<1>7. CASE ListDead(w)
  <2> DEFINE dead == {<<x.phase, x.attempt>> :
                        x \in {y \in ledger : y.run = MyRun(w) /\ y.state = "reserved"}}
  <2>1. dead \in SUBSET (Phase \X Nat) /\ "sweep" \in Steps
    BY DEF IInv, TypeOK, Steps
  <2>2. tick' = [tick EXCEPT ![w] = [t EXCEPT !.at = "sweep", !.dead = dead]]
    BY <1>7 DEF ListDead
  <2> QED
    BY <1>3, <2>1, <2>2
<1>8. CASE AbandonDead(w)
  <2>1. PICK k : tick' = [tick EXCEPT ![w] = [t EXCEPT !.dead = t.dead \ {k}]]
    BY <1>8 DEF AbandonDead
  <2>2. t.dead \ {k} \in SUBSET (Phase \X Nat)
    BY TickTypes DEF IInv
  <2> QED
    BY <1>3, <2>1, <2>2
<1>9. CASE WriteFails(w)
  BY <1>1, <1>4, <1>9 DEF WriteFails, Steps
<1>10. CASE ReadOutputs(w)
  <2> DEFINE out == {x[2] : x \in {y \in phases : y[1] = MyRun(w)}}
  <2>1. out \in SUBSET Phase /\ "rebuild" \in Steps
    BY DEF IInv, TypeOK, Steps
  <2>2. tick' = [tick EXCEPT ![w] = [t EXCEPT !.at = "rebuild", !.outputs = out]]
    BY <1>10 DEF ReadOutputs
  <2> QED
    BY <1>3, <2>1, <2>2
<1>11. CASE Rebuild(w)
  BY <1>4, <1>5, <1>11 DEF Rebuild, Steps
<1>12. CASE BeginPhase(w)
  BY <1>4, <1>12 DEF BeginPhase, Steps
<1>13. CASE NextAttempt(w)
  <2>1. PICK n \in Nat : tick' = [tick EXCEPT ![w].at = "reserve", ![w].attempt = n]
    BY <1>13, AttemptsNumbered
  <2>2. tick' = [tick EXCEPT ![w] = [t EXCEPT !.at = "reserve", !.attempt = n]]
    BY <2>1
  <2>3. "reserve" \in Steps
    BY DEF Steps
  <2> QED
    BY <1>3, <2>2, <2>3
<1>14. CASE Reserve(w)
  <2>1. \/ Goto(w, "failed") \/ Goto(w, "paused-for-blocker")
        \/ tick' = [tick EXCEPT ![w] = [t EXCEPT !.at = "announce", !.holds = TRUE]]
    BY <1>14 DEF Reserve, ReserveUnless
  <2>2. {"failed", "paused-for-blocker", "announce"} \subseteq Steps
    BY DEF Steps
  <2> QED
    BY <1>3, <1>4, <2>1, <2>2
<1>15. CASE Announce(w) \/ ModelReplies(w)
  BY <1>4, <1>15 DEF Announce, ModelReplies, Steps
<1>16. CASE Heartbeat(w)
  BY <1>4, <1>5, <1>16 DEF Heartbeat, LeaseLost, Steps
<1>17. CASE SetTerminalStatus(w) \/ BlockOnNull(w) \/ AbandonOwn(w)
  BY <1>4, <1>17 DEF SetTerminalStatus, BlockOnNull, AbandonOwn, LeaseLost, Steps
<1>18. CASE CommitText(w) \/ CommitDecision(w)
  <2>1. \/ Goto(w, "end") \/ Goto(w, "lost")
        \/ tick' = [tick EXCEPT ![w] = [t EXCEPT !.at = "artifact", !.holds = FALSE]]
        \/ tick' = [tick EXCEPT ![w] = [t EXCEPT !.at = "end", !.holds = FALSE]]
    BY <1>18 DEF CommitText, CommitDecision, SettleThrows, LeaseLost
  <2>2. {"artifact", "end", "lost"} \subseteq Steps
    BY DEF Steps
  <2> QED
    BY <1>3, <1>4, <2>1, <2>2
<1>19. CASE WriteArtifact(w)
  <2>1. t.outputs \cup {MyPhase(w)} \in SUBSET Phase /\ "phase" \in Steps
    BY <1>19, PhaseKnown, TickTypes DEF WriteArtifact, At, InPhase, IInv, Steps
  <2>2. tick' = [tick EXCEPT ![w] = [t EXCEPT !.at = "phase", !.outputs = t.outputs \cup {MyPhase(w)}]]
    BY <1>19 DEF WriteArtifact
  <2> QED
    BY <1>3, <2>1, <2>2
<1>20. CASE EndTick(w) \/ Crash(w)
  BY <1>1, <1>20 DEF EndTick, Crash
<1> QED
  BY <1>6, <1>7, <1>8, <1>9, <1>10, <1>11, <1>12, <1>13, <1>14, <1>15, <1>16, <1>17, <1>18,
     <1>19, <1>20 DEF TickStep

-------------------------------------------------------------------------------
(* What a step may do to the other variables.                                 *)
Recording(w) ==
    /\ At(w, "commitText") /\ Holds(w)
    /\ phases' = phases \cup {<<MyRun(w), MyPhase(w), tick[w].attempt>>}
    /\ lease' = Renewed(w)
    /\ tick' = [tick EXCEPT ![w].at = "artifact", ![w].holds = FALSE]
    /\ UNCHANGED <<status, decisions, artifact, bounds>>

Asking(w) ==
    /\ At(w, "commitDecision") /\ Holds(w)
    /\ decisions' = decisions \cup
          {[run |-> MyRun(w), phase |-> MyPhase(w), attempt |-> tick[w].attempt,
            answered |-> FALSE, id |-> Cardinality(decisions) + 1]}
    /\ tick' = [tick EXCEPT ![w].at = "end", ![w].holds = FALSE]
    /\ UNCHANGED <<phases, artifact>>

Answering(r) ==
    \E d \in Pending(r) :
        /\ decisions' = (decisions \ {d}) \cup {[d EXCEPT !.answered = TRUE]}
        /\ UNCHANGED <<phases, artifact, tick>>

Rewriting(w) ==
    /\ At(w, "rebuild")
    /\ \E ph \in tick[w].outputs :
          artifact' = [artifact EXCEPT ![MyRun(w)][ph] = RecordedAttempt(MyRun(w), ph)]
    /\ UNCHANGED phases

LEMMA PhasesMoves ==
  ASSUME Next
  PROVE  phases' = phases \/ \E w \in Worker : Recording(w)
<1> USE DEF db, bounds
<1>1. ASSUME NEW w \in Worker, CommitText(w) PROVE phases' = phases \/ Recording(w)
  BY <1>1 DEF CommitText, SettleThrows, LeaseLost, Recording
<1>2. ASSUME NEW w \in Worker,
             \/ Claim(w) \/ ListDead(w) \/ AbandonDead(w) \/ ReadOutputs(w) \/ Rebuild(w)
             \/ BeginPhase(w) \/ NextAttempt(w) \/ Reserve(w) \/ Announce(w) \/ ModelReplies(w)
             \/ SetTerminalStatus(w) \/ BlockOnNull(w) \/ AbandonOwn(w) \/ CommitDecision(w)
             \/ WriteArtifact(w) \/ EndTick(w) \/ Heartbeat(w) \/ WriteFails(w) \/ Crash(w)
      PROVE  phases' = phases
  BY <1>2 DEF Claim, ListDead, AbandonDead, ReadOutputs, Rebuild, BeginPhase, NextAttempt,
              Reserve, ReserveUnless, Announce, ModelReplies, SetTerminalStatus, BlockOnNull,
              AbandonOwn, CommitDecision, WriteArtifact, EndTick, Heartbeat, WriteFails, Crash,
              SettleThrows, LeaseLost
<1>3. ASSUME NEW r \in Run,
             CreateRun(r) \/ AnswerDecision(r) \/ DeadLeaseExpires(r) \/ LeaseLapses(r)
      PROVE  phases' = phases
  BY <1>3 DEF CreateRun, AnswerDecision, DeadLeaseExpires, LeaseLapses, Expire
<1>4. NextDay => phases' = phases
  BY DEF NextDay
<1> QED
  BY <1>1, <1>2, <1>3, <1>4 DEF Next, TickStep

LEMMA DecisionMoves ==
  ASSUME Next
  PROVE  \/ decisions' = decisions
         \/ \E w \in Worker : Asking(w)
         \/ \E r \in Run : Answering(r)
<1> USE DEF db, bounds
<1>1. ASSUME NEW w \in Worker, CommitDecision(w) PROVE decisions' = decisions \/ Asking(w)
  BY <1>1 DEF CommitDecision, FencedStatus, SettleThrows, LeaseLost, Asking
<1>2. ASSUME NEW w \in Worker,
             \/ Claim(w) \/ ListDead(w) \/ AbandonDead(w) \/ ReadOutputs(w) \/ Rebuild(w)
             \/ BeginPhase(w) \/ NextAttempt(w) \/ Reserve(w) \/ Announce(w) \/ ModelReplies(w)
             \/ SetTerminalStatus(w) \/ BlockOnNull(w) \/ AbandonOwn(w) \/ CommitText(w)
             \/ WriteArtifact(w) \/ EndTick(w) \/ Heartbeat(w) \/ WriteFails(w) \/ Crash(w)
      PROVE  decisions' = decisions
  BY <1>2 DEF Claim, ListDead, AbandonDead, ReadOutputs, Rebuild, BeginPhase, NextAttempt,
              Reserve, ReserveUnless, Announce, ModelReplies, SetTerminalStatus, BlockOnNull,
              AbandonOwn, CommitText, WriteArtifact, EndTick, Heartbeat, WriteFails, Crash,
              SettleThrows, LeaseLost
<1>3. ASSUME NEW r \in Run, AnswerDecision(r) PROVE Answering(r)
  BY <1>3 DEF AnswerDecision, Answering
<1>4. ASSUME NEW r \in Run, CreateRun(r) \/ DeadLeaseExpires(r) \/ LeaseLapses(r)
      PROVE  decisions' = decisions
  BY <1>4 DEF CreateRun, DeadLeaseExpires, LeaseLapses, Expire
<1>5. NextDay => decisions' = decisions
  BY DEF NextDay
<1> QED
  BY <1>1, <1>2, <1>3, <1>4, <1>5 DEF Next, TickStep

LEMMA ArtifactMoves ==
  ASSUME Next
  PROVE  artifact' = artifact \/ \E w \in Worker : WriteArtifact(w) \/ Rewriting(w)
<1> USE DEF db, bounds
<1>1. ASSUME NEW w \in Worker, Rebuild(w) PROVE artifact' = artifact \/ Rewriting(w)
  BY <1>1 DEF Rebuild, Rewriting
<1>2. ASSUME NEW w \in Worker,
             \/ Claim(w) \/ ListDead(w) \/ AbandonDead(w) \/ ReadOutputs(w) \/ BeginPhase(w)
             \/ NextAttempt(w) \/ Reserve(w) \/ Announce(w) \/ ModelReplies(w)
             \/ SetTerminalStatus(w) \/ BlockOnNull(w) \/ AbandonOwn(w) \/ CommitText(w)
             \/ CommitDecision(w) \/ EndTick(w) \/ Heartbeat(w) \/ WriteFails(w) \/ Crash(w)
      PROVE  artifact' = artifact
  BY <1>2 DEF Claim, ListDead, AbandonDead, ReadOutputs, BeginPhase, NextAttempt,
              Reserve, ReserveUnless, Announce, ModelReplies, SetTerminalStatus, BlockOnNull,
              AbandonOwn, CommitText, CommitDecision, EndTick, Heartbeat, WriteFails, Crash,
              SettleThrows, LeaseLost
<1>3. ASSUME NEW r \in Run,
             CreateRun(r) \/ AnswerDecision(r) \/ DeadLeaseExpires(r) \/ LeaseLapses(r)
      PROVE  artifact' = artifact
  BY <1>3 DEF CreateRun, AnswerDecision, DeadLeaseExpires, LeaseLapses, Expire
<1>4. NextDay => artifact' = artifact
  BY DEF NextDay
<1> QED
  BY <1>1, <1>2, <1>3, <1>4 DEF Next, TickStep

(* A lease row gets a new holder only when an idle worker claims its run.      *)
LEMMA LeaseMoves ==
  ASSUME Next
  PROVE  \/ lease' = lease
         \/ \E w \in Worker, r \in Run :
               /\ At(w, "idle")
               /\ lease' = [lease EXCEPT ![r] = [holder |-> w, expired |-> FALSE]]
               /\ tick' = [tick EXCEPT ![w] = [NoTick EXCEPT !.at = "list", !.run = r]]
         \/ \E r \in Run : lease' = [lease EXCEPT ![r].expired = TRUE]
         \/ \E w \in Worker : ~At(w, "idle") /\ lease' = Renewed(w)
         \/ \E w \in Worker : ~At(w, "idle") /\ lease' = [lease EXCEPT ![MyRun(w)] = Free]
<1> USE DEF db, bounds
<1>1. ASSUME NEW w \in Worker, Claim(w)
      PROVE  \E r \in Run :
               /\ At(w, "idle")
               /\ lease' = [lease EXCEPT ![r] = [holder |-> w, expired |-> FALSE]]
               /\ tick' = [tick EXCEPT ![w] = [NoTick EXCEPT !.at = "list", !.run = r]]
  BY <1>1 DEF Claim
<1>2. ASSUME NEW w \in Worker,
             \/ Heartbeat(w) \/ SetTerminalStatus(w) \/ BlockOnNull(w) \/ CommitText(w)
             \/ CommitDecision(w)
      PROVE  lease' = lease \/ (~At(w, "idle") /\ lease' = Renewed(w))
  BY <1>2 DEF Heartbeat, SetTerminalStatus, BlockOnNull, CommitText, CommitDecision,
              FencedStatus, SettleThrows, LeaseLost, At
<1>3. ASSUME NEW w \in Worker, EndTick(w)
      PROVE  lease' = lease \/ (~At(w, "idle") /\ lease' = [lease EXCEPT ![MyRun(w)] = Free])
  BY <1>3 DEF EndTick, At
<1>4. ASSUME NEW w \in Worker,
             \/ ListDead(w) \/ AbandonDead(w) \/ ReadOutputs(w) \/ Rebuild(w)
             \/ BeginPhase(w) \/ NextAttempt(w) \/ Reserve(w) \/ Announce(w) \/ ModelReplies(w)
             \/ AbandonOwn(w) \/ WriteArtifact(w) \/ WriteFails(w) \/ Crash(w)
      PROVE  lease' = lease
  BY <1>4 DEF ListDead, AbandonDead, ReadOutputs, Rebuild, BeginPhase, NextAttempt, Reserve,
              ReserveUnless, Announce, ModelReplies, AbandonOwn, WriteArtifact, WriteFails, Crash
<1>5. ASSUME NEW r \in Run, DeadLeaseExpires(r) \/ LeaseLapses(r)
      PROVE  lease' = [lease EXCEPT ![r].expired = TRUE]
  BY <1>5 DEF DeadLeaseExpires, LeaseLapses, Expire
<1>6. ASSUME NEW r \in Run, CreateRun(r) \/ AnswerDecision(r) PROVE lease' = lease
  BY <1>6 DEF CreateRun, AnswerDecision
<1>7. NextDay => lease' = lease
  BY DEF NextDay
<1> QED
  BY <1>1, <1>2, <1>3, <1>4, <1>5, <1>6, <1>7 DEF Next, TickStep

(* A run is shown as complete only by the holder of its lease, at the end of   *)
(* its phases.                                                               *)
LEMMA StatusMoves ==
  ASSUME Next
  PROVE  \/ status' = status
         \/ \E r \in Run : status' = [status EXCEPT ![r] = "queued"]
         \/ \E w \in Worker, v \in {"running"} \cup Resting :
               /\ ~At(w, "idle")
               /\ status' = [status EXCEPT ![MyRun(w)] = v]
               /\ v = "complete" => At(w, "complete") /\ Holds(w)
<1> USE DEF db, bounds
<1>1. ASSUME NEW w \in Worker,
             Announce(w) \/ SetTerminalStatus(w) \/ BlockOnNull(w) \/ CommitDecision(w)
      PROVE  \/ status' = status
             \/ \E v \in {"running"} \cup Resting :
                   /\ ~At(w, "idle")
                   /\ status' = [status EXCEPT ![MyRun(w)] = v]
                   /\ v = "complete" => At(w, "complete") /\ Holds(w)
  <2>1. CASE Announce(w)
    <3> DEFINE v == "running"
    <3>1. v \in {"running"} \cup Resting /\ v # "complete" /\ ~At(w, "idle")
      BY <2>1 DEF Announce, At
    <3>2. status' = [status EXCEPT ![MyRun(w)] = v]
      BY <2>1 DEF Announce
    <3> HIDE DEF v
    <3> QED
      BY <3>1, <3>2
  <2>2. CASE SetTerminalStatus(w)
    <3>1. CASE LeaseLost(w)
      BY <3>1 DEF LeaseLost
    <3>2. CASE FencedStatus(w, tick[w].at)
      <4> DEFINE v == tick[w].at
      <4>1. v \in Resting /\ v # "idle"
        BY <2>2 DEF SetTerminalStatus, Resting
      <4>2. status' = [status EXCEPT ![MyRun(w)] = v] /\ Holds(w)
        BY <3>2 DEF FencedStatus
      <4> QED
        BY <4>1, <4>2 DEF At
    <3> QED
      BY <2>2, <3>1, <3>2 DEF SetTerminalStatus
  <2>3. CASE BlockOnNull(w) \/ CommitDecision(w)
    BY <2>3 DEF BlockOnNull, CommitDecision, FencedStatus, SettleThrows, LeaseLost, At, Resting
  <2> QED
    BY <1>1, <2>1, <2>2, <2>3
<1>2. ASSUME NEW w \in Worker,
             \/ Claim(w) \/ ListDead(w) \/ AbandonDead(w) \/ ReadOutputs(w) \/ Rebuild(w)
             \/ BeginPhase(w) \/ NextAttempt(w) \/ Reserve(w) \/ ModelReplies(w)
             \/ AbandonOwn(w) \/ CommitText(w) \/ WriteArtifact(w) \/ EndTick(w)
             \/ Heartbeat(w) \/ WriteFails(w) \/ Crash(w)
      PROVE  status' = status
  BY <1>2 DEF Claim, ListDead, AbandonDead, ReadOutputs, Rebuild, BeginPhase, NextAttempt,
              Reserve, ReserveUnless, ModelReplies, AbandonOwn, CommitText, WriteArtifact,
              EndTick, Heartbeat, WriteFails, Crash, SettleThrows, LeaseLost
<1>3. ASSUME NEW r \in Run, CreateRun(r) \/ AnswerDecision(r)
      PROVE  status' = [status EXCEPT ![r] = "queued"]
  BY <1>3 DEF CreateRun, AnswerDecision
<1>4. ASSUME NEW r \in Run, DeadLeaseExpires(r) \/ LeaseLapses(r) PROVE status' = status
  BY <1>4 DEF DeadLeaseExpires, LeaseLapses, Expire
<1>5. NextDay => status' = status
  BY DEF NextDay
<1> QED
  BY <1>1, <1>2, <1>3, <1>4, <1>5 DEF Next, TickStep

LEMMA TickMoves ==
  ASSUME IInv, Next
  PROVE  \/ tick' = tick
         \/ \E w \in Worker, t \in Ticks :
               /\ Claim(w) \/ TickStep(w) \/ Heartbeat(w) \/ WriteFails(w) \/ Crash(w)
               /\ tick' = [tick EXCEPT ![w] = t]
<1>1. ASSUME NEW w \in Worker,
             Claim(w) \/ TickStep(w) \/ Heartbeat(w) \/ WriteFails(w) \/ Crash(w)
      PROVE  \E t \in Ticks : tick' = [tick EXCEPT ![w] = t]
  BY <1>1, TickTyped
<1>2. ASSUME NEW r \in Run,
             CreateRun(r) \/ AnswerDecision(r) \/ DeadLeaseExpires(r) \/ LeaseLapses(r)
      PROVE  tick' = tick
  BY <1>2 DEF CreateRun, AnswerDecision, DeadLeaseExpires, LeaseLapses, Expire
<1>3. NextDay => tick' = tick
  BY DEF NextDay
<1> QED
  BY <1>1, <1>2, <1>3 DEF Next

(* The counters stay within their bounds.                                     *)
LEMMA BoundsKept ==
  ASSUME IInv, Next
  PROVE  day' \in 0..MaxDay /\ lapses' \in 0..MaxLapses /\ crashes' \in 0..MaxCrashes
<1> USE DEF db, bounds
<1>1. /\ day \in 0..MaxDay /\ lapses \in 0..MaxLapses /\ crashes \in 0..MaxCrashes
      /\ MaxDay \in Nat /\ MaxLapses \in Nat /\ MaxCrashes \in Nat
  BY WorkerAssumption DEF IInv, TypeOK
<1>2. \/ UNCHANGED bounds
      \/ day < MaxDay /\ day' = day + 1 /\ UNCHANGED <<lapses, crashes>>
      \/ lapses < MaxLapses /\ lapses' = lapses + 1 /\ UNCHANGED <<day, crashes>>
      \/ crashes < MaxCrashes /\ crashes' = crashes + 1 /\ UNCHANGED <<day, lapses>>
  <2>1. ASSUME NEW w \in Worker, Crash(w)
        PROVE  crashes < MaxCrashes /\ crashes' = crashes + 1 /\ UNCHANGED <<day, lapses>>
    BY <2>1 DEF Crash
  <2>2. ASSUME NEW w \in Worker,
               \/ Claim(w) \/ ListDead(w) \/ AbandonDead(w) \/ ReadOutputs(w) \/ Rebuild(w)
               \/ BeginPhase(w) \/ NextAttempt(w) \/ Reserve(w) \/ Announce(w) \/ ModelReplies(w)
               \/ SetTerminalStatus(w) \/ BlockOnNull(w) \/ AbandonOwn(w) \/ CommitText(w)
               \/ CommitDecision(w) \/ WriteArtifact(w) \/ EndTick(w) \/ Heartbeat(w)
               \/ WriteFails(w)
        PROVE  UNCHANGED bounds
    BY <2>2 DEF Claim, ListDead, AbandonDead, ReadOutputs, Rebuild, BeginPhase, NextAttempt,
                Reserve, ReserveUnless, Announce, ModelReplies, SetTerminalStatus, BlockOnNull,
                AbandonOwn, CommitText, CommitDecision, WriteArtifact, EndTick, Heartbeat,
                WriteFails, SettleThrows, LeaseLost
  <2>3. ASSUME NEW r \in Run, LeaseLapses(r)
        PROVE  lapses < MaxLapses /\ lapses' = lapses + 1 /\ UNCHANGED <<day, crashes>>
    BY <2>3 DEF LeaseLapses, Expire
  <2>4. ASSUME NEW r \in Run, CreateRun(r) \/ AnswerDecision(r) \/ DeadLeaseExpires(r)
        PROVE  UNCHANGED bounds
    BY <2>4 DEF CreateRun, AnswerDecision, DeadLeaseExpires, Expire
  <2>5. NextDay => day < MaxDay /\ day' = day + 1 /\ UNCHANGED <<lapses, crashes>>
    BY DEF NextDay
  <2> QED
    BY <2>1, <2>2, <2>3, <2>4, <2>5 DEF Next, TickStep
<1> QED
  BY <1>1, <1>2

-------------------------------------------------------------------------------
(* Types, and finitely many rows, are kept.                                   *)
LEMMA Busy ==
  ASSUME IInv, NEW w \in Worker, ~At(w, "idle")
  PROVE  MyRun(w) \in Run
BY DEF IInv, Follows

LEMMA StatusTyped ==
  ASSUME IInv, Next
  PROVE  status' \in [Run -> {"none", "queued", "running"} \cup Resting]
<1>1. status \in [Run -> {"none", "queued", "running"} \cup Resting]
  BY DEF IInv, TypeOK
<1>2. CASE status' = status
  BY <1>1, <1>2
<1>3. ASSUME NEW r \in Run, status' = [status EXCEPT ![r] = "queued"]
      PROVE  status' \in [Run -> {"none", "queued", "running"} \cup Resting]
  BY <1>1, <1>3
<1>4. ASSUME NEW w \in Worker, NEW v \in {"running"} \cup Resting, ~At(w, "idle"),
             status' = [status EXCEPT ![MyRun(w)] = v]
      PROVE  status' \in [Run -> {"none", "queued", "running"} \cup Resting]
  BY <1>1, <1>4, Busy
<1> QED
  BY <1>2, <1>3, <1>4, StatusMoves

LEMMA PhasesTyped ==
  ASSUME IInv, Next
  PROVE  phases' \subseteq Run \X Phase \X Nat
<1>1. phases \subseteq Run \X Phase \X Nat
  BY DEF IInv, TypeOK
<1>2. ASSUME NEW w \in Worker, Recording(w) PROVE phases' \subseteq Run \X Phase \X Nat
  <2>1. tick[w].at \in InPhase
    BY <1>2 DEF Recording, At, InPhase
  <2>2. MyRun(w) \in Run /\ MyPhase(w) \in Phase
    BY <2>1, PhaseKnown
  <2>3. tick[w].attempt \in Nat
    BY TickTypes DEF IInv
  <2> QED
    BY <1>1, <1>2, <2>2, <2>3 DEF Recording
<1> QED
  BY <1>1, <1>2, PhasesMoves

Question == [run : Run, phase : Phase, attempt : Nat, answered : BOOLEAN, id : Nat]

LEMMA DecisionsTyped ==
  ASSUME IInv, Next
  PROVE  decisions' \subseteq Question /\ IsFiniteSet(decisions')
<1>1. decisions \subseteq Question /\ IsFiniteSet(decisions)
  BY DEF IInv, TypeOK, Question
<1>2. ASSUME NEW w \in Worker, Asking(w)
      PROVE  decisions' \subseteq Question /\ IsFiniteSet(decisions')
  <2> DEFINE last == Cardinality(decisions)
             new == [run |-> MyRun(w), phase |-> MyPhase(w), attempt |-> tick[w].attempt,
                     answered |-> FALSE, id |-> last + 1]
  <2>1. tick[w].at \in InPhase
    BY <1>2 DEF Asking, At, InPhase
  <2>2. MyRun(w) \in Run /\ MyPhase(w) \in Phase
    BY <2>1, PhaseKnown
  <2>3. tick[w].attempt \in Nat
    BY TickTypes DEF IInv
  <2>4. last \in Nat
    BY <1>1, FS_CardinalityType
  <2>5. new \in Question
    <3> HIDE DEF last
    <3> QED
      BY <2>2, <2>3, <2>4 DEF Question
  <2>6. decisions' = decisions \cup {new}
    BY <1>2 DEF Asking
  <2> HIDE DEF new
  <2>7. IsFiniteSet(decisions \cup {new})
    BY <1>1, FS_AddElement
  <2> QED
    BY <1>1, <2>5, <2>6, <2>7
<1>3. ASSUME NEW r \in Run, Answering(r)
      PROVE  decisions' \subseteq Question /\ IsFiniteSet(decisions')
  <2>1. PICK d \in decisions : decisions' = (decisions \ {d}) \cup {[d EXCEPT !.answered = TRUE]}
    BY <1>3 DEF Answering, Pending
  <2> DEFINE new == [d EXCEPT !.answered = TRUE]
  <2>2. new \in Question
    BY <1>1 DEF Question
  <2>3. decisions' = (decisions \ {d}) \cup {new}
    BY <2>1
  <2> HIDE DEF new
  <2>4. IsFiniteSet((decisions \ {d}) \cup {new})
    BY <1>1, FS_RemoveElement, FS_AddElement
  <2> QED
    BY <1>1, <2>2, <2>3, <2>4
<1> QED
  BY <1>1, <1>2, <1>3, DecisionMoves

Lease == [holder : Worker \cup {NoWorker}, expired : BOOLEAN]

LEMMA LeaseTyped ==
  ASSUME IInv, Next
  PROVE  lease' \in [Run -> Lease]
<1>1. lease \in [Run -> Lease]
  BY DEF IInv, TypeOK, Lease
<1>2. ASSUME NEW w \in Worker, NEW r \in Run,
             lease' = [lease EXCEPT ![r] = [holder |-> w, expired |-> FALSE]]
      PROVE  lease' \in [Run -> Lease]
  BY <1>1, <1>2 DEF Lease
<1>3. ASSUME NEW r \in Run, lease' = [lease EXCEPT ![r].expired = TRUE]
      PROVE  lease' \in [Run -> Lease]
  BY <1>1, <1>3 DEF Lease
<1>4. ASSUME NEW w \in Worker, ~At(w, "idle"), lease' = Renewed(w)
      PROVE  lease' \in [Run -> Lease]
  BY <1>1, <1>4 DEF Lease, Renewed
<1>5. ASSUME NEW w \in Worker, ~At(w, "idle"), lease' = [lease EXCEPT ![MyRun(w)] = Free]
      PROVE  lease' \in [Run -> Lease]
  BY <1>1, <1>5 DEF Lease, Free
<1> QED
  BY <1>1, <1>2, <1>3, <1>4, <1>5, LeaseMoves

LEMMA ArtifactTyped ==
  ASSUME IInv, Next
  PROVE  artifact' \in [Run -> [Phase -> Nat]]
<1>1. artifact \in [Run -> [Phase -> Nat]]
  BY DEF IInv, TypeOK
<1>2. ASSUME NEW w \in Worker, NEW ph \in Phase, NEW n \in Nat, MyRun(w) \in Run,
             artifact' = [artifact EXCEPT ![MyRun(w)][ph] = n]
      PROVE  artifact' \in [Run -> [Phase -> Nat]]
  BY <1>1, <1>2
<1>3. ASSUME NEW w \in Worker, WriteArtifact(w)
      PROVE  artifact' \in [Run -> [Phase -> Nat]]
  <2>1. tick[w].at \in InPhase
    BY <1>3 DEF WriteArtifact, At, InPhase
  <2>2. MyRun(w) \in Run /\ MyPhase(w) \in Phase
    BY <2>1, PhaseKnown
  <2>3. tick[w].attempt \in Nat
    BY TickTypes DEF IInv
  <2>4. artifact' = [artifact EXCEPT ![MyRun(w)][MyPhase(w)] = tick[w].attempt]
    BY <1>3 DEF WriteArtifact
  <2> QED
    BY <1>2, <2>2, <2>3, <2>4
<1>4. ASSUME NEW w \in Worker, Rewriting(w)
      PROVE  artifact' \in [Run -> [Phase -> Nat]]
  <2>1. MyRun(w) \in Run /\ tick[w].outputs \subseteq Recorded(MyRun(w))
    BY <1>4 DEF Rewriting, IInv, Follows, At
  <2>2. PICK ph \in tick[w].outputs :
          artifact' = [artifact EXCEPT ![MyRun(w)][ph] = RecordedAttempt(MyRun(w), ph)]
    BY <1>4 DEF Rewriting
  <2>3. ph \in Phase /\ RecordedAttempt(MyRun(w), ph) \in Nat
    BY <2>1, RecordedFound
  <2> QED
    BY <1>2, <2>1, <2>2, <2>3
<1> QED
  BY <1>1, <1>3, <1>4, ArtifactMoves

LEMMA TicksTyped ==
  ASSUME IInv, Next
  PROVE  tick' \in [Worker -> Ticks]
<1>1. tick \in [Worker -> Ticks]
  BY DEF IInv, TypeOK
<1> QED
  BY <1>1, TickMoves

LEMMA Typed ==
  ASSUME IInv, Next
  PROVE  TypeOK' /\ IsFiniteSet(ledger)' /\ IsFiniteSet(decisions)'
<1>1. /\ status' \in [Run -> {"none", "queued", "running"} \cup Resting]
      /\ phases' \subseteq Run \X Phase \X Nat
      /\ artifact' \in [Run -> [Phase -> Nat]]
      /\ tick' \in [Worker -> Ticks]
  BY StatusTyped, PhasesTyped, ArtifactTyped, TicksTyped
<1>2. decisions' \subseteq Question /\ IsFiniteSet(decisions')
  BY DecisionsTyped
<1>3. ledger' \subseteq Row /\ IsFiniteSet(ledger')
  BY LedgerTyped
<1>4. lease' \in [Run -> Lease]
  BY LeaseTyped
<1>5. day' \in 0..MaxDay /\ lapses' \in 0..MaxLapses /\ crashes' \in 0..MaxCrashes
  BY BoundsKept
<1> QED
  BY <1>1, <1>2, <1>3, <1>4, <1>5 DEF TypeOK, Question, Row, Lease

-------------------------------------------------------------------------------
(* The holder of the lease records its next phase: nobody recorded it before.  *)
LEMMA RecordingHolds ==
  ASSUME IInv, NEW w \in Worker, Recording(w)
  PROVE  /\ MyRun(w) \in Run /\ Recorded(MyRun(w)) = tick[w].outputs
         /\ MyPhase(w) \notin Recorded(MyRun(w)) /\ Pending(MyRun(w)) = {}
         /\ \A r : Recorded(r)' = IF r = MyRun(w) THEN Recorded(r) \cup {MyPhase(w)}
                                                 ELSE Recorded(r)
<1>1. tick[w].at = "commitText" /\ Holds(w)
  BY DEF Recording, At
<1>2. tick[w].at \in InPhase /\ tick[w].at # "artifact"
  BY <1>1 DEF InPhase
<1>3. MyRun(w) \in Run /\ MyPhase(w) \in Phase \ tick[w].outputs
  BY <1>2, PhaseKnown
<1>4. Recorded(MyRun(w)) = tick[w].outputs /\ Pending(MyRun(w)) = {}
  BY <1>1, <1>2, <1>3 DEF IInv, Knows
<1>5. \A r : Recorded(r)' = IF r = MyRun(w) THEN Recorded(r) \cup {MyPhase(w)}
                                            ELSE Recorded(r)
  <2>1. phases' = phases \cup {<<MyRun(w), MyPhase(w), tick[w].attempt>>}
    BY DEF Recording
  <2>2. \A r, q : q \in Recorded(r) <=> \E x \in phases : x[1] = r /\ x[2] = q
    BY DEF Recorded
  <2>3. \A r, q : q \in Recorded(r)' <=> \E x \in phases' : x[1] = r /\ x[2] = q
    BY DEF Recorded
  <2>4. ASSUME NEW r, NEW q
        PROVE  q \in Recorded(r)' <=> q \in Recorded(r) \/ (r = MyRun(w) /\ q = MyPhase(w))
    <3> DEFINE new == <<MyRun(w), MyPhase(w), tick[w].attempt>>
    <3>1. new[1] = MyRun(w) /\ new[2] = MyPhase(w) /\ phases' = phases \cup {new}
      BY <2>1
    <3> HIDE DEF new
    <3>2. (\E x \in phases' : x[1] = r /\ x[2] = q)
             <=> (\E x \in phases : x[1] = r /\ x[2] = q) \/ (r = MyRun(w) /\ q = MyPhase(w))
      BY <3>1
    <3> QED
      BY <2>2, <2>3, <3>2
  <2>5. ASSUME NEW r
        PROVE  Recorded(r)' = IF r = MyRun(w) THEN Recorded(r) \cup {MyPhase(w)}
                                              ELSE Recorded(r)
    <3> DEFINE old == Recorded(r)
               new == Recorded(r)'
    <3>1. \A q : q \in new <=> q \in old \/ (r = MyRun(w) /\ q = MyPhase(w))
      BY <2>4
    <3> HIDE DEF old, new
    <3>2. CASE r = MyRun(w)
      <4>1. new = old \cup {MyPhase(w)}
        BY <3>1, <3>2
      <4> QED
        BY <3>2, <4>1 DEF old, new
    <3>3. CASE r # MyRun(w)
      <4>1. new = old
        BY <3>1, <3>3
      <4> QED
        BY <3>3, <4>1 DEF old, new
    <3> QED
      BY <3>2, <3>3
  <2> QED
    BY <2>5
<1> QED
  BY <1>3, <1>4, <1>5

LEMMA RecordsKept ==
  ASSUME IInv, Next
  PROVE  Records'
<1>1. CASE phases' = phases
  BY <1>1 DEF IInv, Records, Recorded, InOrder
<1>2. ASSUME NEW w \in Worker, Recording(w) PROVE Records'
  <2>1. tick[w].at \in InPhase
    BY <1>2 DEF Recording, At, InPhase
  <2>2. InOrder(tick[w].outputs \cup {MyPhase(w)})
    BY <2>1, PhaseKnown
  <2>3. \A r \in Run : InOrder(Recorded(r)')
    BY <1>2, <2>2, RecordingHolds DEF IInv, Records
  <2>4. phases' = phases \cup {<<MyRun(w), MyPhase(w), tick[w].attempt>>}
    BY <1>2 DEF Recording
  <2>5. \A x \in phases : ~(x[1] = MyRun(w) /\ x[2] = MyPhase(w))
    BY <1>2, RecordingHolds DEF Recorded
  <2>6. \A x, y \in phases' : x[1] = y[1] /\ x[2] = y[2] => x = y
    BY <2>4, <2>5 DEF IInv, Records
  <2> QED
    BY <2>3, <2>6 DEF Records, InOrder
<1> QED
  BY <1>1, <1>2, PhasesMoves

(* A recorded phase stays recorded, and its artifact, once it holds the recorded *)
(* output, keeps it: a late worker writes what is recorded, or what was.         *)
LEMMA WrittenStays ==
  ASSUME IInv, Next
  PROVE  /\ phases \subseteq phases'
         /\ \A r \in Run : Recorded(r) \subseteq Recorded(r)'
         /\ \A r \in Run, ph \in Phase : Written(r, ph) => Written(r, ph)'
<1>1. phases \subseteq phases'
  BY PhasesMoves DEF Recording
<1>2. \A r \in Run : Recorded(r) \subseteq Recorded(r)'
  BY <1>1 DEF Recorded
<1>3. artifact \in [Run -> [Phase -> Nat]]
  BY DEF IInv, TypeOK
<1>4. CASE artifact' = artifact
  BY <1>1, <1>2, <1>4 DEF Written
<1>5. ASSUME NEW w \in Worker, NEW q \in Phase, NEW n, MyRun(w) \in Run,
             <<MyRun(w), q, n>> \in phases,
             artifact' = [artifact EXCEPT ![MyRun(w)][q] = n]
      PROVE  \A r \in Run, ph \in Phase : Written(r, ph) => Written(r, ph)'
  <2> SUFFICES ASSUME NEW r \in Run, NEW ph \in Phase, Written(r, ph) PROVE Written(r, ph)'
    OBVIOUS
  <2>1. CASE r = MyRun(w) /\ ph = q
    <3>1. artifact'[r][ph] = n
      BY <1>3, <1>5, <2>1
    <3> QED
      BY <1>1, <1>5, <2>1, <3>1 DEF Written
  <2>2. CASE ~(r = MyRun(w) /\ ph = q)
    <3>1. artifact'[r][ph] = artifact[r][ph]
      BY <1>3, <1>5, <2>2
    <3> QED
      BY <1>1, <3>1 DEF Written
  <2> QED
    BY <2>1, <2>2
<1>6. ASSUME NEW w \in Worker, WriteArtifact(w)
      PROVE  \A r \in Run, ph \in Phase : Written(r, ph) => Written(r, ph)'
  <2>1. tick[w].at \in InPhase /\ At(w, "artifact")
    BY <1>6 DEF WriteArtifact, At, InPhase
  <2>2. MyRun(w) \in Run /\ MyPhase(w) \in Phase
    BY <2>1, PhaseKnown
  <2>3. <<MyRun(w), MyPhase(w), tick[w].attempt>> \in phases
    BY <2>1 DEF IInv, Follows
  <2>4. artifact' = [artifact EXCEPT ![MyRun(w)][MyPhase(w)] = tick[w].attempt]
    BY <1>6 DEF WriteArtifact
  <2> QED
    BY <1>5, <2>2, <2>3, <2>4
<1>7. ASSUME NEW w \in Worker, Rewriting(w)
      PROVE  \A r \in Run, ph \in Phase : Written(r, ph) => Written(r, ph)'
  <2>1. MyRun(w) \in Run /\ tick[w].outputs \subseteq Recorded(MyRun(w))
    BY <1>7 DEF Rewriting, IInv, Follows, At
  <2>2. PICK ph \in tick[w].outputs :
          artifact' = [artifact EXCEPT ![MyRun(w)][ph] = RecordedAttempt(MyRun(w), ph)]
    BY <1>7 DEF Rewriting
  <2>3. ph \in Phase /\ <<MyRun(w), ph, RecordedAttempt(MyRun(w), ph)>> \in phases
    BY <2>1, RecordedFound
  <2> QED
    BY <1>5, <2>1, <2>2, <2>3
<1> QED
  BY <1>1, <1>2, <1>4, <1>6, <1>7, ArtifactMoves

(* A run is shown as complete only when it is: whoever shows it has found or     *)
(* written every artifact, and none of them is lost afterwards.                *)
LEMMA DeliveredKept ==
  ASSUME IInv, Next
  PROVE  CompleteMeansDelivered'
<1> SUFFICES ASSUME NEW r \in Run, status'[r] = "complete", NEW ph \in Phase
             PROVE  Written(r, ph)'
  BY DEF CompleteMeansDelivered, Written
<1>1. status \in [Run -> {"none", "queued", "running"} \cup Resting]
  BY DEF IInv, TypeOK
<1>2. CASE status[r] = "complete"
  <2>1. Written(r, ph)
    BY <1>2 DEF IInv, CompleteMeansDelivered, Written
  <2> QED
    BY <2>1, WrittenStays
<1>3. ASSUME NEW w \in Worker, At(w, "complete"), MyRun(w) = r PROVE Written(r, ph)'
  <2>1. tick[w].outputs = Phase /\ \A q \in tick[w].outputs : Written(r, q)
    BY <1>3 DEF IInv, Follows, At, Delivering
  <2> QED
    BY <2>1, WrittenStays
<1>4. status[r] = "complete" \/ \E w \in Worker : At(w, "complete") /\ MyRun(w) = r
  <2>1. ASSUME NEW w \in Worker, NEW v \in {"running"} \cup Resting,
               status' = [status EXCEPT ![MyRun(w)] = v],
               v = "complete" => At(w, "complete") /\ Holds(w)
        PROVE  status[r] = "complete" \/ (At(w, "complete") /\ MyRun(w) = r)
    BY <1>1, <2>1
  <2>2. ASSUME NEW s \in Run, status' = [status EXCEPT ![s] = "queued"]
        PROVE  status[r] = "complete"
    BY <1>1, <2>2
  <2> QED
    BY <2>1, <2>2, StatusMoves
<1> QED
  BY <1>2, <1>3, <1>4

-------------------------------------------------------------------------------
(* A question becomes pending only when the holder of the lease asks it, about  *)
(* its next phase, in a run that has none.                                    *)
LEMMA PendingMoves ==
  ASSUME IInv, Next
  PROVE  \/ \A r : Pending(r)' \subseteq Pending(r)
         \/ \E w \in Worker, r \in Run :
               /\ Asking(w) /\ r = MyRun(w) /\ Recorded(r) = tick[w].outputs
               /\ \A s : s # r => Pending(s)' \subseteq Pending(s)
               /\ \A d, e \in Pending(r)' : d = e
               /\ \A d \in Pending(r)' : d.phase = MyPhase(w)
<1>1. \A r, d : d \in Pending(r) <=> d \in decisions /\ d.run = r /\ ~d.answered
  BY DEF Pending
<1>2. \A r, d : d \in Pending(r)' <=> d \in decisions' /\ d.run = r /\ ~d.answered
  BY DEF Pending
<1>3. CASE decisions' = decisions
  BY <1>1, <1>2, <1>3
<1>4. ASSUME NEW r \in Run, Answering(r) PROVE \A s : Pending(s)' \subseteq Pending(s)
  <2>1. PICK d \in decisions : decisions' = (decisions \ {d}) \cup {[d EXCEPT !.answered = TRUE]}
    BY <1>4 DEF Answering, Pending
  <2> DEFINE new == [d EXCEPT !.answered = TRUE]
  <2>2. new.answered
    <3>1. d \in Question
      BY DEF IInv, TypeOK, Question
    <3> QED
      BY <3>1 DEF Question
  <2>3. decisions' = (decisions \ {d}) \cup {new}
    BY <2>1
  <2> HIDE DEF new
  <2> QED
    BY <1>1, <1>2, <2>2, <2>3
<1>5. ASSUME NEW w \in Worker, Asking(w)
      PROVE  \E r \in Run :
               /\ r = MyRun(w) /\ Recorded(r) = tick[w].outputs
               /\ \A s : s # r => Pending(s)' \subseteq Pending(s)
               /\ \A d, e \in Pending(r)' : d = e
               /\ \A d \in Pending(r)' : d.phase = MyPhase(w)
  <2> DEFINE new == [run |-> MyRun(w), phase |-> MyPhase(w), attempt |-> tick[w].attempt,
                     answered |-> FALSE, id |-> Cardinality(decisions) + 1]
  <2>1. tick[w].at = "commitDecision" /\ Holds(w)
    BY <1>5 DEF Asking, At
  <2>2. tick[w].at \in InPhase /\ tick[w].at # "artifact"
    BY <2>1 DEF InPhase
  <2>3. PICK r \in Run : r = MyRun(w)
    BY <2>2, PhaseKnown
  <2>4. Recorded(r) = tick[w].outputs /\ Pending(r) = {}
    BY <2>1, <2>2, <2>3 DEF IInv, Knows
  <2>5. decisions' = decisions \cup {new} /\ new.run = r /\ new.phase = MyPhase(w)
    BY <1>5, <2>3 DEF Asking
  <2> HIDE DEF new
  <2>6. \A s : s # r => Pending(s)' \subseteq Pending(s)
    BY <1>1, <1>2, <2>5
  <2>7. \A d \in Pending(r)' : d = new
    BY <1>1, <1>2, <2>4, <2>5
  <2> QED
    BY <2>3, <2>4, <2>5, <2>6, <2>7
<1> QED
  BY <1>3, <1>4, <1>5, DecisionMoves

LEMMA AskedKept ==
  ASSUME IInv, Next
  PROVE  Asked'
<1>1. /\ \A r \in Run : \A d \in Pending(r) :
            d.phase \notin Recorded(r) /\ \A q \in Phase : q < d.phase => q \in Recorded(r)
      /\ \A r \in Run : \A d, e \in Pending(r) : d = e
  BY DEF IInv, Asked
<1>2. CASE phases' = phases /\ \A r : Pending(r)' \subseteq Pending(r)
  <2>1. \A r : Recorded(r)' = Recorded(r)
    BY <1>2 DEF Recorded
  <2> QED
    BY <1>1, <1>2, <2>1 DEF Asked
<1>3. ASSUME NEW w \in Worker, Recording(w) PROVE Asked'
  <2>1. \A r : Pending(r)' = Pending(r)
    BY <1>3 DEF Recording, Pending
  <2>2. /\ Pending(MyRun(w)) = {}
        /\ \A r : r # MyRun(w) => Recorded(r)' = Recorded(r)
    BY <1>3, RecordingHolds
  <2> QED
    BY <1>1, <2>1, <2>2 DEF Asked
<1>4. ASSUME NEW w \in Worker, NEW r \in Run, Asking(w), Recorded(r) = tick[w].outputs,
             \A s : s # r => Pending(s)' \subseteq Pending(s),
             \A d, e \in Pending(r)' : d = e,
             \A d \in Pending(r)' : d.phase = MyPhase(w)
      PROVE  Asked'
  <2>1. \A s : Recorded(s)' = Recorded(s)
    BY <1>4 DEF Asking, Recorded
  <2>2. tick[w].at \in InPhase
    BY <1>4 DEF Asking, At, InPhase
  <2>3. /\ MyPhase(w) \notin tick[w].outputs
        /\ \A q \in Phase : q < MyPhase(w) => q \in tick[w].outputs
    BY <2>2, PhaseKnown
  <2> QED
    BY <1>1, <1>4, <2>1, <2>3 DEF Asked
<1> QED
  <2>1. phases' # phases => \E w \in Worker : Recording(w)
    BY PhasesMoves
  <2> QED
    BY <1>2, <1>3, <1>4, <2>1, PendingMoves

(* What the holder of a lease knows of its run is changed by nobody else.      *)
LEMMA HeldRunKept ==
  ASSUME IInv, Next, NEW v \in Worker, tick'[v] = tick[v], MyRun(v) \in Run, Holds(v)'
  PROVE  /\ Holds(v) /\ Recorded(MyRun(v))' = Recorded(MyRun(v))
         /\ Pending(MyRun(v))' \subseteq Pending(MyRun(v))
<1>1. lease \in [Run -> Lease] /\ tick \in [Worker -> Ticks] /\ v # NoWorker
  BY WorkerAssumption DEF IInv, TypeOK, Lease
<1>2. MyRun(v)' = MyRun(v) /\ lease'[MyRun(v)].holder = v
  BY DEF MyRun, Holds
<1> DEFINE r == MyRun(v)
<1>3. Holds(v)
  <2>1. CASE lease' = lease
    BY <1>2, <2>1 DEF Holds
  <2>2. ASSUME NEW w \in Worker, NEW s \in Run, At(w, "idle"),
               lease' = [lease EXCEPT ![s] = [holder |-> w, expired |-> FALSE]],
               tick' = [tick EXCEPT ![w] = [NoTick EXCEPT !.at = "list", !.run = s]]
        PROVE  Holds(v)
    <3>1. w # v
      <4> SUFFICES ASSUME w = v PROVE FALSE
        OBVIOUS
      <4>1. tick'[v].at = "list"
        BY <1>1, <2>2 DEF NoTick
      <4> QED
        BY <2>2, <4>1 DEF At
    <3> QED
      BY <1>1, <1>2, <2>2, <3>1 DEF Holds
  <2>3. ASSUME NEW s \in Run, lease' = [lease EXCEPT ![s].expired = TRUE] PROVE Holds(v)
    BY <1>1, <1>2, <2>3 DEF Holds, Lease
  <2>4. ASSUME NEW w \in Worker, lease' = Renewed(w) PROVE Holds(v)
    BY <1>1, <1>2, <2>4 DEF Holds, Lease, Renewed
  <2>5. ASSUME NEW w \in Worker, lease' = [lease EXCEPT ![MyRun(w)] = Free] PROVE Holds(v)
    BY <1>1, <1>2, <2>5 DEF Holds, Lease, Free
  <2> QED
    BY <2>1, <2>2, <2>3, <2>4, <2>5, LeaseMoves
<1>4. ASSUME NEW w \in Worker, Holds(w), MyRun(w) = r PROVE w = v
  BY <1>3, <1>4 DEF Holds
<1>5. Recorded(r)' = Recorded(r)
  <2>1. CASE phases' = phases
    BY <1>2, <2>1 DEF Recorded
  <2>2. ASSUME NEW w \in Worker, Recording(w) PROVE Recorded(r)' = Recorded(r)
    <3>1. w # v
      <4> SUFFICES ASSUME w = v PROVE FALSE
        OBVIOUS
      <4>1. tick[v].at = "commitText" /\ tick'[v].at = "artifact"
        BY <1>1, <2>2 DEF Recording, At, Ticks
      <4> QED
        BY <4>1
    <3>2. MyRun(w) # r
      BY <1>4, <2>2, <3>1 DEF Recording
    <3> QED
      BY <1>2, <2>2, <3>2, RecordingHolds
  <2> QED
    BY <2>1, <2>2, PhasesMoves
<1>6. Pending(r)' \subseteq Pending(r)
  <2>1. ASSUME NEW w \in Worker, Asking(w) PROVE MyRun(w) # r
    <3>1. w # v
      <4> SUFFICES ASSUME w = v PROVE FALSE
        OBVIOUS
      <4>1. tick[v].at = "commitDecision" /\ tick'[v].at = "end"
        BY <1>1, <2>1 DEF Asking, At, Ticks
      <4> QED
        BY <4>1
    <3> QED
      BY <1>4, <2>1, <3>1 DEF Asking
  <2> QED
    BY <1>2, <2>1, PendingMoves
<1> QED
  BY <1>3, <1>5, <1>6

-------------------------------------------------------------------------------
(* What the ticks follow and know.  First the ticks of the workers that do not   *)
(* move.                                                                     *)
LEMMA UntouchedTick ==
  ASSUME IInv, Next, NEW v \in Worker, tick'[v] = tick[v]
  PROVE  Follows(v)' /\ Knows(v)'
<1>1. Follows(v) /\ Knows(v)
  BY DEF IInv
<1>2. /\ MyRun(v)' = MyRun(v) /\ MyPhase(v)' = MyPhase(v)
      /\ \A at : At(v, at)' <=> At(v, at)
  BY DEF MyRun, MyPhase, At
<1>3. tick[v].outputs \subseteq Phase
  BY TickTypes DEF IInv
<1>4. Follows(v)'
  <2>1. MyRun(v) \in Run => tick[v].outputs \subseteq Recorded(MyRun(v))'
    BY <1>1, <1>2, WrittenStays DEF Follows
  <2>2. tick[v].at \in Delivering => \A ph \in tick[v].outputs : Written(MyRun(v), ph)'
    <3>1. tick[v].at \in Delivering => MyRun(v) \in Run
      BY <1>1 DEF Follows, At, Delivering
    <3> QED
      BY <1>1, <1>2, <1>3, <3>1, WrittenStays DEF Follows
  <2>3. phases \subseteq phases'
    BY WrittenStays
  <2> QED
    BY <1>1, <1>2, <2>1, <2>2, <2>3 DEF Follows, InOrder
<1>5. Knows(v)'
  <2> SUFFICES ASSUME MyRun(v)' \in Run, Holds(v)'
               PROVE  /\ tick[v].at \in {"rebuild", "phase", "complete"} \cup (InPhase \ {"artifact"}) =>
                            tick[v].outputs = Recorded(MyRun(v))'
                      /\ At(v, "artifact") =>
                            Recorded(MyRun(v))' = tick[v].outputs \cup {MyPhase(v)}
                      /\ tick[v].at \in InPhase \ {"artifact"} => Pending(MyRun(v))' = {}
    BY <1>2 DEF Knows
  <2>1. /\ Holds(v) /\ Recorded(MyRun(v))' = Recorded(MyRun(v))
        /\ Pending(MyRun(v))' \subseteq Pending(MyRun(v))
    BY <1>2, HeldRunKept
  <2> QED
    BY <1>1, <1>2, <2>1 DEF Knows
<1> QED
  BY <1>4, <1>5

(* A tick that is over, ...                                                   *)
LEMMA IdleTick ==
  ASSUME IInv, Next, NEW w \in Worker, tick'[w] = NoTick
  PROVE  Follows(w)' /\ Knows(w)'
<1>1. tick'[w].at = "idle" /\ tick'[w].run \notin Run /\ tick'[w].outputs = {}
  BY WorkerAssumption DEF NoTick, NoRun
<1> QED
  BY <1>1 DEF Follows, Knows, MyRun, At, InOrder, InPhase, Delivering

(* ... that waits for the end, or has not read the phases yet, ...            *)
Quiet == {"list", "sweep", "blockNull", "abandonNull", "lost", "end", "threw", "failed",
          "paused-for-decision", "paused-for-blocker"}

LEMMA QuietTick ==
  ASSUME IInv, Next, NEW w \in Worker, ~At(w, "idle"),
         tick'[w].at \in Quiet, tick'[w].run = tick[w].run,
         tick'[w].outputs = tick[w].outputs
  PROVE  Follows(w)' /\ Knows(w)'
<1>1. /\ tick'[w].at \notin InPhase \cup Delivering \cup {"rebuild", "idle"}
      /\ tick'[w].at \notin {"rebuild", "phase", "complete"} \cup (InPhase \ {"artifact"})
      /\ tick'[w].at # "artifact"
  BY DEF Quiet, InPhase, Delivering
<1>2. MyRun(w) \in Run /\ MyRun(w)' = MyRun(w)
  BY Busy DEF MyRun
<1>3. InOrder(tick[w].outputs) /\ tick[w].outputs \subseteq Recorded(MyRun(w))
  BY <1>2 DEF IInv, Follows
<1>4. tick[w].outputs \subseteq Recorded(MyRun(w))'
  BY <1>2, <1>3, WrittenStays
<1>5. tick'[w].at # "complete"
  BY DEF Quiet
<1>6. Follows(w)'
  BY <1>1, <1>2, <1>3, <1>4, <1>5 DEF Follows, At, InOrder
<1>7. Knows(w)'
  BY <1>1 DEF Knows, At
<1> QED
  BY <1>6, <1>7

(* ... and one that goes on within its phase and records nothing.              *)
LEMMA PhaseTick ==
  ASSUME IInv, Next, NEW w \in Worker,
         tick[w].at \in InPhase \ {"artifact"}, tick'[w].at \in InPhase \ {"artifact"},
         tick[w].at \in Delivering \/ tick'[w].at \notin Delivering,
         tick'[w].run = tick[w].run, tick'[w].outputs = tick[w].outputs,
         UNCHANGED <<phases, decisions, lease, artifact>>
  PROVE  Follows(w)' /\ Knows(w)'
<1>1. /\ tick[w].at # "idle" /\ tick'[w].at # "idle" /\ tick'[w].at # "complete"
      /\ tick'[w].at # "artifact"
  BY DEF InPhase
<1>2. Follows(w) /\ Knows(w)
  BY DEF IInv
<1>3. MyRun(w) \in Run /\ MyRun(w)' = MyRun(w)
  BY <1>1, Busy DEF MyRun, At
<1>4. /\ \A r : Recorded(r)' = Recorded(r) /\ Pending(r)' = Pending(r)
      /\ \A r, ph : Written(r, ph)' <=> Written(r, ph)
  BY DEF Recorded, Pending, Written
<1>5. Holds(w)' <=> Holds(w)
  BY <1>3 DEF Holds
<1>6. Follows(w)'
  BY <1>1, <1>2, <1>3, <1>4 DEF Follows, At, InOrder
<1>7. Knows(w)'
  BY <1>1, <1>2, <1>3, <1>4, <1>5 DEF Knows, At
<1> QED
  BY <1>6, <1>7

(* A claimed run starts with nothing read.                                    *)
LEMMA ClaimTick ==
  ASSUME IInv, Next, NEW w \in Worker, Claim(w)
  PROVE  Follows(w)' /\ Knows(w)'
<1>1. tick \in [Worker -> Ticks]
  BY DEF IInv, TypeOK
<1>2. PICK r \in Run : tick' = [tick EXCEPT ![w] = [NoTick EXCEPT !.at = "list", !.run = r]]
  BY DEF Claim
<1>3. tick'[w].at = "list" /\ tick'[w].run = r /\ tick'[w].outputs = {}
  BY <1>1, <1>2 DEF NoTick
<1> QED
  BY <1>3 DEF Follows, Knows, MyRun, At, InOrder, InPhase, Delivering

(* The outputs that are read are those recorded.                              *)
LEMMA ReadTick ==
  ASSUME IInv, Next, NEW w \in Worker, ReadOutputs(w)
  PROVE  Follows(w)' /\ Knows(w)'
<1>1. tick \in [Worker -> Ticks] /\ tick[w] \in Ticks
  BY DEF IInv, TypeOK
<1>2. At(w, "sweep") /\ UNCHANGED <<phases, lease>>
  BY DEF ReadOutputs, db
<1>3. MyRun(w) \in Run
  BY <1>2, Busy DEF At
<1>4. /\ tick'[w].at = "rebuild" /\ tick'[w].run = MyRun(w)
      /\ tick'[w].outputs = Recorded(MyRun(w))
  BY <1>1 DEF ReadOutputs, Recorded, MyRun, Ticks
<1>5. \A r : Recorded(r)' = Recorded(r)
  BY <1>2 DEF Recorded
<1>6. InOrder(Recorded(MyRun(w)))
  BY <1>3 DEF IInv, Records
<1>7. MyRun(w)' = MyRun(w)
  BY <1>4 DEF MyRun
<1>8. Follows(w)'
  BY <1>3, <1>4, <1>5, <1>6, <1>7 DEF Follows, At, InOrder, InPhase, Delivering
<1>9. Knows(w)'
  BY <1>4, <1>5, <1>7 DEF Knows, At, InPhase
<1> QED
  BY <1>8, <1>9

(* A worker goes on to the phases when every artifact holds what is recorded.  *)
LEMMA RebuildTick ==
  ASSUME IInv, Next, NEW w \in Worker, Rebuild(w), tick' # tick
  PROVE  Follows(w)' /\ Knows(w)'
<1>1. At(w, "rebuild") /\ Goto(w, "phase") /\ UNCHANGED <<phases, decisions, lease, artifact>>
  BY DEF Rebuild, db
<1>2. /\ tick'[w].at = "phase" /\ tick'[w].run = tick[w].run
      /\ tick'[w].outputs = tick[w].outputs
  BY <1>1, GotoTypes DEF IInv, Steps
<1>3. MyRun(w) \in Run /\ MyRun(w)' = MyRun(w)
  BY <1>1, <1>2, Busy DEF At, MyRun
<1>4. Follows(w) /\ Knows(w)
  BY DEF IInv
<1>5. /\ \A r : Recorded(r)' = Recorded(r)
      /\ \A r, ph : Written(r, ph)' <=> Written(r, ph)
  BY <1>1 DEF Recorded, Written
<1>6. \A ph \in tick[w].outputs : Written(MyRun(w), ph)
  <2> SUFFICES ASSUME NEW ph \in tick[w].outputs PROVE Written(MyRun(w), ph)
    OBVIOUS
  <2> DEFINE n == RecordedAttempt(MyRun(w), ph)
  <2>1. artifact[MyRun(w)][ph] = n
    <3>1. {q \in tick[w].outputs : artifact[MyRun(w)][q] # RecordedAttempt(MyRun(w), q)} = {}
      <4>1. ASSUME UNCHANGED tick PROVE FALSE
        BY <4>1
      <4> QED
        BY <4>1 DEF Rebuild
    <3> QED
      BY <3>1
  <2>2. ph \in Recorded(MyRun(w))
    BY <1>3, <1>4 DEF Follows
  <2>3. <<MyRun(w), ph, n>> \in phases
    BY <1>3, <2>2, RecordedFound
  <2> HIDE DEF n
  <2> QED
    BY <2>1, <2>3 DEF Written
<1>7. Follows(w)'
  BY <1>2, <1>3, <1>4, <1>5, <1>6 DEF Follows, At, InOrder, InPhase
<1>8. Holds(w)' <=> Holds(w)
  BY <1>1, <1>3 DEF Holds
<1>9. Knows(w)'
  BY <1>1, <1>2, <1>3, <1>4, <1>5, <1>8 DEF Knows, At, InPhase
<1> QED
  BY <1>7, <1>9

(* A worker begins a phase when no question about it is pending, so none of its  *)
(* run is, and finishes when it has an output of every phase.                  *)
LEMMA BeginTick ==
  ASSUME IInv, Next, NEW w \in Worker, BeginPhase(w), tick'[w].at \in {"attempt", "complete"}
  PROVE  Follows(w)' /\ Knows(w)'
<1>1. At(w, "phase") /\ UNCHANGED <<phases, decisions, lease, artifact>>
  BY DEF BeginPhase, db
<1>2. "attempt" \in Steps /\ "complete" \in Steps /\ "paused-for-decision" \in Steps
  BY DEF Steps
<1>3. /\ tick'[w].run = tick[w].run /\ tick'[w].outputs = tick[w].outputs
      /\ \/ tick'[w].at = "complete" /\ tick[w].outputs = Phase
         \/ /\ tick'[w].at = "attempt" /\ tick[w].outputs # Phase
            /\ PendingIn(MyRun(w), MyPhase(w)) = {}
  <2>1. CASE tick[w].outputs = Phase /\ Goto(w, "complete")
    BY <1>2, <2>1, GotoTypes DEF IInv
  <2>2. CASE Goto(w, "paused-for-decision")
    BY <1>2, <2>2, GotoTypes DEF IInv
  <2>3. CASE tick[w].outputs # Phase /\ PendingIn(MyRun(w), MyPhase(w)) = {} /\ Goto(w, "attempt")
    BY <1>2, <2>3, GotoTypes DEF IInv
  <2> QED
    BY <2>1, <2>2, <2>3 DEF BeginPhase
<1>4. MyRun(w) \in Run /\ MyRun(w)' = MyRun(w)
  BY <1>1, <1>3, Busy DEF At, MyRun
<1>5. Follows(w) /\ Knows(w)
  BY DEF IInv
<1>6. /\ \A r : Recorded(r)' = Recorded(r) /\ Pending(r)' = Pending(r)
      /\ \A r, ph : Written(r, ph)' <=> Written(r, ph)
  BY <1>1 DEF Recorded, Pending, Written
<1>7. Holds(w)' <=> Holds(w)
  BY <1>1, <1>4 DEF Holds
<1>8. Follows(w)'
  BY <1>1, <1>3, <1>4, <1>5, <1>6 DEF Follows, At, InOrder, InPhase, Delivering
<1>9. ASSUME Holds(w), tick[w].outputs # Phase, PendingIn(MyRun(w), MyPhase(w)) = {}
      PROVE  Pending(MyRun(w)) = {}
  <2> SUFFICES ASSUME NEW d \in Pending(MyRun(w)) PROVE FALSE
    OBVIOUS
  <2>1. tick[w].outputs = Recorded(MyRun(w)) /\ InOrder(tick[w].outputs)
    BY <1>1, <1>4, <1>5, <1>9 DEF Knows, Follows, At
  <2>2. /\ d.phase \in Phase \ tick[w].outputs
        /\ \A q \in Phase : q < d.phase => q \in tick[w].outputs
    BY <1>4, <2>1 DEF IInv, TypeOK, Asked, Pending
  <2>3. d.phase = MyPhase(w)
    BY <1>9, <2>1, <2>2, NextPhase DEF MyPhase
  <2> QED
    BY <1>9, <2>3 DEF PendingIn
<1>10. Knows(w)'
  BY <1>1, <1>3, <1>4, <1>5, <1>6, <1>7, <1>9 DEF Knows, At, InPhase
<1> QED
  BY <1>8, <1>10

(* The commit records the phase the tick is in, ...                           *)
LEMMA RecordingTick ==
  ASSUME IInv, Next, NEW w \in Worker, Recording(w)
  PROVE  Follows(w)' /\ Knows(w)'
<1>1. tick \in [Worker -> Ticks] /\ tick[w] \in Ticks
  BY DEF IInv, TypeOK
<1>2. /\ tick'[w].at = "artifact" /\ tick'[w].run = tick[w].run
      /\ tick'[w].outputs = tick[w].outputs /\ tick'[w].attempt = tick[w].attempt
  BY <1>1 DEF Recording, Ticks
<1>3. tick[w].at = "commitText" /\ tick[w].at \in InPhase /\ tick[w].at \in Delivering
  BY DEF Recording, At, InPhase, Delivering
<1>4. MyRun(w)' = MyRun(w) /\ MyPhase(w)' = MyPhase(w)
  BY <1>2 DEF MyRun, MyPhase
<1>5. PICK r \in Run : r = MyRun(w)
  BY <1>3, PhaseKnown
<1>6. Recorded(r) = tick[w].outputs /\ Recorded(r)' = tick[w].outputs \cup {MyPhase(w)}
  BY <1>5, RecordingHolds
<1>7. Follows(w)
  BY DEF IInv
<1>8. \A ph \in tick[w].outputs : Written(r, ph)'
  BY <1>3, <1>5, <1>7, WrittenStays, TickTypes DEF Follows, IInv
<1>9. <<r, MyPhase(w), tick[w].attempt>> \in phases'
  BY <1>5 DEF Recording
<1>10. Follows(w)'
  BY <1>2, <1>3, <1>4, <1>5, <1>6, <1>7, <1>8, <1>9 DEF Follows, At, InOrder, InPhase
<1>11. Knows(w)'
  BY <1>2, <1>4, <1>5, <1>6 DEF Knows, At, InPhase
<1> QED
  BY <1>10, <1>11

(* ... and its artifact adds it to the outputs.                                *)
LEMMA WriteTick ==
  ASSUME IInv, Next, NEW w \in Worker, WriteArtifact(w)
  PROVE  Follows(w)' /\ Knows(w)'
<1>1. tick \in [Worker -> Ticks] /\ tick[w] \in Ticks /\ artifact \in [Run -> [Phase -> Nat]]
  BY DEF IInv, TypeOK
<1>2. /\ tick'[w].at = "phase" /\ tick'[w].run = tick[w].run
      /\ tick'[w].outputs = tick[w].outputs \cup {MyPhase(w)}
  BY <1>1 DEF WriteArtifact, Ticks
<1>3. /\ tick[w].at = "artifact" /\ tick[w].at \in InPhase /\ tick[w].at \in Delivering
      /\ UNCHANGED <<phases, lease>>
  BY DEF WriteArtifact, At, InPhase, Delivering, db
<1>4. MyRun(w)' = MyRun(w)
  BY <1>2 DEF MyRun
<1>5. PICK r \in Run : r = MyRun(w)
  BY <1>3, PhaseKnown
<1>6. Follows(w) /\ Knows(w)
  BY DEF IInv
<1>7. MyPhase(w) \in Phase /\ InOrder(tick[w].outputs \cup {MyPhase(w)})
  BY <1>3, PhaseKnown
<1>8. \A s : Recorded(s)' = Recorded(s)
  BY <1>3 DEF Recorded
<1>9. tick[w].outputs \subseteq Recorded(r) /\ <<r, MyPhase(w), tick[w].attempt>> \in phases
  BY <1>3, <1>5, <1>6 DEF Follows, At
<1>10. MyPhase(w) \in Recorded(r)
  BY <1>9 DEF Recorded
<1>11. \A ph \in tick[w].outputs : Written(r, ph)'
  BY <1>3, <1>5, <1>6, WrittenStays, TickTypes DEF Follows, IInv
<1>12. PICK ph \in Phase : ph = MyPhase(w)
  BY <1>7
<1>13. Written(r, ph)'
  <2> DEFINE n == tick[w].attempt
  <2>1. artifact'[r][ph] = n
    BY <1>1, <1>5, <1>12 DEF WriteArtifact
  <2>2. <<r, ph, n>> \in phases'
    BY <1>3, <1>9, <1>12
  <2> HIDE DEF n
  <2>3. \E x \in phases' : x[1] = r /\ x[2] = ph /\ artifact'[r][ph] = x[3]
    BY <2>1, <2>2
  <2> QED
    BY <2>3 DEF Written
<1>14. Follows(w)'
  <2>1. \A q \in tick'[w].outputs : Written(r, q)'
    BY <1>2, <1>11, <1>12, <1>13
  <2>2. InOrder(tick'[w].outputs) /\ tick'[w].outputs \subseteq Recorded(r)'
    BY <1>2, <1>7, <1>8, <1>9, <1>10
  <2> QED
    BY <1>2, <1>4, <1>5, <2>1, <2>2 DEF Follows, At, InOrder, InPhase
<1>15. Holds(w)' <=> Holds(w)
  BY <1>3, <1>4 DEF Holds
<1>16. Knows(w)'
  BY <1>2, <1>3, <1>4, <1>5, <1>6, <1>8, <1>15 DEF Knows, At, InPhase
<1> QED
  BY <1>14, <1>16

LEMMA TickKept ==
  ASSUME IInv, Next, NEW w \in Worker,
         Claim(w) \/ TickStep(w) \/ Heartbeat(w) \/ WriteFails(w) \/ Crash(w)
  PROVE  Follows(w)' /\ Knows(w)'
<1> DEFINE Kept == Follows(w)' /\ Knows(w)'
<1>1. tick \in [Worker -> Ticks] /\ tick[w] \in Ticks /\ Quiet \subseteq Steps
  BY DEF IInv, TypeOK, Quiet, Steps
<1>2. ASSUME NEW at \in Quiet, Goto(w, at), ~At(w, "idle") PROVE Kept
  <2>1. /\ tick'[w].at = at /\ tick'[w].run = tick[w].run
        /\ tick'[w].outputs = tick[w].outputs
    BY <1>1, <1>2, GotoTypes DEF IInv
  <2> QED
    BY <1>2, <2>1, QuietTick
<1>3. /\ "lost" \in Quiet /\ "end" \in Quiet /\ "failed" \in Quiet /\ "sweep" \in Quiet
      /\ "paused-for-blocker" \in Quiet /\ "paused-for-decision" \in Quiet
      /\ "threw" \in Quiet /\ "abandonNull" \in Quiet /\ "blockNull" \in Quiet
  BY DEF Quiet
<1>4. ASSUME NEW at \in {"reserve", "announce", "model", "commitText", "commitDecision"},
             tick'[w].at = at,
             tick'[w].run = tick[w].run, tick'[w].outputs = tick[w].outputs,
             tick[w].at \in {"attempt", "reserve", "announce", "model"},
             UNCHANGED <<phases, decisions, lease, artifact>>
      PROVE  Kept
  <2>1. /\ tick[w].at \in InPhase \ {"artifact"} /\ tick'[w].at \in InPhase \ {"artifact"}
        /\ tick[w].at \in Delivering
    BY <1>4 DEF InPhase, Delivering
  <2> QED
    BY <1>4, <2>1, PhaseTick
<1>5. CASE tick'[w] = tick[w]
  BY <1>5, UntouchedTick
<1>6. CASE Claim(w)
  BY <1>6, ClaimTick
<1>7. CASE ListDead(w)
  <2>1. /\ tick'[w].at = "sweep" /\ tick'[w].run = tick[w].run
        /\ tick'[w].outputs = tick[w].outputs /\ ~At(w, "idle")
    BY <1>1, <1>7 DEF ListDead, Ticks, At
  <2> QED
    BY <1>3, <2>1, QuietTick
<1>8. CASE AbandonDead(w)
  <2>1. /\ tick'[w].at = "sweep" /\ tick'[w].run = tick[w].run
        /\ tick'[w].outputs = tick[w].outputs /\ ~At(w, "idle")
    BY <1>1, <1>8 DEF AbandonDead, Ticks, At
  <2> QED
    BY <1>3, <2>1, QuietTick
<1>9. CASE ReadOutputs(w)
  BY <1>9, ReadTick
<1>10. CASE Rebuild(w)
  BY <1>5, <1>10, RebuildTick
<1>11. CASE BeginPhase(w)
  <2>1. ~At(w, "idle")
    BY <1>11 DEF BeginPhase, At
  <2>2. CASE Goto(w, "paused-for-decision")
    BY <1>2, <1>3, <2>1, <2>2
  <2>3. CASE Goto(w, "attempt") \/ Goto(w, "complete")
    <3>1. tick'[w].at \in {"attempt", "complete"}
      BY <2>3, GotoTypes DEF IInv, Steps
    <3> QED
      BY <1>11, <3>1, BeginTick
  <2> QED
    BY <1>11, <2>2, <2>3 DEF BeginPhase
<1>12. CASE NextAttempt(w)
  <2>1. PICK n \in Nat : tick' = [tick EXCEPT ![w].at = "reserve", ![w].attempt = n]
    BY <1>12, AttemptsNumbered
  <2>2. /\ tick'[w].at = "reserve" /\ tick'[w].run = tick[w].run
        /\ tick'[w].outputs = tick[w].outputs
    BY <1>1, <2>1 DEF Ticks
  <2>3. tick[w].at = "attempt" /\ UNCHANGED <<phases, decisions, lease, artifact>>
    BY <1>12 DEF NextAttempt, At, db
  <2> QED
    BY <1>4, <2>2, <2>3
<1>13. CASE Reserve(w)
  <2>1. tick[w].at = "reserve" /\ UNCHANGED <<phases, decisions, lease, artifact>>
    BY <1>13 DEF Reserve, ReserveUnless, At
  <2>2. CASE Goto(w, "failed") \/ Goto(w, "paused-for-blocker")
    BY <1>2, <1>3, <2>1, <2>2 DEF At
  <2>3. CASE tick' = [tick EXCEPT ![w].at = "announce", ![w].holds = TRUE]
    <3>1. /\ tick'[w].at = "announce" /\ tick'[w].run = tick[w].run
          /\ tick'[w].outputs = tick[w].outputs
      BY <1>1, <2>3 DEF Ticks
    <3> QED
      BY <1>4, <2>1, <3>1
  <2> QED
    BY <1>13, <2>2, <2>3 DEF Reserve, ReserveUnless
<1>14. CASE Announce(w)
  <2>1. /\ tick[w].at = "announce" /\ Goto(w, "model")
        /\ UNCHANGED <<phases, decisions, lease, artifact>>
    BY <1>14 DEF Announce, At
  <2>2. /\ tick'[w].at = "model" /\ tick'[w].run = tick[w].run
        /\ tick'[w].outputs = tick[w].outputs
    BY <2>1, GotoTypes DEF IInv, Steps
  <2> QED
    BY <1>4, <2>1, <2>2
<1>15. CASE ModelReplies(w)
  <2>1. tick[w].at = "model" /\ UNCHANGED <<phases, decisions, lease, artifact>>
    BY <1>15 DEF ModelReplies, At, db
  <2>2. CASE Goto(w, "blockNull")
    BY <1>2, <1>3, <2>1, <2>2 DEF At
  <2>3. ASSUME NEW next \in {"commitText", "commitDecision"}, Goto(w, next) PROVE Kept
    <3>1. /\ tick'[w].at = next /\ tick'[w].run = tick[w].run
          /\ tick'[w].outputs = tick[w].outputs
      BY <2>3, GotoTypes DEF IInv, Steps
    <3> QED
      BY <1>4, <2>1, <3>1
  <2> QED
    BY <1>15, <2>2, <2>3 DEF ModelReplies
<1>16. CASE Heartbeat(w)
  BY <1>2, <1>3, <1>5, <1>16 DEF Heartbeat, LeaseLost, At
<1>17. CASE SetTerminalStatus(w) \/ BlockOnNull(w) \/ AbandonOwn(w)
  <2>1. ~At(w, "idle")
    BY <1>17 DEF SetTerminalStatus, BlockOnNull, AbandonOwn, At
  <2>2. Goto(w, "end") \/ Goto(w, "lost") \/ Goto(w, "abandonNull")
    BY <1>17 DEF SetTerminalStatus, BlockOnNull, AbandonOwn, LeaseLost
  <2> QED
    BY <1>2, <1>3, <2>1, <2>2
<1>18. CASE CommitText(w) \/ CommitDecision(w)
  <2>1. ~At(w, "idle")
    BY <1>18 DEF CommitText, CommitDecision, At
  <2>2. \/ Recording(w) \/ Goto(w, "end") \/ Goto(w, "lost")
        \/ tick' = [tick EXCEPT ![w].at = "end", ![w].holds = FALSE]
    <3>1. CASE CommitText(w)
      BY <3>1 DEF CommitText, SettleThrows, LeaseLost, Recording
    <3>2. CASE CommitDecision(w)
      BY <3>2 DEF CommitDecision, SettleThrows, LeaseLost
    <3> QED
      BY <1>18, <3>1, <3>2
  <2>3. CASE Recording(w)
    BY <2>3, RecordingTick
  <2>4. CASE tick' = [tick EXCEPT ![w].at = "end", ![w].holds = FALSE]
    <3>1. /\ tick'[w].at = "end" /\ tick'[w].run = tick[w].run
          /\ tick'[w].outputs = tick[w].outputs
      BY <1>1, <2>4 DEF Ticks
    <3> QED
      BY <1>3, <2>1, <3>1, QuietTick
  <2> QED
    BY <1>2, <1>3, <2>1, <2>2, <2>3, <2>4
<1>19. CASE WriteArtifact(w)
  BY <1>19, WriteTick
<1>20. CASE EndTick(w) \/ Crash(w)
  BY <1>1, <1>20, IdleTick DEF EndTick, Crash
<1>21. CASE WriteFails(w)
  <2>1. CASE tick[w].at \notin {"idle", "reserve", "end", "threw"} /\ Goto(w, "threw")
    BY <1>2, <1>3, <2>1 DEF At
  <2>2. CASE tick' = [tick EXCEPT ![w] = NoTick]
    BY <1>1, <2>2, IdleTick
  <2> QED
    BY <1>21, <2>1, <2>2 DEF WriteFails
<1> QED
  BY <1>6, <1>7, <1>8, <1>9, <1>10, <1>11, <1>12, <1>13, <1>14, <1>15, <1>16, <1>17, <1>18,
     <1>19, <1>20, <1>21 DEF TickStep

LEMMA TicksKept ==
  ASSUME IInv, Next, NEW v \in Worker
  PROVE  Follows(v)' /\ Knows(v)'
<1>1. tick \in [Worker -> Ticks]
  BY DEF IInv, TypeOK
<1>2. CASE tick'[v] = tick[v]
  BY <1>2, UntouchedTick
<1>3. ASSUME NEW w \in Worker, NEW t \in Ticks,
             Claim(w) \/ TickStep(w) \/ Heartbeat(w) \/ WriteFails(w) \/ Crash(w),
             tick' = [tick EXCEPT ![w] = t]
      PROVE  Follows(v)' /\ Knows(v)'
  <2>1. CASE w = v
    BY <1>3, <2>1, TickKept
  <2>2. CASE w # v
    BY <1>1, <1>2, <1>3, <2>2
  <2> QED
    BY <2>1, <2>2
<1> QED
  BY <1>2, <1>3, TickMoves

-------------------------------------------------------------------------------
LEMMA InitHolds ==
  Init => IInv
<1> SUFFICES ASSUME Init PROVE IInv
  OBVIOUS
<1>1. /\ Run \subseteq Nat /\ NoRun \notin Run /\ MaxDay \in Nat /\ MaxLapses \in Nat
      /\ MaxCrashes \in Nat
  BY WorkerAssumption DEF NoRun
<1>2. NoTick \in Ticks
  BY DEF NoTick, Ticks, Steps
<1>3. TypeOK
  BY <1>1, <1>2 DEF Init, TypeOK, Free
<1>4. IsFiniteSet(ledger) /\ IsFiniteSet(decisions)
  BY FS_EmptySet DEF Init
<1>5. \A r : Recorded(r) = {} /\ Pending(r) = {}
  BY DEF Init, Recorded, Pending
<1>6. Records /\ Asked
  BY <1>5 DEF Init, Records, Asked, InOrder
<1>7. CompleteMeansDelivered
  BY DEF Init, CompleteMeansDelivered
<1>8. ASSUME NEW w \in Worker PROVE Follows(w) /\ Knows(w)
  <2>1. tick[w].at = "idle" /\ tick[w].run \notin Run /\ tick[w].outputs = {}
    BY <1>1 DEF Init, NoTick
  <2> QED
    BY <2>1 DEF Follows, Knows, MyRun, At, InOrder, InPhase, Delivering
<1> QED
  BY <1>3, <1>4, <1>6, <1>7, <1>8 DEF IInv

LEMMA NextHolds ==
  IInv /\ [Next]_vars => IInv'
<1> SUFFICES ASSUME IInv, [Next]_vars PROVE IInv'
  OBVIOUS
<1>1. CASE Next
  <2>1. TypeOK' /\ IsFiniteSet(ledger)' /\ IsFiniteSet(decisions)'
    BY <1>1, Typed
  <2>2. Records' /\ Asked' /\ CompleteMeansDelivered'
    BY <1>1, RecordsKept, AskedKept, DeliveredKept
  <2>3. \A w \in Worker : Follows(w)' /\ Knows(w)'
    BY <1>1, TicksKept
  <2> QED
    BY <2>1, <2>2, <2>3 DEF IInv
<1>2. CASE UNCHANGED vars
  <2>1. /\ UNCHANGED <<status, phases, decisions, ledger, lease, artifact, tick, day, lapses, crashes>>
    BY <1>2 DEF vars, db, bounds
  <2>2. /\ TypeOK' <=> TypeOK
        /\ IsFiniteSet(ledger)' /\ IsFiniteSet(decisions)'
    BY <2>1 DEF TypeOK, IInv
  <2>3. \A r : Recorded(r)' = Recorded(r) /\ Pending(r)' = Pending(r)
    BY <2>1 DEF Recorded, Pending
  <2>4. Records' /\ Asked'
    BY <2>1, <2>3 DEF Records, Asked, InOrder, IInv
  <2>5. CompleteMeansDelivered'
    BY <2>1 DEF CompleteMeansDelivered, IInv
  <2>6. ASSUME NEW w \in Worker PROVE Follows(w)' /\ Knows(w)'
    BY <2>1, <2>3 DEF IInv, Follows, Knows, Written, InOrder, At, MyRun, MyPhase, Holds
  <2> QED
    BY <2>2, <2>4, <2>5, <2>6 DEF IInv
<1> QED
  BY <1>1, <1>2

LEMMA Invariant ==
  Spec => []IInv
BY InitHolds, NextHolds, PTL DEF Spec

(* Type correctness of the worker, its store and its ledger.                   *)
THEOREM TypeCorrect ==
  Spec => []TypeOK
<1>1. IInv => TypeOK
  BY DEF IInv
<1> QED
  BY <1>1, Invariant, PTL

(* A run that is shown as complete has every phase recorded and every artifact    *)
(* on disk with the recorded output, whoever wrote it.                          *)
THEOREM Delivered ==
  Spec => []CompleteMeansDelivered
<1>1. IInv => CompleteMeansDelivered
  BY DEF IInv
<1> QED
  BY <1>1, Invariant, PTL

(* The owner of a run is never asked two questions at once.                     *)
THEOREM OneQuestion ==
  Spec => []OneOpenQuestion
<1>1. IInv => OneOpenQuestion
  <2> SUFFICES ASSUME IInv, NEW r \in Run PROVE Cardinality(Pending(r)) <= 1
    BY DEF OneOpenQuestion
  <2> DEFINE open == Pending(r)
  <2>1. \A d, e \in open : d = e
    BY DEF IInv, Asked
  <2> HIDE DEF open
  <2>2. CASE open = {}
    <3>1. Cardinality(open) = 0
      BY <2>2, FS_EmptySet
    <3> QED
      BY <3>1 DEF open
  <2>3. CASE open # {}
    <3>1. PICK d : open = {d}
      BY <2>1, <2>3
    <3>2. Cardinality(open) = 1
      BY <3>1, FS_Singleton
    <3> QED
      BY <3>2 DEF open
  <2> QED
    BY <2>2, <2>3
<1> QED
  BY <1>1, Invariant, PTL

-------------------------------------------------------------------------------
(* The records of a run, as RunProgress sees them.                             *)
Rows(r) == {<<x[2], x[3]>> : x \in {y \in phases : y[1] = r}}

(* A run with the phases 1 to n - 1 recorded has n - 1 records.                *)
LEMMA CountRows ==
  ASSUME IInv, NEW r \in Run, NEW n \in Nat \ {0}, Recorded(r) = 1..(n - 1)
  PROVE  Cardinality(Rows(r)) = n - 1
<1> DEFINE rows == Rows(r)
           T == 1..(n - 1)
           f == [row \in rows |-> row[1]]
<1>1. \A row \in rows : \E x \in phases : x[1] = r /\ row = <<x[2], x[3]>>
  BY DEF Rows
<1>2. \A x, y \in phases : x[1] = y[1] /\ x[2] = y[2] => x = y
  BY DEF IInv, Records
<1>3. \A a, b \in rows : a[1] = b[1] => a = b
  <2> SUFFICES ASSUME NEW a \in rows, NEW b \in rows, a[1] = b[1] PROVE a = b
    OBVIOUS
  <2>1. PICK x \in phases : x[1] = r /\ a = <<x[2], x[3]>>
    BY <1>1
  <2>2. PICK y \in phases : y[1] = r /\ b = <<y[2], y[3]>>
    BY <1>1
  <2>3. x = y
    BY <1>2, <2>1, <2>2
  <2> QED
    BY <2>1, <2>2, <2>3
<1>4. \A row \in rows : row[1] \in T
  BY <1>1 DEF Recorded
<1>5. \A q \in T : \E row \in rows : row[1] = q
  <2> SUFFICES ASSUME NEW q \in Recorded(r) PROVE \E row \in rows : row[1] = q
    OBVIOUS
  <2>1. PICK x \in phases : x[1] = r /\ x[2] = q
    BY DEF Recorded
  <2>2. <<x[2], x[3]>> \in rows
    BY <2>1 DEF Rows
  <2> QED
    BY <2>1, <2>2
<1> HIDE DEF rows, T
<1>6. f \in [rows -> T]
  BY <1>4
<1>7. f \in Injection(rows, T)
  BY <1>3, <1>6 DEF Injection, IsInjective
<1>8. f \in Surjection(rows, T)
  BY <1>5, <1>6 DEF Surjection
<1>9. IsFiniteSet(T) /\ Cardinality(T) = n - 1
  <2>1. IsFiniteSet(1..(n - 1)) /\ Cardinality(1..(n - 1)) = IF 1 > n - 1 THEN 0 ELSE (n - 1) - 1 + 1
    BY FS_Interval
  <2> QED
    BY <2>1 DEF T
<1> HIDE DEF f
<1>10. Cardinality(rows) = Cardinality(T)
  BY <1>7, <1>8, <1>9, FS_Injection
<1> QED
  BY <1>9, <1>10 DEF rows

LEMMA StepRecords ==
  ASSUME IInv, [Next]_vars
  PROVE  [Progress!Next]_[r \in Run |-> Rows(r)]
<1> DEFINE log == [r \in Run |-> Rows(r)]
<1>1. CASE phases' = phases
  BY <1>1 DEF Rows
<1>2. ASSUME NEW w \in Worker, Recording(w) PROVE Progress!Next
  <2>1. tick[w].at \in InPhase
    BY <1>2 DEF Recording, At, InPhase
  <2>2. PICK r \in Run : r = MyRun(w)
    BY <2>1, PhaseKnown
  <2>3. PICK ph \in Phase : ph = MyPhase(w)
    BY <2>1, PhaseKnown
  <2>4. Recorded(r) = 1..(ph - 1) /\ ph \in Nat \ {0} /\ ph <= NumPhases
    <3>1. Recorded(r) = 1..(ph - 1)
      BY <1>2, <2>1, <2>2, <2>3, PhaseKnown, RecordingHolds
    <3>2. ph \in Nat \ {0} /\ ph <= NumPhases
      BY WorkerAssumption DEF Phase
    <3> QED
      BY <3>1, <3>2
  <2>5. Cardinality(Rows(r)) = ph - 1
    BY <2>4, CountRows
  <2> DEFINE n == tick[w].attempt
             row == <<ph, n>>
             new == <<r, ph, n>>
  <2>6. phases' = phases \cup {new} /\ new[1] = r /\ <<new[2], new[3]>> = row
    BY <1>2, <2>2, <2>3 DEF Recording
  <2> HIDE DEF n
  <2>7. \A s, x : x \in Rows(s)' <=> x \in Rows(s) \/ (s = r /\ x = row)
    <3> HIDE DEF new, row
    <3>1. \A s, x : x \in Rows(s) <=> \E y \in phases : y[1] = s /\ x = <<y[2], y[3]>>
      BY DEF Rows
    <3>2. \A s, x : x \in Rows(s)' <=> \E y \in phases' : y[1] = s /\ x = <<y[2], y[3]>>
      BY DEF Rows
    <3>3. ASSUME NEW s, NEW x
          PROVE  (\E y \in phases' : y[1] = s /\ x = <<y[2], y[3]>>)
                   <=> (\E y \in phases : y[1] = s /\ x = <<y[2], y[3]>>) \/ (s = r /\ x = row)
      BY <2>6
    <3> QED
      BY <3>1, <3>2, <3>3
  <2>8. log' = [log EXCEPT ![r] = log[r] \cup {row}]
    <3>1. Rows(r)' = Rows(r) \cup {row}
      <4> HIDE DEF row
      <4> QED
        BY <2>7
    <3>2. \A s \in Run : s # r => Rows(s)' = Rows(s)
      BY <2>7
    <3> HIDE DEF row
    <3> QED
      BY <3>1, <3>2
  <2>9. row \in log'[r] /\ row[1] = Cardinality(log[r]) + 1
    BY <2>4, <2>5, <2>7
  <2>10. Cardinality(log[r]) < NumPhases
    BY <2>4, <2>5, WorkerAssumption
  <2>11. Progress!Record(r)
    <3>1. log = [s \in Run |-> {<<x[2], x[3]>> : x \in {y \in phases : y[1] = s}}]
      BY DEF Rows
    <3>2. log' = [s \in Run |-> {<<x[2], x[3]>> : x \in {y \in phases' : y[1] = s}}]
      BY DEF Rows
    <3> HIDE DEF row, log
    <3>3. \E x \in log'[r] :
             x[1] = Cardinality(log[r]) + 1 /\ log' = [log EXCEPT ![r] = log[r] \cup {x}]
      BY <2>8, <2>9
    <3>4. \A S : Progress!Cardinality(S) = Cardinality(S)
      BY DEF Progress!Cardinality, Cardinality
    <3> QED
      BY <2>10, <3>1, <3>2, <3>3, <3>4 DEF Progress!Record
  <2> QED
    BY <2>11 DEF Progress!Next
<1>3. phases' = phases \/ \E w \in Worker : Recording(w)
  BY PhasesMoves DEF vars, db
<1> QED
  BY <1>1, <1>2, <1>3

(* However late a worker wakes up, the phases of a run are recorded in order,     *)
(* once, and for good: the worker implements RunProgress.                        *)
THEOREM ImplementsProgress ==
  Spec => RecordsInOrder
<1>1. Init => Progress!Init
  BY DEF Init, Progress!Init
<1>2. IInv /\ [Next]_vars => [Progress!Next]_[r \in Run |-> Rows(r)]
  BY StepRecords
<1>3. [r \in Run |-> Rows(r)] = [r \in Run |-> {<<x[2], x[3]>> : x \in {y \in phases : y[1] = r}}]
  BY DEF Rows
<1> QED
  BY <1>1, <1>2, <1>3, Invariant, PTL DEF Spec, RecordsInOrder, Progress!Spec, Rows

-------------------------------------------------------------------------------
(* Sums over finite sets: what MapThenSumSet computes does not depend on the     *)
(* order in which it takes the elements.                                       *)
One(T) == CHOOSE x \in T : TRUE

(* f sums g over the subsets of S.                                            *)
Adds(f, g, S) ==
    f = [T \in SUBSET S |-> IF T = {} THEN 0 ELSE g[One(T)] + f[T \ {One(T)}]]

Sums(n, g, S) == \E f : Adds(f, g, S) /\ n = f[S]

LEMMA AddsExists ==
  ASSUME NEW S, IsFiniteSet(S), NEW g \in [S -> Nat]
  PROVE  \E f \in [SUBSET S -> Nat] : Adds(f, g, S)
<1> DEFINE Sum(f, T) == IF T = {} THEN 0 ELSE g[One(T)] + f[T \ {One(T)}]
           Upto(f, k) == \A T \in SUBSET S : Cardinality(T) <= k => f[T] = Sum(f, T)
           Good(k) == \E f \in [SUBSET S -> Nat] : Upto(f, k)
           Bad == {k \in 0..Cardinality(S) : ~Good(k)}
<1>1. Cardinality(S) \in Nat
  BY FS_CardinalityType
<1>2. ASSUME NEW T \in SUBSET S
      PROVE  /\ IsFiniteSet(T) /\ Cardinality(T) \in Nat /\ Cardinality(T) <= Cardinality(S)
             /\ Cardinality(T) = 0 <=> T = {}
             /\ T # {} => /\ One(T) \in T /\ T \ {One(T)} \in SUBSET S
                          /\ Cardinality(T \ {One(T)}) = Cardinality(T) - 1
  <2>1. IsFiniteSet(T) /\ Cardinality(T) <= Cardinality(S)
    BY FS_Subset
  <2>2. Cardinality(T) \in Nat /\ (Cardinality(T) = 0 <=> T = {})
    BY <2>1, FS_CardinalityType, FS_EmptySet
  <2>3. T # {} => One(T) \in T
    BY DEF One
  <2>4. ASSUME T # {}
        PROVE  T \ {One(T)} \in SUBSET S /\ Cardinality(T \ {One(T)}) = Cardinality(T) - 1
    BY <2>1, <2>3, <2>4, FS_RemoveElement
  <2> QED
    BY <2>1, <2>2, <2>3, <2>4
<1>3. ASSUME NEW f \in [SUBSET S -> Nat], NEW T \in SUBSET S PROVE Sum(f, T) \in Nat
  <2>1. CASE T = {}
    BY <2>1
  <2>2. CASE T # {}
    <3>1. g[One(T)] \in Nat /\ f[T \ {One(T)}] \in Nat
      BY <1>2, <2>2
    <3> QED
      BY <2>2, <3>1
  <2> QED
    BY <2>1, <2>2
<1>4. Good(0)
  <2> DEFINE f == [T \in SUBSET S |-> 0]
  <2>1. ASSUME NEW T \in SUBSET S, Cardinality(T) <= 0 PROVE T = {}
    <3>1. Cardinality(T) \in Nat /\ (Cardinality(T) = 0 <=> T = {})
      BY <1>2
    <3> QED
      BY <2>1, <3>1
  <2>2. f \in [SUBSET S -> Nat] /\ Upto(f, 0)
    BY <2>1
  <2> HIDE DEF f, Upto
  <2> QED
    BY <2>2
<1>5. ASSUME NEW k \in Nat, Good(k) PROVE Good(k + 1)
  <2>1. PICK f \in [SUBSET S -> Nat] : Upto(f, k)
    BY <1>5
  <2> DEFINE h == [T \in SUBSET S |-> Sum(f, T)]
  <2>2. h \in [SUBSET S -> Nat]
    <3> HIDE DEF Sum
    <3> QED
      BY <1>3
  <2>3. ASSUME NEW T \in SUBSET S, Cardinality(T) <= k + 1 PROVE h[T] = Sum(h, T)
    <3>1. CASE T = {}
      BY <3>1
    <3>2. CASE T # {}
      <4> DEFINE U == T \ {One(T)}
      <4>1. U \in SUBSET S /\ Cardinality(U) <= k
        BY <1>2, <2>3, <3>2
      <4>2. f[U] = Sum(f, U)
        BY <2>1, <4>1
      <4>3. h[U] = f[U]
        <5> HIDE DEF Sum, U
        <5> QED
          BY <4>1, <4>2
      <4>4. h[T] = g[One(T)] + f[U]
        BY <3>2
      <4> QED
        BY <3>2, <4>3, <4>4
    <3> QED
      BY <3>1, <3>2
  <2> HIDE DEF h, Sum
  <2> QED
    BY <2>2, <2>3
<1>6. Bad = {}
  <2> SUFFICES ASSUME Bad # {} PROVE FALSE
    OBVIOUS
  <2>1. Bad \in SUBSET Nat /\ IsFiniteSet(Bad)
    <3>1. IsFiniteSet(0..Cardinality(S))
      BY <1>1, FS_Interval
    <3>2. Bad \in SUBSET (0..Cardinality(S)) /\ Bad \in SUBSET Nat
      BY <1>1
    <3> HIDE DEF Bad
    <3> QED
      BY <3>1, <3>2, FS_Subset
  <2>2. PICK m \in Bad : \A k \in Bad : m <= k
    <3> HIDE DEF Bad
    <3> QED
      BY <2>1, Extremes
  <2> HIDE DEF Good
  <2>3. m \in Nat /\ m <= Cardinality(S) /\ ~Good(m) /\ m # 0
    BY <1>1, <1>4
  <2>4. m - 1 \in 0..Cardinality(S) /\ m - 1 \in Nat /\ ~(m <= m - 1) /\ (m - 1) + 1 = m
    BY <1>1, <2>3
  <2>5. Good(m - 1)
    BY <2>2, <2>4
  <2>6. Good((m - 1) + 1)
    BY <1>5, <2>4, <2>5
  <2> QED
    BY <2>3, <2>4, <2>6
<1>7. Good(Cardinality(S))
  <2> HIDE DEF Good
  <2> QED
    BY <1>1, <1>6
<1>8. PICK f \in [SUBSET S -> Nat] : \A T \in SUBSET S : f[T] = Sum(f, T)
  BY <1>2, <1>7
<1>9. f = [T \in SUBSET S |-> Sum(f, T)]
  <2> HIDE DEF Sum
  <2> QED
    BY <1>8
<1> QED
  BY <1>9 DEF Adds

(* Sums of the same terms are the same.                                       *)
LEMMA AddsSame ==
  ASSUME NEW S1, NEW g1, NEW f1, Adds(f1, g1, S1),
         NEW S2, NEW g2, NEW f2, Adds(f2, g2, S2),
         NEW T, IsFiniteSet(T), T \subseteq S1, T \subseteq S2,
         \A x \in T : g1[x] = g2[x]
  PROVE  f1[T] = f2[T]
<1> DEFINE Bad == {A \in FiniteSubsetsOf(T) : f1[A] # f2[A]}
<1>1. Bad = {}
  <2> SUFFICES ASSUME Bad # {} PROVE FALSE
    OBVIOUS
  <2>1. PICK A \in Bad : \A B \in Bad : B \subseteq A => B = A
    <3>1. Bad \subseteq FiniteSubsetsOf(T)
      OBVIOUS
    <3> HIDE DEF Bad
    <3> QED
      BY <3>1, Smallest
  <2>2. A \in SUBSET T /\ IsFiniteSet(A) /\ f1[A] # f2[A]
    BY DEF FiniteSubsetsOf
  <2>3. A # {}
    BY <2>2 DEF Adds
  <2>4. One(A) \in A
    BY <2>3 DEF One
  <2> DEFINE B == A \ {One(A)}
  <2>5. f1[A] = g1[One(A)] + f1[B] /\ f2[A] = g2[One(A)] + f2[B]
    BY <2>2, <2>3 DEF Adds
  <2>6. g1[One(A)] = g2[One(A)]
    BY <2>2, <2>4
  <2>7. IsFiniteSet(B) /\ B \subseteq A /\ B # A
    BY <2>2, <2>4, FS_RemoveElement
  <2>8. f1[B] = f2[B]
    BY <2>1, <2>2, <2>7 DEF FiniteSubsetsOf
  <2> QED
    BY <2>2, <2>5, <2>6, <2>8
<1>2. T \in FiniteSubsetsOf(T)
  BY DEF FiniteSubsetsOf
<1> QED
  BY <1>1, <1>2

(* Any element may be added last.                                             *)
LEMMA AddsOne ==
  ASSUME NEW S, IsFiniteSet(S), NEW g \in [S -> Nat], NEW f \in [SUBSET S -> Nat], Adds(f, g, S),
         NEW x \in S
  PROVE  f[S] = g[x] + f[S \ {x}]
<1> DEFINE Bad == {A \in FiniteSubsetsOf(S) : \E y \in A : f[A] # g[y] + f[A \ {y}]}
<1>1. Bad = {}
  <2> SUFFICES ASSUME Bad # {} PROVE FALSE
    OBVIOUS
  <2>1. PICK A \in Bad : \A B \in Bad : B \subseteq A => B = A
    <3>1. Bad \subseteq FiniteSubsetsOf(S)
      OBVIOUS
    <3> HIDE DEF Bad
    <3> QED
      BY <3>1, Smallest
  <2>2. A \in SUBSET S /\ IsFiniteSet(A)
    BY DEF FiniteSubsetsOf
  <2>3. PICK y \in A : f[A] # g[y] + f[A \ {y}]
    BY <2>1
  <2> DEFINE z == One(A)
  <2>4. z \in A
    BY <2>3 DEF One
  <2>5. f[A] = g[z] + f[A \ {z}]
    BY <2>2, <2>4 DEF Adds
  <2> HIDE DEF z
  <2>6. y # z
    BY <2>3, <2>5
  <2>7. ASSUME NEW u \in A, NEW v \in A, u # v
        PROVE  f[A \ {u}] = g[v] + f[A \ {u, v}]
    <3>1. IsFiniteSet(A \ {u}) /\ A \ {u} \subseteq A /\ A \ {u} # A
      BY <2>2, FS_RemoveElement
    <3>2. A \ {u} \in FiniteSubsetsOf(S) /\ A \ {u} \notin Bad
      BY <2>1, <2>2, <3>1 DEF FiniteSubsetsOf
    <3>3. v \in A \ {u} /\ (A \ {u}) \ {v} = A \ {u, v}
      BY <2>7
    <3> QED
      BY <3>2, <3>3
  <2>8. f[A \ {z}] = g[y] + f[A \ {z, y}] /\ f[A \ {y}] = g[z] + f[A \ {z, y}]
    <3>1. A \ {y, z} = A \ {z, y}
      OBVIOUS
    <3> QED
      BY <2>4, <2>6, <2>7, <3>1
  <2>9. g[y] \in Nat /\ g[z] \in Nat /\ f[A \ {z, y}] \in Nat
    BY <2>2, <2>4
  <2> QED
    BY <2>3, <2>5, <2>8, <2>9
<1>2. S \in FiniteSubsetsOf(S)
  BY DEF FiniteSubsetsOf
<1> QED
  BY <1>1, <1>2

LEMMA SumsOne ==
  ASSUME NEW S, IsFiniteSet(S), NEW g \in [S -> Nat], NEW n, Sums(n, g, S),
         NEW x \in S, NEW h, \A y \in S \ {x} : h[y] = g[y], NEW m, Sums(m, h, S \ {x})
  PROVE  n = g[x] + m
<1>1. PICK f : Adds(f, g, S) /\ n = f[S]
  BY DEF Sums
<1>2. PICK e : Adds(e, h, S \ {x}) /\ m = e[S \ {x}]
  BY DEF Sums
<1>3. PICK k \in [SUBSET S -> Nat] : Adds(k, g, S)
  BY AddsExists
<1>4. IsFiniteSet(S \ {x}) /\ S \ {x} \subseteq S
  BY FS_RemoveElement
<1>5. n = k[S]
  BY <1>1, <1>3, AddsSame
<1>6. m = k[S \ {x}]
  <2> DEFINE T == S \ {x}
  <2>1. IsFiniteSet(T) /\ T \subseteq S /\ \A y \in T : h[y] = g[y]
    BY <1>4
  <2>2. Adds(e, h, T) /\ m = e[T]
    BY <1>2
  <2> HIDE DEF T
  <2>3. e[T] = k[T]
    BY <1>3, <2>1, <2>2, AddsSame
  <2> QED
    BY <2>2, <2>3 DEF T
<1>7. k[S] = g[x] + k[S \ {x}]
  BY <1>3, AddsOne
<1> QED
  BY <1>5, <1>6, <1>7

LEMMA SumsNat ==
  ASSUME NEW S, IsFiniteSet(S), NEW g \in [S -> Nat], NEW n, Sums(n, g, S)
  PROVE  n \in Nat /\ (S = {} => n = 0)
<1>1. PICK f : Adds(f, g, S) /\ n = f[S]
  BY DEF Sums
<1>2. PICK k \in [SUBSET S -> Nat] : Adds(k, g, S)
  BY AddsExists
<1>3. n = k[S]
  BY <1>1, <1>2, AddsSame
<1>4. S = {} => k[S] = 0
  BY <1>2 DEF Adds
<1> QED
  BY <1>2, <1>3, <1>4
-------------------------------------------------------------------------------
(* What rows of the ledger spend, and what providers report beyond them.        *)
Beyond(x) == Max({x.tokens - Estimate, 0})

LEMMA BeyondIs ==
  ASSUME NEW x, x.tokens \in Nat
  PROVE  /\ Beyond(x) \in Nat
         /\ Beyond(x) = IF x.tokens > Estimate THEN x.tokens - Estimate ELSE 0
<1> DEFINE a == x.tokens - Estimate
           most == IF x.tokens > Estimate THEN a ELSE 0
<1>1. Estimate \in Nat /\ a \in Int
  BY WorkerAssumption
<1>2. most \in Nat /\ most \in {a, 0} /\ \A y \in {a, 0} : most >= y
  BY <1>1
<1>3. \A b \in {a, 0} : (\A y \in {a, 0} : b >= y) => b = most
  BY <1>1
<1>4. Beyond(x) = CHOOSE b \in {a, 0} : \A y \in {a, 0} : b >= y
  BY DEF Beyond, Max
<1> HIDE DEF a, most
<1>5. Beyond(x) = most
  BY <1>2, <1>3, <1>4
<1> QED
  BY <1>2, <1>5 DEF most, a

LEMMA SpentSums ==
  ASSUME NEW S, IsFiniteSet(S), \A x \in S : x.tokens \in Nat
  PROVE  Sums(Spent(S), [x \in S |-> x.tokens], S)
<1> DEFINE g == [x \in S |-> x.tokens]
           A(f, T) == IF T = {} THEN 0
                      ELSE (CHOOSE x \in T : TRUE).tokens + f[T \ {CHOOSE x \in T : TRUE}]
           B(f, T) == IF T = {} THEN 0 ELSE g[One(T)] + f[T \ {One(T)}]
           Eq(f) == f = [T \in SUBSET S |-> A(f, T)]
           sum == CHOOSE f : Eq(f)
<1>1. ASSUME NEW f PROVE Eq(f) <=> Adds(f, g, S)
  <2>1. ASSUME NEW T \in SUBSET S PROVE A(f, T) = B(f, T)
    <3>1. CASE T = {}
      BY <3>1
    <3>2. CASE T # {}
      <4>1. One(T) \in T /\ One(T) = CHOOSE x \in T : TRUE
        BY <3>2 DEF One
      <4>2. g[One(T)] = One(T).tokens
        BY <4>1
      <4> QED
        BY <3>2, <4>1, <4>2
    <3> QED
      BY <3>1, <3>2
  <2>2. (f = [T \in SUBSET S |-> A(f, T)]) <=> (f = [T \in SUBSET S |-> B(f, T)])
    <3> HIDE DEF A, B
    <3> QED
      BY <2>1
  <2> QED
    BY <2>2 DEF Adds
<1>2. Eq(sum)
  <2>1. g \in [S -> Nat]
    OBVIOUS
  <2>2. PICK h : Adds(h, g, S)
    <3> HIDE DEF g
    <3> QED
      BY <2>1, AddsExists
  <2>3. Eq(h)
    BY <1>1, <2>2
  <2> HIDE DEF Eq
  <2> QED
    BY <2>3
<1>3. Spent(S) = sum[S]
  BY DEF Spent, MapThenSumSet, MapThenFoldSet
<1> HIDE DEF sum, Eq
<1> QED
  BY <1>1, <1>2, <1>3 DEF Sums

LEMMA OverrunSums ==
  ASSUME NEW S, IsFiniteSet(S), \A x \in S : x.tokens \in Nat
  PROVE  Sums(Overrun(S), [x \in S |-> Beyond(x)], S)
<1> DEFINE g == [x \in S |-> Beyond(x)]
           A(f, T) == IF T = {} THEN 0
                      ELSE Max({(CHOOSE x \in T : TRUE).tokens - Estimate, 0})
                             + f[T \ {CHOOSE x \in T : TRUE}]
           B(f, T) == IF T = {} THEN 0 ELSE g[One(T)] + f[T \ {One(T)}]
           Eq(f) == f = [T \in SUBSET S |-> A(f, T)]
           sum == CHOOSE f : Eq(f)
<1>1. ASSUME NEW f PROVE Eq(f) <=> Adds(f, g, S)
  <2>1. ASSUME NEW T \in SUBSET S PROVE A(f, T) = B(f, T)
    <3>1. CASE T = {}
      BY <3>1
    <3>2. CASE T # {}
      <4>1. One(T) \in T /\ One(T) = CHOOSE x \in T : TRUE
        BY <3>2 DEF One
      <4>2. g[One(T)] = Max({One(T).tokens - Estimate, 0})
        BY <4>1 DEF Beyond
      <4> QED
        BY <3>2, <4>1, <4>2
    <3> QED
      BY <3>1, <3>2
  <2>2. (f = [T \in SUBSET S |-> A(f, T)]) <=> (f = [T \in SUBSET S |-> B(f, T)])
    <3> HIDE DEF A, B
    <3> QED
      BY <2>1
  <2> QED
    BY <2>2 DEF Adds
<1>2. Eq(sum)
  <2>1. g \in [S -> Nat]
    BY BeyondIs
  <2>2. PICK h : Adds(h, g, S)
    <3> HIDE DEF g
    <3> QED
      BY <2>1, AddsExists
  <2>3. Eq(h)
    BY <1>1, <2>2
  <2> HIDE DEF Eq
  <2> QED
    BY <2>3
<1>3. Overrun(S) = sum[S]
  BY DEF Overrun, MapThenSumSet, MapThenFoldSet
<1> HIDE DEF sum, Eq
<1> QED
  BY <1>1, <1>2, <1>3 DEF Sums

LEMMA SpentOne ==
  ASSUME NEW S, IsFiniteSet(S), \A x \in S : x.tokens \in Nat
  PROVE  /\ Spent(S) \in Nat /\ Overrun(S) \in Nat /\ (S = {} => Spent(S) = 0)
         /\ \A x \in S : /\ Spent(S) = x.tokens + Spent(S \ {x})
                         /\ Overrun(S) = Beyond(x) + Overrun(S \ {x})
<1> DEFINE g == [x \in S |-> x.tokens]
           o == [x \in S |-> Beyond(x)]
<1>1. g \in [S -> Nat] /\ o \in [S -> Nat]
  BY BeyondIs
<1>2. Sums(Spent(S), g, S) /\ Sums(Overrun(S), o, S)
  BY SpentSums, OverrunSums
<1>3. Spent(S) \in Nat /\ Overrun(S) \in Nat /\ (S = {} => Spent(S) = 0)
  <2> HIDE DEF g, o
  <2> QED
    BY <1>1, <1>2, SumsNat
<1>4. ASSUME NEW x \in S
      PROVE  /\ Spent(S) = x.tokens + Spent(S \ {x})
             /\ Overrun(S) = Beyond(x) + Overrun(S \ {x})
  <2> DEFINE T == S \ {x}
             g1 == [y \in T |-> y.tokens]
             o1 == [y \in T |-> Beyond(y)]
  <2>1. IsFiniteSet(T) /\ \A y \in T : y.tokens \in Nat
    BY FS_RemoveElement
  <2>2. Sums(Spent(T), g1, T) /\ Sums(Overrun(T), o1, T)
    <3> HIDE DEF T
    <3> QED
      BY <2>1, SpentSums, OverrunSums
  <2>3. g[x] = x.tokens /\ o[x] = Beyond(x) /\ \A y \in S \ {x} : g1[y] = g[y] /\ o1[y] = o[y]
    OBVIOUS
  <2>4. Sums(Spent(T), g1, S \ {x}) /\ Sums(Overrun(T), o1, S \ {x})
    BY <2>2
  <2> HIDE DEF g, o, g1, o1, T
  <2>5. Spent(S) = g[x] + Spent(T)
    BY <1>1, <1>2, <2>3, <2>4, SumsOne
  <2>6. Overrun(S) = o[x] + Overrun(T)
    BY <1>1, <1>2, <2>3, <2>4, SumsOne
  <2> QED
    BY <2>3, <2>5, <2>6 DEF T
<1> QED
  BY <1>3, <1>4

(* A row that settles, or is abandoned, takes its reservation with it.           *)
LEMMA CeilingReplace ==
  ASSUME NEW S, IsFiniteSet(S), \A z \in S : z.tokens \in Nat, NEW ceiling \in Nat,
         Spent(S) <= ceiling + Overrun(S),
         NEW x \in S, x.tokens = Estimate, NEW y, y.tokens \in Nat, y \notin S \ {x}
  PROVE  Spent((S \ {x}) \cup {y}) <= ceiling + Overrun((S \ {x}) \cup {y})
<1> DEFINE T == S \ {x}
           U == T \cup {y}
<1>1. IsFiniteSet(T) /\ IsFiniteSet(U)
  BY FS_RemoveElement, FS_AddElement
<1>2. /\ \A z \in T : z.tokens \in Nat
      /\ \A z \in U : z.tokens \in Nat
      /\ y \in U /\ U \ {y} = T
  OBVIOUS
<1>3. Spent(S) = Estimate + Spent(T) /\ Overrun(S) = Beyond(x) + Overrun(T)
  BY SpentOne
<1> HIDE DEF T, U
<1>4. Spent(U) = y.tokens + Spent(T) /\ Overrun(U) = Beyond(y) + Overrun(T)
  BY <1>1, <1>2, SpentOne
<1>5. Spent(T) \in Nat /\ Overrun(T) \in Nat
  BY <1>1, <1>2, SpentOne
<1>6. Beyond(x) = 0 /\ Beyond(y) \in Nat /\ y.tokens <= Estimate + Beyond(y) /\ Estimate \in Nat
  <2>1. Estimate \in Nat
    BY WorkerAssumption
  <2>2. Beyond(x) = 0
    BY <2>1, BeyondIs
  <2>3. Beyond(y) \in Nat /\ y.tokens <= Estimate + Beyond(y)
    BY <2>1, BeyondIs
  <2> QED
    BY <2>1, <2>2, <2>3
<1>7. Spent(U) <= ceiling + Overrun(U)
  <2> DEFINE st == Spent(T)
             ot == Overrun(T)
             by == Beyond(y)
             ty == y.tokens
  <2>1. Estimate + st <= ceiling + ot
    BY <1>3, <1>5, <1>6
  <2>2. ty + st <= ceiling + (by + ot)
    <3>1. st \in Nat /\ ot \in Nat /\ by \in Nat /\ ty \in Nat /\ ty <= Estimate + by /\ Estimate \in Nat
      BY <1>5, <1>6
    <3> HIDE DEF st, ot, by, ty
    <3> QED
      BY <2>1, <3>1
  <2> QED
    BY <1>4, <2>2
<1> QED
  BY <1>7 DEF T, U

LEMMA CeilingAdd ==
  ASSUME NEW S, IsFiniteSet(S), \A z \in S : z.tokens \in Nat, NEW ceiling \in Nat,
         NEW y, y.tokens = Estimate, y \notin S, Spent(S) + Estimate <= ceiling
  PROVE  Spent(S \cup {y}) <= ceiling + Overrun(S \cup {y})
<1> DEFINE U == S \cup {y}
<1>1. Estimate \in Nat
  BY WorkerAssumption
<1>2. IsFiniteSet(U)
  BY FS_AddElement
<1>3. (\A z \in U : z.tokens \in Nat) /\ y \in U /\ U \ {y} = S
  BY <1>1
<1> HIDE DEF U
<1>4. Spent(U) = Estimate + Spent(S) /\ Overrun(U) \in Nat
  BY <1>2, <1>3, SpentOne
<1>5. Spent(S) \in Nat
  BY SpentOne
<1> QED
  BY <1>1, <1>4, <1>5 DEF U
(* A reservation has one row, that counts its estimate until it is settled.      *)
Booked ==
    /\ \A x, y \in ledger :
          x.run = y.run /\ x.phase = y.phase /\ x.attempt = y.attempt => x = y
    /\ \A x \in ledger : x.state = "reserved" => x.tokens = Estimate

(* A row that is settled or abandoned keeps its key and its day.                *)
Replaces(x, y) ==
    /\ x \in ledger /\ x.state = "reserved" /\ ledger' = (ledger \ {x}) \cup {y}
    /\ y \in Row /\ y.state # "reserved"
    /\ y.run = x.run /\ y.phase = x.phase /\ y.attempt = x.attempt /\ y.day = x.day

LEMMA LedgerReplaces ==
  ASSUME IInv, Booked, Next
  PROVE  \/ ledger' = ledger
         \/ \E w \in Worker : Reserves(w)
         \/ \E x, y : Replaces(x, y)
<1>1. ledger \subseteq Row
  BY DEF IInv, TypeOK, Row
<1>2. ASSUME NEW r, NEW ph, NEW n, ledger' = Abandoned(OpenRows(r, ph, n))
      PROVE  ledger' = ledger \/ \E x, y : Replaces(x, y)
  <2> DEFINE rows == OpenRows(r, ph, n)
  <2>1. \A x \in rows : x \in ledger /\ x.state = "reserved"
    BY DEF OpenRows, RowsOf
  <2>2. \A x, y \in rows : x = y
    BY DEF OpenRows, RowsOf, Booked
  <2> HIDE DEF rows
  <2>3. CASE rows = {}
    <3>1. ledger' = ledger
      BY <1>2, <2>3 DEF Abandoned, rows
    <3> QED
      BY <3>1
  <2>4. CASE rows # {}
    <3>1. PICK x : rows = {x}
      BY <2>2, <2>4
    <3> DEFINE y == [x EXCEPT !.state = "abandoned"]
    <3>2. x \in ledger /\ x \in Row /\ x.state = "reserved"
      BY <1>1, <2>1, <3>1
    <3>3. ledger' = (ledger \ {x}) \cup {y}
      BY <1>2, <3>1 DEF Abandoned, rows
    <3>4. /\ y \in Row /\ y.state # "reserved"
          /\ y.run = x.run /\ y.phase = x.phase /\ y.attempt = x.attempt /\ y.day = x.day
      BY <3>2 DEF Row
    <3> HIDE DEF y
    <3> QED
      BY <3>2, <3>3, <3>4 DEF Replaces
  <2> QED
    BY <2>3, <2>4
<1>3. ASSUME NEW x \in ledger, NEW n \in Actual, x.state = "reserved", ledger' = Settle(x, n)
      PROVE  \E z, y : Replaces(z, y)
  <2> DEFINE y == [x EXCEPT !.state = "settled", !.tokens = n]
  <2>1. x \in Row /\ n \in Nat
    BY <1>1, WorkerAssumption
  <2>2. /\ y \in Row /\ y.state # "reserved"
        /\ y.run = x.run /\ y.phase = x.phase /\ y.attempt = x.attempt /\ y.day = x.day
    BY <2>1 DEF Row
  <2>3. ledger' = (ledger \ {x}) \cup {y}
    BY <1>3 DEF Settle
  <2> HIDE DEF y
  <2> QED
    BY <1>3, <2>2, <2>3 DEF Replaces
<1> QED
  BY <1>2, <1>3, LedgerMoves

(* A reservation is a row of its own, within what is left of the ceilings.       *)
LEMMA ReservesRow ==
  ASSUME IInv, NEW w \in Worker, Reserves(w)
  PROVE  \E y \in Row :
            /\ ledger' = ledger \cup {y} /\ y \notin ledger /\ y.tokens = Estimate
            /\ \A x \in ledger :
                  ~(x.run = y.run /\ x.phase = y.phase /\ x.attempt = y.attempt)
            /\ y.day = day /\ y.state = "reserved"
            /\ ~(SpentForRun(y.run) + Estimate > RunCeiling)
            /\ ~(SpentForDay(y.day) + Estimate > DayCeiling)
<1> DEFINE y == [run |-> MyRun(w), phase |-> MyPhase(w), attempt |-> tick[w].attempt,
                 day |-> day, state |-> "reserved", tokens |-> Estimate]
<1>1. tick[w].at \in InPhase
  BY DEF Reserves, At, InPhase
<1>2. MyRun(w) \in Run /\ MyPhase(w) \in Phase
  BY <1>1, PhaseKnown
<1>3. tick[w].attempt \in Nat
  BY TickTypes DEF IInv
<1>4. day \in Nat /\ Estimate \in Nat
  BY WorkerAssumption DEF IInv, TypeOK
<1>5. y \in Row
  BY <1>2, <1>3, <1>4 DEF Row
<1>6. /\ ledger' = ledger \cup {y} /\ y.tokens = Estimate /\ y.run = MyRun(w)
      /\ y.phase = MyPhase(w) /\ y.attempt = tick[w].attempt /\ y.day = day
      /\ y.state = "reserved"
  BY DEF Reserves
<1> HIDE DEF y
<1>7. \A x \in ledger : ~(x.run = y.run /\ x.phase = y.phase /\ x.attempt = y.attempt)
  BY <1>6 DEF Reserves, Taken, RowsOf
<1>8. /\ ~(SpentForRun(y.run) + Estimate > RunCeiling)
      /\ ~(SpentForDay(y.day) + Estimate > DayCeiling)
  BY <1>6 DEF Reserves
<1> QED
  BY <1>5, <1>6, <1>7, <1>8

LEMMA BookedKept ==
  ASSUME IInv, Booked, Next
  PROVE  Booked'
<1>1. CASE ledger' = ledger
  BY <1>1 DEF Booked
<1>2. ASSUME NEW w \in Worker, Reserves(w) PROVE Booked'
  <2>1. PICK y \in Row :
          /\ ledger' = ledger \cup {y} /\ y.tokens = Estimate
          /\ \A x \in ledger : ~(x.run = y.run /\ x.phase = y.phase /\ x.attempt = y.attempt)
    BY <1>2, ReservesRow
  <2> QED
    BY <2>1 DEF Booked
<1>3. ASSUME NEW x, NEW y, Replaces(x, y) PROVE Booked'
  BY <1>3 DEF Booked, Replaces
<1> QED
  BY <1>1, <1>2, <1>3, LedgerReplaces

(* What the rows of a run, or of a day, spend beyond their ceiling was reported    *)
(* beyond their reservations.                                                  *)
Within(rows, ceiling) == Spent(rows) <= ceiling + Overrun(rows)

LEMMA CeilingKept ==
  ASSUME IInv, Booked, Next, NEW ceiling \in Nat, NEW M \in SUBSET Row,
         Within(ledger \cap M, ceiling),
         \A x, y \in Row : x.run = y.run /\ x.day = y.day => (x \in M <=> y \in M),
         \A w \in Worker, y \in M :
            Reserves(w) /\ y.run = MyRun(w) /\ y.day = day
               => ~(Spent(ledger \cap M) + Estimate > ceiling)
  PROVE  Within(ledger' \cap M, ceiling)
<1> DEFINE rows == ledger \cap M
<1>1. IsFiniteSet(rows) /\ \A z \in rows : z.tokens \in Nat
  <2>1. IsFiniteSet(ledger)
    BY DEF IInv
  <2>2. IsFiniteSet(rows)
    BY <2>1, FS_Subset
  <2>3. \A z \in Row : z.tokens \in Nat
    BY DEF Row
  <2> QED
    BY <2>2, <2>3
<1>2. CASE ledger' = ledger
  BY <1>2
<1>3. ASSUME NEW w \in Worker, Reserves(w) PROVE Within(ledger' \cap M, ceiling)
  <2>1. PICK y \in Row :
          ledger' = ledger \cup {y} /\ y \notin ledger /\ y.tokens = Estimate
            /\ y.run = MyRun(w) /\ y.day = day
    <3> DEFINE y == [run |-> MyRun(w), phase |-> MyPhase(w), attempt |-> tick[w].attempt,
                     day |-> day, state |-> "reserved", tokens |-> Estimate]
    <3>1. ledger' = ledger \cup {y} /\ y.run = MyRun(w)
      BY <1>3 DEF Reserves
    <3> HIDE DEF y
    <3>2. PICK z \in Row : ledger' = ledger \cup {z} /\ z \notin ledger
              /\ z.tokens = Estimate /\ z.day = day
      BY <1>3, ReservesRow
    <3>3. z = y
      BY <3>1, <3>2
    <3> QED
      BY <3>1, <3>2, <3>3
  <2>2. CASE y \notin M
    <3>1. ledger' \cap M = rows
      BY <2>1, <2>2
    <3> QED
      BY <3>1
  <2>3. CASE y \in M
    <3>1. ledger' \cap M = rows \cup {y} /\ y \notin rows
      BY <2>1, <2>3
    <3>2. ~(Spent(rows) + Estimate > ceiling)
      BY <1>3, <2>1, <2>3
    <3> HIDE DEF rows
    <3>3. Spent(rows) + Estimate <= ceiling
      BY <1>1, <3>2, SpentOne, WorkerAssumption
    <3>4. Spent(rows \cup {y}) <= ceiling + Overrun(rows \cup {y})
      BY <1>1, <2>1, <3>1, <3>3, CeilingAdd
    <3> QED
      BY <3>1, <3>4 DEF Within
  <2> QED
    BY <2>2, <2>3
<1>4. ASSUME NEW x, NEW y, Replaces(x, y) PROVE Within(ledger' \cap M, ceiling)
  <2>1. /\ x \in ledger /\ x \in Row /\ x.tokens = Estimate
        /\ y \in Row /\ x.run = y.run /\ x.day = y.day
        /\ ledger' = (ledger \ {x}) \cup {y} /\ y \notin ledger \ {x}
        /\ y.tokens \in Nat
    <3>1. x \in ledger /\ ledger \subseteq Row /\ y \in Row
      BY <1>4 DEF Replaces, IInv, TypeOK, Row
    <3>2. y.tokens \in Nat
      BY <3>1 DEF Row
    <3> QED
      BY <1>4, <3>1, <3>2 DEF Replaces, Booked
  <2>2. CASE x \in M
    <3>1. ledger' \cap M = (rows \ {x}) \cup {y} /\ x \in rows /\ y \notin rows \ {x}
      BY <2>1, <2>2
    <3> HIDE DEF rows
    <3>2. Spent((rows \ {x}) \cup {y}) <= ceiling + Overrun((rows \ {x}) \cup {y})
      <4>1. Spent(rows) <= ceiling + Overrun(rows)
        BY DEF Within, rows
      <4> QED
        BY <1>1, <2>1, <3>1, <4>1, CeilingReplace
    <3> QED
      BY <3>1, <3>2 DEF Within
  <2>3. CASE x \notin M
    <3>1. ledger' \cap M = rows
      BY <2>1, <2>3
    <3> QED
      BY <3>1
  <2> QED
    BY <2>2, <2>3
<1> QED
  BY <1>2, <1>3, <1>4, LedgerReplaces

LEMMA CeilingsInvariant ==
  Spec => [](IInv /\ Booked /\ SpendWithinCeilings)
<1>1. Init => Booked /\ SpendWithinCeilings
  <2> SUFFICES ASSUME Init PROVE Booked /\ SpendWithinCeilings
    OBVIOUS
  <2>1. \A S : S = {} => Spent(S) = 0 /\ Overrun(S) \in Nat
    BY SpentOne, FS_EmptySet
  <2>2. Booked
    BY DEF Init, Booked
  <2>3. ASSUME NEW S, S \subseteq ledger, NEW c \in Nat PROVE Spent(S) <= c + Overrun(S)
    <3>1. S = {}
      BY <2>3 DEF Init
    <3> QED
      BY <2>1, <3>1
  <2>4. SpendWithinCeilings
    BY <2>3, WorkerAssumption DEF SpendWithinCeilings
  <2> QED
    BY <2>2, <2>4
<1>2. IInv /\ Booked /\ SpendWithinCeilings /\ [Next]_vars => (Booked /\ SpendWithinCeilings)'
  <2> SUFFICES ASSUME IInv, Booked, SpendWithinCeilings, [Next]_vars
               PROVE  Booked' /\ SpendWithinCeilings'
    OBVIOUS
  <2>1. CASE Next
    <3>1. ledger \subseteq Row /\ ledger' \subseteq Row
      BY <2>1, LedgerTyped DEF IInv, TypeOK, Row
    <3>2. ASSUME NEW r \in Run
          PROVE  Within({x \in ledger' : x.run = r}, RunCeiling)
      <4> DEFINE M == {x \in Row : x.run = r}
      <4>1. ledger \cap M = {x \in ledger : x.run = r} /\ ledger' \cap M = {x \in ledger' : x.run = r}
        BY <3>1
      <4>2. Within(ledger \cap M, RunCeiling)
        BY <4>1 DEF SpendWithinCeilings, Within
      <4>3. \A x, y \in Row : x.run = y.run /\ x.day = y.day => (x \in M <=> y \in M)
        OBVIOUS
      <4>4. \A w \in Worker, y \in M :
               Reserves(w) /\ y.run = MyRun(w) /\ y.day = day
                  => ~(Spent(ledger \cap M) + Estimate > RunCeiling)
        BY <4>1 DEF Reserves, SpentForRun
      <4>5. RunCeiling \in Nat /\ M \in SUBSET Row
        BY WorkerAssumption
      <4> HIDE DEF M
      <4>6. Within(ledger' \cap M, RunCeiling)
        BY <2>1, <4>2, <4>3, <4>4, <4>5, CeilingKept
      <4> QED
        BY <4>1, <4>6
    <3>3. ASSUME NEW d \in 0..MaxDay
          PROVE  Within({x \in ledger' : x.day = d}, DayCeiling)
      <4> DEFINE M == {x \in Row : x.day = d}
      <4>1. ledger \cap M = {x \in ledger : x.day = d} /\ ledger' \cap M = {x \in ledger' : x.day = d}
        BY <3>1
      <4>2. Within(ledger \cap M, DayCeiling)
        BY <4>1 DEF SpendWithinCeilings, Within
      <4>3. \A x, y \in Row : x.run = y.run /\ x.day = y.day => (x \in M <=> y \in M)
        OBVIOUS
      <4>4. \A w \in Worker, y \in M :
               Reserves(w) /\ y.run = MyRun(w) /\ y.day = day
                  => ~(Spent(ledger \cap M) + Estimate > DayCeiling)
        BY <4>1 DEF Reserves, SpentForDay
      <4>5. DayCeiling \in Nat /\ M \in SUBSET Row
        BY WorkerAssumption
      <4> HIDE DEF M
      <4>6. Within(ledger' \cap M, DayCeiling)
        BY <2>1, <4>2, <4>3, <4>4, <4>5, CeilingKept
      <4> QED
        BY <4>1, <4>6
    <3>4. SpendWithinCeilings'
      BY <3>2, <3>3 DEF SpendWithinCeilings, Within
    <3> QED
      BY <2>1, <3>4, BookedKept
  <2>2. CASE UNCHANGED vars
    <3>1. ledger' = ledger
      BY <2>2 DEF vars, db
    <3> QED
      BY <3>1 DEF Booked, SpendWithinCeilings
  <2> QED
    BY <2>1, <2>2
<1> QED
  BY <1>1, <1>2, InitHolds, NextHolds, PTL DEF Spec

(* However many workers reserve at once, die, or settle late: the tokens reserved,  *)
(* settled and abandoned of a run and of a day stay within the ceilings, up to     *)
(* what providers report beyond their reservation.                              *)
THEOREM CeilingsHold ==
  Spec => []SpendWithinCeilings
BY CeilingsInvariant, PTL

===============================================================================
