--------------------------- MODULE FreewayProofs ---------------------------
(***************************************************************************)
(* Proofs about Freeway, for every graph and every number of workflows:    *)
(* what a task sees in its precursors is of one workflow, no raise passes  *)
(* it by, and it gives back what it held.                                  *)
(***************************************************************************)
EXTENDS Freeway, TLAPS, FiniteSetTheorems, SequenceTheorems, WellFoundedInduction

(* The order in which the dispatcher registers tasks.                      *)
Before(t, u) == t.flow < u.flow \/ (t.flow = u.flow /\ t.node < u.node)

Registered == {t \in Task : pc[t] # "absent"}
Locks(t) == precursors[t.node] \cup {t.node}

(* A pass numbers its tasks later than all earlier ones, and its tasks     *)
(* start when all of them are registered.                                  *)
PassInv ==
  /\ \A u \in toRegister : u.flow = workflowId
  /\ \A t \in Registered : t.flow <= workflowId
  /\ \A t \in Registered, u \in toRegister : Before(t, u)
  /\ \A t \in Registered, u \in toRegister : pc[t] # "dispatched" => u.flow # t.flow

(* The queue of a node holds the registered tasks that use the node, once  *)
(* and in order; the node's own tasks are the writers.                     *)
QueueInv ==
  /\ \A n \in Node : \A i \in DOMAIN waiters[n] :
       LET e == waiters[n][i]
       IN  e.task \in Registered /\ n \in Locks(e.task) /\ (e.IsWriter <=> e.task.node = n)
  /\ \A n \in Node : \A i, j \in DOMAIN waiters[n] :
       i < j => Before(waiters[n][i].task, waiters[n][j].task)
  /\ \A t \in Registered : \A n \in Locks(t) : \E i \in DOMAIN waiters[n] : waiters[n][i].task = t

(* Who is in or has left was admitted.  A task is in its own node while it *)
(* runs, and in a precursor only before it has passed it or put it off.    *)
GrantInv ==
  /\ \A t \in Task, n \in Node : <<t, n>> \in inside \cup left => Admitted(t, n)
  /\ \A t \in Task : pc[t] \in {"process", "precursors"} <=> <<t, t.node>> \in inside
  /\ \A t \in Task : pc[t] = "deferred" <=> <<t, t.node>> \in left
  /\ \A t \in Task : mWaited[t] # NoNode =>
       pc[t] = "process" /\ mWaited[t] \in precursors[t.node]

DeferInv ==
  /\ \A t \in Task, p \in Node : <<t, p>> \in mDeferred => p \in precursors[t.node]
  /\ \A t \in Task : \A p \in precursors[t.node] : <<t, p>> \in left \cup mDeferred =>
       pc[t] \in {"precursors", "deferred"} /\ <<t, p>> \notin inside
  /\ \A t \in Task : pc[t] = "deferred" =>
       \A p \in precursors[t.node] : <<t, p>> \in left \cup mDeferred

(* Values are stored by tasks that run, and seen by tasks that are in.     *)
DataInv ==
  /\ \A t \in stored : pc[t] \in {"precursors", "deferred"}
  /\ \A t \in Task, p \in Node : got[<<t, p>>] # -1 =>
       p \in precursors[t.node] /\ <<t, p>> \in inside \cup left
  /\ Consistent

(* The precursors of a task that have still to decide in its workflow.     *)
Undecided(t, p) ==
  \E u \in Of(t.flow, {p}) : pc[u] \notin {"absent", "deferred"} \/ u \in toRegister
CountInv ==
  \A t \in Registered \cup toRegister :
    mWaitingLockCount[t] = Cardinality({p \in precursors[t.node] : Undecided(t, p)})

RaiseInv ==
  /\ onRaised \subseteq mIsAcceptTrigger
  /\ \A t \in Task : pc[t] = "process" => t \in mIsAcceptTrigger
  /\ \A t \in Task : pc[t] \in {"precursors", "deferred"} /\ t \notin mIsAcceptTrigger =>
       \A p \in precursors[t.node] : ~Undecided(t, p)

(* The inductive invariant.                                                *)
FreewayInv ==
  /\ TypeOK /\ PassInv /\ QueueInv /\ GrantInv /\ DeferInv /\ DataInv /\ CountInv /\ RaiseInv
-----------------------------------------------------------------------------
(* Tasks, nodes and queues.                                                *)

(* A task is its workflow and its node, and has precursors before it.      *)
LEMMA TaskFacts ==
  ASSUME TypeOK
  PROVE  /\ \A t \in Task : t.flow \in 1..MaxWorkflow /\ t.node \in Node
         /\ \A t \in Task : t.flow \in Nat /\ t.node \in Nat
         /\ \A t, u \in Task : t.flow = u.flow /\ t.node = u.node => t = u
         /\ \A n \in Node : n \in Nat /\ precursors[n] \subseteq Node
         /\ \A n \in Node : \A p \in precursors[n] : p < n
         /\ \A t \in Task : precursors[t.node] \subseteq Node /\ Locks(t) \subseteq Node
         /\ \A t \in Task : t.node \notin precursors[t.node]
<1>1. /\ \A t \in Task : t.flow \in 1..MaxWorkflow /\ t.node \in Node
      /\ \A t \in Task : t = [flow |-> t.flow, node |-> t.node]
  BY DEF Task
<1>2. Node \subseteq Nat /\ 1..MaxWorkflow \subseteq Nat
  BY ConstantsAssumption DEF Node
<1>3. \A n \in Node : precursors[n] \subseteq Node /\ \A p \in precursors[n] : p < n
  BY DEF TypeOK, Graphs
<1>4. \A t, u \in Task : t.flow = u.flow /\ t.node = u.node => t = u
  BY <1>1
<1>5. \A t \in Task : t.node \notin precursors[t.node]
  BY <1>1, <1>2, <1>3
<1>6. QED
  BY <1>1, <1>2, <1>3, <1>4, <1>5 DEF Locks

(* The entries of a queue.                                                 *)
LEMMA QueueFacts ==
  ASSUME TypeOK, NEW n \in Node
  PROVE  /\ DOMAIN waiters[n] = 1..Len(waiters[n]) /\ Len(waiters[n]) \in Nat
         /\ \A i \in DOMAIN waiters[n] : waiters[n][i].task \in Task /\ i \in Nat
<1>1. waiters[n] \in Seq([task : Task, IsWriter : BOOLEAN])
  BY DEF TypeOK
<1>2. /\ waiters[n] \in [1..Len(waiters[n]) -> [task : Task, IsWriter : BOOLEAN]]
      /\ Len(waiters[n]) \in Nat
  BY <1>1, LenProperties
<1>3. \A i \in 1..Len(waiters[n]) : waiters[n][i] \in [task : Task, IsWriter : BOOLEAN]
  BY <1>2
<1>4. \A i \in 1..Len(waiters[n]) : waiters[n][i].task \in Task
  BY <1>3
<1>5. QED
  BY <1>2, <1>4

(* The members of Of.                                                      *)
LEMMA OfOne ==
  ASSUME NEW f, NEW p, NEW u
  PROVE  u \in Of(f, {p}) <=> u = [flow |-> f, node |-> p]
BY DEF Of

(* Before is a strict order on tasks.                                      *)
LEMMA BeforeOrder ==
  ASSUME TypeOK
  PROVE  /\ \A t \in Task : ~Before(t, t)
         /\ \A t, u \in Task : Before(t, u) => ~Before(u, t)
         /\ \A t, u \in Task : t # u => Before(t, u) \/ Before(u, t)
         /\ \A t, u, v \in Task : Before(t, u) /\ Before(u, v) => Before(t, v)
<1>1. /\ \A t \in Task : t.flow \in Nat /\ t.node \in Nat
      /\ \A t, u \in Task : t.flow = u.flow /\ t.node = u.node => t = u
  BY TaskFacts
<1>2. \A t \in Task : ~Before(t, t)
  BY <1>1 DEF Before
<1>3. \A t, u \in Task : Before(t, u) => ~Before(u, t)
  BY <1>1 DEF Before
<1>4. \A t, u \in Task : t # u => Before(t, u) \/ Before(u, t)
  BY <1>1 DEF Before
<1>5. \A t, u, v \in Task : Before(t, u) /\ Before(u, v) => Before(t, v)
  BY <1>1 DEF Before
<1>6. QED
  BY <1>2, <1>3, <1>4, <1>5

(* Nothing of a pass is registered twice.                                  *)
LEMMA PendingAbsent ==
  ASSUME TypeOK, PassInv
  PROVE  \A u \in toRegister : u \in Task /\ pc[u] = "absent"
<1>1. toRegister \subseteq Task
  BY DEF TypeOK
<1>2. \A u \in toRegister : u \notin Registered
  BY <1>1, BeforeOrder DEF PassInv
<1>3. QED
  BY <1>1, <1>2 DEF Registered

(* Queue entries in front of one another belong to tasks registered        *)
(* earlier, so a task is in a queue once.                                  *)
LEMMA QueueOrder ==
  ASSUME TypeOK, QueueInv, NEW n \in Node, NEW i \in DOMAIN waiters[n], NEW j \in DOMAIN waiters[n]
  PROVE  Before(waiters[n][i].task, waiters[n][j].task) <=> i < j
<1>1. i \in Nat /\ j \in Nat /\ waiters[n][i].task \in Task /\ waiters[n][j].task \in Task
  BY QueueFacts
<1>2. CASE i < j
  BY <1>2 DEF QueueInv
<1>3. CASE j < i
  BY <1>1, <1>3, BeforeOrder DEF QueueInv
<1>4. CASE i = j
  BY <1>1, <1>4, BeforeOrder
<1>5. QED
  BY <1>1, <1>2, <1>3, <1>4

(* What admits a task to a node: every task registered before it that uses *)
(* the node and conflicts with it has left.                                *)
LEMMA AdmittedSays ==
  ASSUME TypeOK, QueueInv, NEW t \in Task, NEW n \in Node, Admitted(t, n)
  PROVE  /\ t \in Registered /\ n \in Locks(t)
         /\ \A u \in Registered :
              Before(u, t) /\ n \in Locks(u) /\ (t.node = n \/ u.node = n) => <<u, n>> \in left
<1>1. PICK i \in DOMAIN waiters[n] :
        /\ waiters[n][i].task = t
        /\ \A j \in 1..(i - 1) :
             waiters[n][i].IsWriter \/ waiters[n][j].IsWriter => <<waiters[n][j].task, n>> \in left
  BY DEF Admitted
<1>2. t \in Registered /\ n \in Locks(t) /\ (waiters[n][i].IsWriter <=> t.node = n)
  BY <1>1 DEF QueueInv
<1>3. ASSUME NEW u \in Registered, Before(u, t), n \in Locks(u), t.node = n \/ u.node = n
      PROVE  <<u, n>> \in left
  <2>1. PICK j \in DOMAIN waiters[n] : waiters[n][j].task = u
    BY <1>3 DEF QueueInv
  <2>2. j < i
    BY <1>1, <1>3, <2>1, QueueOrder
  <2>3. j \in 1..(i - 1)
    BY <2>2, QueueFacts
  <2>4. waiters[n][j].IsWriter <=> u.node = n
    BY <2>1 DEF QueueInv
  <2>5. QED
    BY <1>1, <1>2, <1>3, <2>1, <2>3, <2>4
<1>4. QED
  BY <1>2, <1>3

(* What was admitted stays admitted: queues grow at the end, and what has  *)
(* left has left.                                                          *)
LEMMA AdmittedStays ==
  ASSUME left \subseteq left', NEW t, NEW n,
         \A i \in DOMAIN waiters[n] : i \in DOMAIN waiters'[n] /\ waiters'[n][i] = waiters[n][i],
         DOMAIN waiters[n] = 1..Len(waiters[n]), Len(waiters[n]) \in Nat,
         Admitted(t, n)
  PROVE  Admitted(t, n)'
<1>1. PICK i \in DOMAIN waiters[n] :
        /\ waiters[n][i].task = t
        /\ \A j \in 1..(i - 1) :
             waiters[n][i].IsWriter \/ waiters[n][j].IsWriter => <<waiters[n][j].task, n>> \in left
  BY DEF Admitted
<1>2. \A j \in 1..(i - 1) : j \in DOMAIN waiters[n]
  OBVIOUS
<1>3. i \in DOMAIN waiters'[n] /\ waiters'[n][i].task = t
  BY <1>1
<1>4. \A j \in 1..(i - 1) :
        waiters'[n][i].IsWriter \/ waiters'[n][j].IsWriter => <<waiters'[n][j].task, n>> \in left'
  BY <1>1, <1>2
<1>5. QED
  BY <1>3, <1>4 DEF Admitted

-----------------------------------------------------------------------------
(* The nodes that a raise reaches.                                         *)

(* Natural numbers are well founded.                                       *)
LEMMA LeastMember ==
  ASSUME NEW T, T \subseteq Nat, T # {}
  PROVE  \E m \in T : \A k \in T : m <= k
<1>1. \E m \in T : \A k \in T : ~(<<k, m>> \in OpToRel(<, Nat))
  BY NatLessThanWellFounded, WFMin
<1>2. PICK m \in T : \A k \in T : ~(<<k, m>> \in OpToRel(<, Nat))
  BY <1>1
<1>3. \A k \in T : <<k, m>> \in Nat \X Nat
  OBVIOUS
<1>4. \A k \in T : ~(k < m)
  BY <1>2, <1>3 DEF OpToRel
<1>5. QED
  BY <1>4

(* The sets that grow to Reached, for n steps along the edges.             *)
Grows(from, n, g) ==
  g = [k \in 0..n |-> IF k = 0 THEN from ELSE g[k - 1] \cup Successors(g[k - 1])]

(* They are well defined.                                                  *)
LEMMA GrowExists ==
  ASSUME NEW from, NEW n \in Nat
  PROVE  \E g : Grows(from, n, g)
<1> DEFINE Bad == {m \in Nat : ~ \E g : Grows(from, m, g)}
<1>1. CASE Bad = {}
  BY <1>1
<1>2. CASE Bad # {}
  <2>1. PICK m \in Bad : \A k \in Bad : m <= k
    BY <1>2, LeastMember
  <2>2. m # 0
    <3>1. Grows(from, 0, [k \in 0..0 |-> from])
      BY DEF Grows
    <3>2. QED
      BY <3>1
  <2>3. m - 1 \in Nat /\ m - 1 \notin Bad
    <3>1. m \in Nat
      BY <2>1
    <3>2. m - 1 \in Nat /\ ~(m <= m - 1)
      BY <3>1, <2>2
    <3> HIDE DEF Bad
    <3>3. QED
      BY <3>2, <2>1
  <2>4. PICK g : Grows(from, m - 1, g)
    BY <2>3
  <2> DEFINE h == [k \in 0..m |-> IF k = m THEN g[m - 1] \cup Successors(g[m - 1]) ELSE g[k]]
  <2>5. \A k \in 0..(m - 1) :
          g[k] = IF k = 0 THEN from ELSE g[k - 1] \cup Successors(g[k - 1])
    BY <2>4 DEF Grows
  <2>6. \A k \in 0..(m - 1) : h[k] = g[k]
    BY <2>3
  <2>7. h[m] = h[m - 1] \cup Successors(h[m - 1])
    BY <2>3, <2>6
  <2>8. \A k \in 0..m :
          h[k] = IF k = 0 THEN from ELSE h[k - 1] \cup Successors(h[k - 1])
    <3>1. TAKE k \in 0..m
    <3>2. CASE k = m
      BY <2>2, <2>7, <3>2
    <3>3. CASE k # m
      <4>1. k \in 0..(m - 1)
        BY <3>3, <2>3
      <4>2. CASE k = 0
        BY <4>1, <4>2, <2>5, <2>6
      <4>3. CASE k # 0
        <5>1. k - 1 \in 0..(m - 1)
          BY <4>1, <4>3, <2>3
        <5>2. h[k - 1] = g[k - 1] /\ h[k] = g[k]
          BY <4>1, <5>1, <2>6
        <5>3. g[k] = g[k - 1] \cup Successors(g[k - 1])
          BY <2>5, <4>1, <4>3
        <5>4. QED
          BY <5>2, <5>3, <4>3
      <4>4. QED
        BY <4>2, <4>3
    <3>4. QED
      BY <3>2, <3>3
  <2> HIDE DEF h
  <2>9. h = [k \in 0..m |-> h[k]]
    BY DEF h
  <2>10. Grows(from, m, h)
    BY <2>8, <2>9 DEF Grows
  <2>11. QED
    BY <2>1, <2>10
<1>3. QED
  BY <1>1, <1>2

(* A raise of nodes reaches nodes.                                         *)
LEMMA ReachedNodes ==
  ASSUME TypeOK, NEW from \in SUBSET Node
  PROVE  Reached(from) \subseteq Node
<1> DEFINE grow == CHOOSE g : Grows(from, NodeCount, g)
           Bad == {k \in 0..NodeCount : ~(grow[k] \subseteq Node)}
<1>1. Grows(from, NodeCount, grow)
  BY GrowExists, ConstantsAssumption
<1>2. Reached(from) = grow[NodeCount]
  BY DEF Reached, Grows
<1> HIDE DEF grow
<1>3. CASE Bad = {}
  BY <1>2, <1>3, ConstantsAssumption
<1>4. CASE Bad # {}
  <2>1. Bad \subseteq Nat
    BY ConstantsAssumption
  <2>2. PICK m \in Bad : \A k \in Bad : m <= k
    BY <1>4, <2>1, LeastMember
  <2>3. m # 0
    BY <1>1, <2>2 DEF Grows
  <2>4. m - 1 \in 0..NodeCount /\ m - 1 \notin Bad
    BY <2>1, <2>2, <2>3, ConstantsAssumption
  <2>5. grow[m] = grow[m - 1] \cup Successors(grow[m - 1])
    BY <1>1, <2>2, <2>3 DEF Grows
  <2>6. Successors(grow[m - 1]) \subseteq Node
    BY DEF Successors
  <2>7. grow[m] \subseteq Node
    BY <2>4, <2>5, <2>6
  <2>8. QED
    BY <2>2, <2>7
<1>5. QED
  BY <1>3, <1>4
-----------------------------------------------------------------------------
(* What a step of a task leaves as it is.                                  *)

(* Queues that are left alone keep their order, and what was admitted.     *)
LEMMA SameQueues ==
  ASSUME TypeOK, PassInv, QueueInv, passVars' = passVars, Registered' = Registered,
         left \subseteq left',
         \A t \in Task : pc[t] = "dispatched" /\ pc'[t] # "dispatched" =>
           \A u \in toRegister : u.flow # t.flow
  PROVE  /\ PassInv' /\ QueueInv'
         /\ \A t \in Task, n \in Node : Admitted(t, n) => Admitted(t, n)'
<1>1. /\ precursors' = precursors /\ workflowId' = workflowId /\ toRegister' = toRegister
      /\ waiters' = waiters
  BY DEF passVars
<1>2. Registered \subseteq Task
  BY DEF Registered
<1>3. PassInv'
  BY <1>1, <1>2 DEF PassInv, Before
<1>4. \A t : Locks(t)' = Locks(t)
  BY <1>1 DEF Locks
<1>5. QueueInv'
  BY <1>1, <1>4 DEF QueueInv, Before
<1>6. ASSUME NEW t \in Task, NEW n \in Node, Admitted(t, n)
      PROVE  Admitted(t, n)'
  <2>1. DOMAIN waiters[n] = 1..Len(waiters[n]) /\ Len(waiters[n]) \in Nat
    BY QueueFacts
  <2>2. \A i \in DOMAIN waiters[n] : i \in DOMAIN waiters'[n] /\ waiters'[n][i] = waiters[n][i]
    BY <1>1
  <2>3. QED
    BY <1>6, <2>1, <2>2, AdmittedStays
<1>7. QED
  BY <1>3, <1>5, <1>6

(* While no task decides, none of the counts is wrong.                     *)
LEMMA SameDecisions ==
  ASSUME TypeOK, CountInv, passVars' = passVars, mWaitingLockCount' = mWaitingLockCount,
         Registered' = Registered,
         \A u \in Task : pc'[u] \in {"absent", "deferred"} <=> pc[u] \in {"absent", "deferred"}
  PROVE  /\ CountInv'
         /\ \A t \in Task : \A p \in Node : Undecided(t, p)' <=> Undecided(t, p)
<1>1. precursors' = precursors /\ toRegister' = toRegister
  BY DEF passVars
<1>2. \A t \in Task, p \in Node : [flow |-> t.flow, node |-> p] \in Task
  BY DEF Task
<1>3. ASSUME NEW t \in Task, NEW p \in Node
      PROVE  Undecided(t, p)' <=> Undecided(t, p)
  <2> DEFINE u == [flow |-> t.flow, node |-> p]
  <2>1. u \in Task /\ \A v : v \in Of(t.flow, {p}) <=> v = u
    BY <1>2, OfOne
  <2> HIDE DEF u
  <2>2. Undecided(t, p) <=> pc[u] \notin {"absent", "deferred"} \/ u \in toRegister
    BY <2>1 DEF Undecided
  <2>3. Undecided(t, p)' <=> pc'[u] \notin {"absent", "deferred"} \/ u \in toRegister'
    BY <2>1 DEF Undecided
  <2>4. QED
    BY <1>1, <2>1, <2>2, <2>3
<1>4. Registered \cup toRegister \subseteq Task
  BY DEF Registered, TypeOK
<1>5. ASSUME NEW t \in Registered \cup toRegister
      PROVE  mWaitingLockCount'[t] = Cardinality({p \in precursors'[t.node] : Undecided(t, p)'})
  <2>1. t \in Task /\ precursors[t.node] \subseteq Node
    BY <1>4, TaskFacts
  <2>2. {p \in precursors'[t.node] : Undecided(t, p)'} = {p \in precursors[t.node] : Undecided(t, p)}
    BY <1>1, <1>3, <2>1
  <2>3. mWaitingLockCount[t] = Cardinality({p \in precursors[t.node] : Undecided(t, p)})
    BY DEF CountInv
  <2>4. QED
    BY <2>2, <2>3
<1>6. CountInv'
  BY <1>1, <1>5 DEF CountInv
<1>7. QED
  BY <1>3, <1>6

(* Sets of precursors are finite, so a task that counts none has none.     *)
LEMMA CountFacts ==
  ASSUME TypeOK, NEW t \in Task, NEW S, S \subseteq precursors[t.node]
  PROVE  /\ IsFiniteSet(S) /\ Cardinality(S) \in 0..NodeCount
         /\ Cardinality(S) = 0 => S = {}
<1>1. NodeCount \in Nat
  BY ConstantsAssumption
<1>2. IsFiniteSet(Node) /\ Cardinality(Node) = NodeCount
  BY <1>1, FS_Interval DEF Node
<1>3. S \subseteq Node
  BY TaskFacts
<1>4. IsFiniteSet(S) /\ Cardinality(S) <= NodeCount
  BY <1>2, <1>3, FS_Subset
<1>5. Cardinality(S) \in Nat
  BY <1>4, FS_CardinalityType
<1>6. Cardinality(S) = 0 => S = {}
  BY <1>4, FS_EmptySet
<1>7. QED
  BY <1>1, <1>4, <1>5, <1>6

(* One member less.                                                        *)
LEMMA OneLess ==
  ASSUME NEW S, IsFiniteSet(S), NEW x \in S, NEW L, L = S \ {x}
  PROVE  Cardinality(L) = Cardinality(S) - 1
BY FS_RemoveElement

(* The last stored value is a stored one, and none is later.               *)
LEMMA LastStoredFacts ==
  ASSUME TypeOK, NEW n \in Node
  PROVE  /\ LastStored(n) \in 0..MaxWorkflow
         /\ \A u \in stored : u.node = n => u.flow <= LastStored(n)
         /\ LastStored(n) # 0 => \E u \in stored : u.node = n /\ u.flow = LastStored(n)
<1> DEFINE flows == {t.flow : t \in {u \in stored : u.node = n}}
<1>1. stored \subseteq Task /\ MaxWorkflow \in Nat
  BY ConstantsAssumption DEF TypeOK
<1>2. flows \subseteq 1..MaxWorkflow
  BY <1>1, TaskFacts
<1>3. LastStored(n) = IF flows = {} THEN 0 ELSE CHOOSE f \in flows : \A g \in flows : g <= f
  BY DEF LastStored
<1>4. CASE flows = {}
  BY <1>1, <1>3, <1>4
<1>5. CASE flows # {}
  <2> DEFINE gaps == {MaxWorkflow - f : f \in flows}
  <2>1. gaps \subseteq Nat /\ gaps # {}
    BY <1>1, <1>2, <1>5
  <2>2. PICK g \in gaps : \A h \in gaps : g <= h
    BY <2>1, LeastMember
  <2>3. PICK f \in flows : g = MaxWorkflow - f
    BY <2>2
  <2>4. \A h \in flows : MaxWorkflow - f <= MaxWorkflow - h
    BY <2>2, <2>3
  <2>5. \A h \in flows : h <= f
    <3>1. TAKE h \in flows
    <3>2. h \in Nat /\ f \in Nat /\ MaxWorkflow - f <= MaxWorkflow - h
      BY <1>2, <2>4
    <3>3. QED
      BY <1>1, <3>2
  <2> HIDE DEF flows
  <2>6. LastStored(n) \in flows /\ \A h \in flows : h <= LastStored(n)
    BY <1>3, <1>5, <2>5
  <2> USE DEF flows
  <2>7. QED
    BY <1>1, <1>2, <2>6
<1>6. QED
  BY <1>4, <1>5
-----------------------------------------------------------------------------
(* The invariant, one lemma per action.                                    *)

(* Nothing is registered at the start.                                     *)
LEMMA InitFreeway == Init => FreewayInv
<1> SUFFICES ASSUME Init PROVE FreewayInv
  OBVIOUS
<1>1. TypeOK
  <2>1. 0 \in 0..MaxWorkflow /\ 0 \in 0..NodeCount /\ -1 \in -1..MaxWorkflow
    BY ConstantsAssumption
  <2>2. \A n \in Node : waiters[n] = <<>> /\ waiters[n] \in Seq([task : Task, IsWriter : BOOLEAN])
    BY DEF Init
  <2>3. QED
    BY <2>1, <2>2 DEF Init, TypeOK
<1>2. /\ toRegister = {} /\ inside = {} /\ left = {} /\ mDeferred = {} /\ stored = {}
      /\ onRaised = {} /\ Registered = {}
      /\ \A t \in Task : pc[t] = "absent" /\ mWaited[t] = NoNode
      /\ \A t \in Task, p \in Node : got[<<t, p>>] = -1
      /\ \A n \in Node : DOMAIN waiters[n] = {}
  BY DEF Init, Registered
<1>3. PassInv
  BY <1>2 DEF PassInv
<1>4. QueueInv
  BY <1>2 DEF QueueInv
<1>5. GrantInv
  BY <1>2 DEF GrantInv
<1>6. DeferInv
  BY <1>2 DEF DeferInv
<1>7. DataInv
  BY <1>2 DEF DataInv, Consistent
<1>8. CountInv
  BY <1>2 DEF CountInv
<1>9. RaiseInv
  BY <1>2 DEF RaiseInv
<1>10. QED
  BY <1>1, <1>3, <1>4, <1>5, <1>6, <1>7, <1>8, <1>9 DEF FreewayInv

(* The own lock is taken by a task that nothing before it holds up; one    *)
(* that goes by unaccepted has no precursor left to decide.                *)
LEMMA WaitLockStep ==
  ASSUME FreewayInv, NEW t \in Task, WaitLock(t)
  PROVE  FreewayInv'
<1> USE DEF FreewayInv
<1>0. /\ pc[t] = "dispatched" /\ \A u \in toRegister : u.flow # t.flow
      /\ IsSchedulable(t) /\ Admitted(t, t.node)
      /\ inside' = inside \cup {<<t, t.node>>}
      /\ UNCHANGED <<passVars, precursors, toRegister, mIsAcceptTrigger, mWaitingLockCount,
                     mWaited, mResult, mDeferred, left, stored, got, onRaised>>
      /\ pc' \in [Task -> {"absent", "dispatched", "process", "precursors", "deferred"}]
      /\ \A u \in Task : pc'[u] = IF u # t THEN pc[u]
                                  ELSE IF t \in mIsAcceptTrigger THEN "process" ELSE "precursors"
  BY DEF WaitLock, TypeOK, dataVars, passVars
<1>1. TypeOK'
  <2>1. t.node \in Node
    BY TaskFacts
  <2>2. inside' \subseteq Task \X Node
    BY <1>0, <2>1 DEF TypeOK
  <2>3. QED
    BY <1>0, <2>2 DEF TypeOK, passVars
<1>2. Registered' = Registered
  BY <1>0 DEF Registered
<1>3. PassInv' /\ QueueInv' /\ \A u \in Task, n \in Node : Admitted(u, n) => Admitted(u, n)'
  BY <1>0, <1>2, SameQueues
<1>4. CountInv' /\ \A u \in Task : \A p \in Node : Undecided(u, p)' <=> Undecided(u, p)
  BY <1>0, <1>2, SameDecisions
<1>5. GrantInv'
  BY <1>0, <1>3, TaskFacts DEF GrantInv
<1>6. DeferInv'
  BY <1>0, TaskFacts DEF DeferInv
<1>7. DataInv'
  <2>1. Consistent'
    BY <1>0 DEF DataInv, Consistent
  <2>2. \A u \in stored : pc'[u] \in {"precursors", "deferred"}
    BY <1>0 DEF DataInv, TypeOK
  <2>3. QED
    BY <1>0, <2>1, <2>2 DEF DataInv
<1>8. RaiseInv'
  <2>1. ASSUME t \notin mIsAcceptTrigger
        PROVE  \A p \in precursors[t.node] : ~Undecided(t, p)
    <3>1. t \in Registered /\ mWaitingLockCount[t] = 0
      BY <1>0, <2>1 DEF IsSchedulable, Registered
    <3>2. Cardinality({p \in precursors[t.node] : Undecided(t, p)}) = 0
      BY <3>1 DEF CountInv
    <3>3. {p \in precursors[t.node] : Undecided(t, p)} = {}
      BY <3>2, CountFacts
    <3>4. QED
      BY <3>3
  <2>2. \A u \in Task : precursors[u.node] \subseteq Node
    BY TaskFacts
  <2>3. QED
    BY <1>0, <1>4, <2>1, <2>2 DEF RaiseInv
<1>9. QED
  BY <1>1, <1>3, <1>4, <1>5, <1>6, <1>7, <1>8

(* A task that waits for a shared lock does nothing else.                  *)
LEMMA WaitSharedLockStep ==
  ASSUME FreewayInv, NEW t \in Task, NEW p \in Node, WaitSharedLock(t, p)
  PROVE  FreewayInv'
<1> USE DEF FreewayInv
<1>0. /\ pc[t] = "process" /\ p \in precursors[t.node]
      /\ UNCHANGED <<passVars, precursors, toRegister, pc, mIsAcceptTrigger, mWaitingLockCount,
                     mResult, mDeferred, inside, left, stored, got, onRaised>>
      /\ mWaited' \in [Task -> Node \cup {NoNode}]
      /\ \A u \in Task : mWaited'[u] = IF u = t THEN p ELSE mWaited[u]
  BY DEF WaitSharedLock, TypeOK, dataVars, passVars, lockVars
<1>1. TypeOK'
  BY <1>0 DEF TypeOK, passVars
<1>2. Registered' = Registered
  BY <1>0 DEF Registered
<1>3. PassInv' /\ QueueInv' /\ \A u \in Task, n \in Node : Admitted(u, n) => Admitted(u, n)'
  BY <1>0, <1>2, SameQueues
<1>4. CountInv' /\ \A u \in Task : \A q \in Node : Undecided(u, q)' <=> Undecided(u, q)
  BY <1>0, <1>2, SameDecisions
<1>5. GrantInv'
  BY <1>0, <1>3 DEF GrantInv
<1>6. DeferInv'
  BY <1>0 DEF DeferInv
<1>7. DataInv'
  <2>1. Consistent'
    BY <1>0 DEF DataInv, Consistent
  <2>2. \A u \in stored : pc'[u] \in {"precursors", "deferred"}
    BY <1>0 DEF DataInv, TypeOK
  <2>3. QED
    BY <1>0, <2>1, <2>2 DEF DataInv
<1>8. RaiseInv'
  BY <1>0, <1>4, TaskFacts DEF RaiseInv
<1>9. QED
  BY <1>1, <1>3, <1>4, <1>5, <1>6, <1>7, <1>8

(* The value a task sees is the last one of the workflows up to its own:   *)
(* a later writer would have waited for the task to leave.                 *)
LEMMA ReadStep ==
  ASSUME FreewayInv, NEW t \in Task, NEW p \in Node, Read(t, p)
  PROVE  FreewayInv'
<1> USE DEF FreewayInv
<1>0. /\ mWaited[t] = p /\ Admitted(t, p)
      /\ inside' = inside \cup {<<t, p>>}
      /\ UNCHANGED <<passVars, precursors, toRegister, pc, mIsAcceptTrigger, mWaitingLockCount,
                     mResult, mDeferred, left, stored, onRaised>>
      /\ mWaited' \in [Task -> Node \cup {NoNode}]
      /\ \A u \in Task : mWaited'[u] = IF u = t THEN NoNode ELSE mWaited[u]
      /\ \A u \in Task, q \in Node :
           got'[<<u, q>>] = IF u = t /\ q = p THEN LastStored(p) ELSE got[<<u, q>>]
  BY DEF Read, TypeOK, passVars
<1>01. pc[t] = "process" /\ p \in precursors[t.node] /\ p # t.node
  <2>1. mWaited[t] # NoNode
    BY <1>0, TaskFacts DEF Node, NoNode
  <2>2. QED
    BY <1>0, <2>1, TaskFacts DEF GrantInv
<1>1. TypeOK'
  <2>1. LastStored(p) \in -1..MaxWorkflow
    BY LastStoredFacts, ConstantsAssumption
  <2>2. got' \in [Task \X Node -> -1..MaxWorkflow]
    BY <2>1 DEF Read, TypeOK
  <2>3. inside' \subseteq Task \X Node
    BY <1>0 DEF TypeOK
  <2>4. QED
    BY <1>0, <2>2, <2>3 DEF TypeOK, passVars
<1>2. Registered' = Registered
  BY <1>0 DEF Registered
<1>3. PassInv' /\ QueueInv' /\ \A u \in Task, n \in Node : Admitted(u, n) => Admitted(u, n)'
  BY <1>0, <1>2, SameQueues
<1>4. CountInv' /\ \A u \in Task : \A q \in Node : Undecided(u, q)' <=> Undecided(u, q)
  BY <1>0, <1>2, SameDecisions
<1>5. GrantInv'
  BY <1>0, <1>01, <1>3 DEF GrantInv
<1>6. DeferInv'
  BY <1>0, <1>01 DEF DeferInv
<1>7. DataInv'
  <2>1. LastStored(p) <= t.flow
    <3>1. CASE LastStored(p) = 0
      BY <3>1, TaskFacts
    <3>2. CASE LastStored(p) # 0
      <4>1. PICK u \in stored : u.node = p /\ u.flow = LastStored(p)
        BY <3>2, LastStoredFacts
      <4>2. u \in Task /\ <<u, p>> \in inside \cup left
        BY <4>1 DEF DataInv, GrantInv, TypeOK
      <4>3. Admitted(u, p)
        BY <4>2 DEF GrantInv
      <4>4. t \in Registered /\ p \in Locks(t) /\ p \in Locks(u)
        BY <1>01, <4>1 DEF Registered, Locks
      <4>5. <<t, p>> \notin left
        BY <1>01 DEF DeferInv
      <4>6. ~Before(t, u)
        BY <4>1, <4>2, <4>3, <4>4, <4>5, AdmittedSays
      <4>7. QED
        BY <4>1, <4>2, <4>6, TaskFacts DEF Before
    <3>3. QED
      BY <3>1, <3>2
  <2>2. \A u \in stored : u.node = p => u.flow <= LastStored(p)
    BY LastStoredFacts
  <2>3. ASSUME NEW u \in Task, NEW q \in Node, got'[<<u, q>>] # -1
        PROVE  /\ got'[<<u, q>>] <= u.flow
               /\ \A v \in stored : v.node = q /\ v.flow <= u.flow => v.flow <= got'[<<u, q>>]
    <3>1. CASE u = t /\ q = p
      BY <1>0, <2>1, <2>2, <3>1
    <3>2. CASE ~(u = t /\ q = p)
      <4>1. got'[<<u, q>>] = got[<<u, q>>]
        BY <1>0, <3>2
      <4>2. QED
        BY <2>3, <4>1 DEF DataInv, Consistent
    <3>3. QED
      BY <3>1, <3>2
  <2>30. Consistent'
    BY <1>0, <2>3 DEF Consistent
  <2>4. QED
    BY <1>0, <1>01, <2>30 DEF DataInv
<1>8. RaiseInv'
  BY <1>0, <1>4, TaskFacts DEF RaiseInv
<1>9. QED
  BY <1>1, <1>3, <1>4, <1>5, <1>6, <1>7, <1>8

(* Storing a value changes nothing for a task that has already seen one:   *)
(* a task of the node registered before it would have left.                *)
LEMMA ProcessStep ==
  ASSUME FreewayInv, NEW t \in Task, Process(t)
  PROVE  FreewayInv'
<1> USE DEF FreewayInv
<1>0. /\ pc[t] = "process" /\ mWaited[t] = NoNode
      /\ stored' \subseteq stored \cup {t} /\ mResult' \subseteq mResult \cup {t}
      /\ UNCHANGED <<passVars, precursors, toRegister, mIsAcceptTrigger, mWaitingLockCount, mWaited,
                     mDeferred, inside, left, got, onRaised>>
      /\ pc' \in [Task -> {"absent", "dispatched", "process", "precursors", "deferred"}]
      /\ \A u \in Task : pc'[u] = IF u = t THEN "precursors" ELSE pc[u]
  BY DEF Process, TypeOK, passVars, lockVars
<1>1. TypeOK'
  <2>1. stored' \subseteq Task /\ mResult' \subseteq Task
    BY <1>0 DEF TypeOK
  <2>2. QED
    BY <1>0, <2>1 DEF TypeOK, passVars
<1>2. Registered' = Registered
  BY <1>0 DEF Registered
<1>3. PassInv' /\ QueueInv' /\ \A u \in Task, n \in Node : Admitted(u, n) => Admitted(u, n)'
  BY <1>0, <1>2, SameQueues
<1>4. CountInv' /\ \A u \in Task : \A p \in Node : Undecided(u, p)' <=> Undecided(u, p)
  BY <1>0, <1>2, SameDecisions
<1>5. GrantInv'
  BY <1>0, <1>3 DEF GrantInv
<1>6. DeferInv'
  BY <1>0 DEF DeferInv
<1>7. DataInv'
  <2>1. ASSUME NEW u \in Task, NEW p \in Node, got[<<u, p>>] # -1, t.node = p
        PROVE  ~(t.flow <= u.flow)
    <3>1. p \in precursors[u.node] /\ Admitted(u, p)
      BY <2>1 DEF DataInv, GrantInv
    <3>2. t \in Registered /\ p \in Locks(t) /\ <<t, p>> \notin left
      BY <1>0, <2>1 DEF Registered, Locks, GrantInv
    <3>3. ~Before(t, u)
      BY <2>1, <3>1, <3>2, AdmittedSays
    <3>4. t.node < u.node
      BY <2>1, <3>1, TaskFacts
    <3>5. QED
      BY <3>3, <3>4, TaskFacts DEF Before
  <2>2. ASSUME NEW u \in Task, NEW p \in Node, got[<<u, p>>] # -1
        PROVE  /\ got[<<u, p>>] <= u.flow
               /\ \A v \in stored' : v.node = p /\ v.flow <= u.flow => v.flow <= got[<<u, p>>]
    BY <1>0, <2>1, <2>2 DEF DataInv, Consistent
  <2>3. Consistent'
    BY <1>0, <2>2 DEF Consistent
  <2>4. \A u \in stored' : pc'[u] \in {"precursors", "deferred"}
    BY <1>0, <1>1 DEF DataInv, TypeOK
  <2>5. QED
    BY <1>0, <2>3, <2>4 DEF DataInv
<1>8. RaiseInv'
  BY <1>0, <1>4, TaskFacts DEF RaiseInv
<1>9. QED
  BY <1>1, <1>3, <1>4, <1>5, <1>6, <1>7, <1>8

(* A precursor's lock is given back, or put off by a task that is not in:  *)
(* one that is in can always pass its own entry.                           *)
LEMMA TrySharedLockStep ==
  ASSUME FreewayInv, NEW t \in Task, NEW p \in Node, TrySharedLock(t, p)
  PROVE  FreewayInv'
<1> USE DEF FreewayInv
<1>0. /\ pc[t] = "precursors" /\ p \in precursors[t.node]
      /\ UNCHANGED <<passVars, precursors, toRegister, pc, mIsAcceptTrigger, mWaitingLockCount,
                     mWaited, mResult, stored, got, onRaised>>
  BY DEF TrySharedLock, passVars, dataVars
<1>01. \/ /\ Admitted(t, p) /\ left' = left \cup {<<t, p>>}
          /\ inside' = inside \ {<<t, p>>} /\ mDeferred' = mDeferred
       \/ /\ ~Admitted(t, p) /\ mDeferred' = mDeferred \cup {<<t, p>>}
          /\ left' = left /\ inside' = inside
  BY DEF TrySharedLock, lockVars
<1>02. /\ p # t.node /\ <<t, p>> \notin inside'
       /\ \A u \in Task, n \in Node :
            /\ <<u, n>> \in inside' <=> <<u, n>> \in inside /\ ~(u = t /\ n = p)
            /\ <<u, n>> \in left => <<u, n>> \in left'
            /\ <<u, n>> \in left' /\ <<u, n>> \notin left => u = t /\ n = p /\ Admitted(t, p)
            /\ <<u, n>> \in left' \cup mDeferred' <=>
                 <<u, n>> \in left \cup mDeferred \/ (u = t /\ n = p)
            /\ <<u, n>> \in mDeferred' => <<u, n>> \in mDeferred \/ (u = t /\ n = p)
            /\ <<u, n>> \in inside \cup left => <<u, n>> \in inside' \cup left'
  <2>1. p # t.node
    BY <1>0, TaskFacts
  <2>2. ~Admitted(t, p) => <<t, p>> \notin inside
    BY DEF GrantInv
  <2>3. QED
    BY <1>01, <2>1, <2>2
<1>1. TypeOK'
  <2>1. inside' \subseteq Task \X Node /\ left' \subseteq Task \X Node /\ mDeferred' \subseteq Task \X Node
    BY <1>01 DEF TypeOK
  <2>2. QED
    BY <1>0, <2>1 DEF TypeOK, passVars
<1>2. Registered' = Registered /\ left \subseteq left'
  BY <1>0, <1>01 DEF Registered
<1>3. PassInv' /\ QueueInv' /\ \A u \in Task, n \in Node : Admitted(u, n) => Admitted(u, n)'
  BY <1>0, <1>2, SameQueues
<1>4. CountInv' /\ \A u \in Task : \A q \in Node : Undecided(u, q)' <=> Undecided(u, q)
  BY <1>0, <1>2, SameDecisions
<1>5. GrantInv'
  <2>1. \A u \in Task, n \in Node : <<u, n>> \in inside' \cup left' => Admitted(u, n)'
    BY <1>02, <1>3 DEF GrantInv
  <2>2. \A u \in Task : u.node \in Node /\ ~(u = t /\ u.node = p)
    BY <1>02, TaskFacts
  <2>3. \A u \in Task : /\ <<u, u.node>> \in inside' <=> <<u, u.node>> \in inside
                        /\ <<u, u.node>> \in left' <=> <<u, u.node>> \in left
    BY <1>02, <2>2
  <2>4. QED
    BY <1>0, <2>1, <2>3 DEF GrantInv
<1>6. DeferInv'
  <2>1. \A u \in Task : precursors[u.node] \subseteq Node
    BY TaskFacts
  <2>2. \A u \in Task, q \in Node : <<u, q>> \in mDeferred' => q \in precursors[u.node]
    BY <1>0, <1>02 DEF DeferInv
  <2>3. \A u \in Task : \A q \in precursors[u.node] : <<u, q>> \in left' \cup mDeferred' =>
          pc[u] \in {"precursors", "deferred"} /\ <<u, q>> \notin inside'
    BY <1>0, <1>02, <2>1 DEF DeferInv
  <2>4. \A u \in Task : pc[u] = "deferred" =>
          \A q \in precursors[u.node] : <<u, q>> \in left' \cup mDeferred'
    BY <1>02, <2>1 DEF DeferInv
  <2>5. QED
    BY <1>0, <2>2, <2>3, <2>4 DEF DeferInv
<1>7. DataInv'
  <2>1. Consistent'
    BY <1>0 DEF DataInv, Consistent
  <2>2. QED
    BY <1>0, <1>02, <2>1 DEF DataInv
<1>8. RaiseInv'
  BY <1>0, <1>4, TaskFacts DEF RaiseInv
<1>9. QED
  BY <1>1, <1>3, <1>4, <1>5, <1>6, <1>7, <1>8

(* What was put off is given back by a task that has left its own node.    *)
LEMMA CompleteDefferedStep ==
  ASSUME FreewayInv, NEW t \in Task, NEW p \in Node, CompleteDeffered(t, p)
  PROVE  FreewayInv'
<1> USE DEF FreewayInv
<1>0. /\ pc[t] = "deferred" /\ <<t, p>> \in mDeferred /\ Admitted(t, p)
      /\ mDeferred' = mDeferred \ {<<t, p>>}
      /\ left' = left \cup {<<t, p>>}
      /\ UNCHANGED <<passVars, precursors, toRegister, pc, mIsAcceptTrigger, mWaitingLockCount,
                     mWaited, mResult, inside, stored, got, onRaised>>
  BY DEF CompleteDeffered, passVars, dataVars
<1>01. p \in precursors[t.node] /\ p # t.node
  BY <1>0, TaskFacts DEF DeferInv
<1>02. \A u \in Task, n \in Node :
         /\ <<u, n>> \in left' <=> <<u, n>> \in left \/ (u = t /\ n = p)
         /\ <<u, n>> \in left' \cup mDeferred' <=> <<u, n>> \in left \cup mDeferred
         /\ <<u, n>> \in mDeferred' => <<u, n>> \in mDeferred
  BY <1>0
<1>1. TypeOK'
  <2>1. left' \subseteq Task \X Node /\ mDeferred' \subseteq Task \X Node
    BY <1>0 DEF TypeOK
  <2>2. QED
    BY <1>0, <2>1 DEF TypeOK, passVars
<1>2. Registered' = Registered /\ left \subseteq left'
  BY <1>0 DEF Registered
<1>3. PassInv' /\ QueueInv' /\ \A u \in Task, n \in Node : Admitted(u, n) => Admitted(u, n)'
  BY <1>0, <1>2, SameQueues
<1>4. CountInv' /\ \A u \in Task : \A q \in Node : Undecided(u, q)' <=> Undecided(u, q)
  BY <1>0, <1>2, SameDecisions
<1>5. GrantInv'
  <2>1. \A u \in Task, n \in Node : <<u, n>> \in inside \cup left' => Admitted(u, n)'
    BY <1>0, <1>02, <1>3 DEF GrantInv
  <2>2. \A u \in Task : u.node \in Node /\ ~(u = t /\ u.node = p)
    BY <1>01, TaskFacts
  <2>3. \A u \in Task : <<u, u.node>> \in left' <=> <<u, u.node>> \in left
    BY <1>02, <2>2
  <2>4. QED
    BY <1>0, <2>1, <2>3 DEF GrantInv
<1>6. DeferInv'
  <2>1. \A u \in Task : precursors[u.node] \subseteq Node
    BY TaskFacts
  <2>2. \A u \in Task, q \in Node : <<u, q>> \in mDeferred' => q \in precursors[u.node]
    BY <1>02 DEF DeferInv
  <2>3. \A u \in Task : \A q \in precursors[u.node] : <<u, q>> \in left' \cup mDeferred' =>
          pc[u] \in {"precursors", "deferred"} /\ <<u, q>> \notin inside
    BY <1>02, <2>1 DEF DeferInv
  <2>4. \A u \in Task : pc[u] = "deferred" =>
          \A q \in precursors[u.node] : <<u, q>> \in left' \cup mDeferred'
    BY <1>02, <2>1 DEF DeferInv
  <2>5. QED
    BY <1>0, <2>2, <2>3, <2>4 DEF DeferInv
<1>7. DataInv'
  <2>1. Consistent'
    BY <1>0 DEF DataInv, Consistent
  <2>2. QED
    BY <1>0, <1>02, <2>1 DEF DataInv
<1>8. RaiseInv'
  BY <1>0, <1>4, TaskFacts DEF RaiseInv
<1>9. QED
  BY <1>1, <1>3, <1>4, <1>5, <1>6, <1>7, <1>8

(* The tasks that a released writer wakes and that Enqueue accepts as its  *)
(* workflow's: all that count it as a precursor.                           *)
LEMMA WokenOfWorkflow ==
  ASSUME FreewayInv, NEW t \in Registered
  PROVE  {u \in WokenBy(t) : u.flow = t.flow}
           = {u \in Registered : u.flow = t.flow /\ t.node \in precursors[u.node]}
<1> DEFINE n == t.node
           queue == waiters[n]
<1>1. TypeOK /\ QueueInv /\ t \in Task /\ Registered \subseteq Task
  BY DEF FreewayInv, Registered
<1>2. n \in Node /\ n \in Locks(t)
  BY <1>1, TaskFacts DEF Locks
<1>3. /\ DOMAIN queue = 1..Len(queue) /\ Len(queue) \in Nat
      /\ \A i \in DOMAIN queue : queue[i].task \in Task /\ i \in Nat
  BY <1>1, <1>2, QueueFacts
<1>4. \A i \in DOMAIN queue : /\ queue[i].task \in Registered /\ n \in Locks(queue[i].task)
                              /\ queue[i].IsWriter <=> queue[i].task.node = n
  BY <1>1, <1>2 DEF QueueInv
<1>5. \A i, j \in DOMAIN queue : Before(queue[i].task, queue[j].task) <=> i < j
  BY <1>1, <1>2, QueueOrder
<1>6. WokenBy(t) = {queue[i].task : i \in {i \in DOMAIN queue :
        ~queue[i].IsWriter /\ \E k \in 1..(i - 1) :
          queue[k].task = t /\ \A j \in (k + 1)..i : ~queue[j].IsWriter}}
  BY DEF WokenBy
<1> HIDE DEF queue, n
<1>7. ASSUME NEW u \in WokenBy(t), u.flow = t.flow
      PROVE  u \in Registered /\ n \in precursors[u.node]
  <2>1. PICK i \in DOMAIN queue : u = queue[i].task /\ ~queue[i].IsWriter
    BY <1>6
  <2>2. QED
    BY <1>4, <2>1 DEF Locks
<1>8. ASSUME NEW u \in Registered, u.flow = t.flow, n \in precursors[u.node]
      PROVE  u \in WokenBy(t)
  <2>1. u \in Task /\ n \in Locks(u) /\ u.node # n /\ Before(t, u)
    BY <1>1, <1>8, TaskFacts DEF Locks, Before, n
  <2>2. PICK i \in DOMAIN queue : queue[i].task = u
    BY <1>1, <1>2, <2>1 DEF QueueInv, queue
  <2>3. PICK k \in DOMAIN queue : queue[k].task = t
    BY <1>1, <1>2 DEF QueueInv, queue
  <2>4. k < i
    BY <1>5, <2>1, <2>2, <2>3
  <2>5. k \in 1..(i - 1)
    BY <1>3, <2>4
  <2>6. ASSUME NEW j \in (k + 1)..i
        PROVE  ~queue[j].IsWriter
    <3>1. j \in DOMAIN queue /\ k < j /\ (j = i \/ j < i)
      BY <1>3, <2>5
    <3>2. CASE j = i
      BY <1>4, <2>1, <2>2, <3>1, <3>2
    <3>3. CASE j < i
      <4>1. Before(t, queue[j].task) /\ Before(queue[j].task, u)
        BY <1>5, <2>2, <2>3, <3>1, <3>3
      <4>2. queue[j].task \in Task
        BY <1>3, <3>1
      <4>3. queue[j].task.flow = t.flow
        BY <1>1, <1>8, <4>1, <4>2, <2>1, TaskFacts DEF Before
      <4>4. queue[j].task.node # n
        BY <1>1, <4>1, <4>2, <4>3, TaskFacts DEF Before, n
      <4>5. QED
        BY <1>4, <3>1, <4>4
    <3>4. QED
      BY <3>1, <3>2, <3>3
  <2>7. ~queue[i].IsWriter
    BY <1>4, <2>1, <2>2
  <2>8. QED
    BY <1>6, <2>2, <2>3, <2>5, <2>6, <2>7
<1>9. QED
  BY <1>7, <1>8 DEF n

(* A task that leaves its node is one precursor less for all its           *)
(* successors in the workflow.                                             *)
LEMMA UnlockStep ==
  ASSUME FreewayInv, NEW t \in Task, Unlock(t)
  PROVE  FreewayInv'
<1> USE DEF FreewayInv
<1> DEFINE same == {u \in WokenBy(t) : u.flow = t.flow}
           Count(u) == {p \in precursors[u.node] : Undecided(u, p)}
<1>0. /\ pc[t] = "precursors"
      /\ \A p \in precursors[t.node] : <<t, p>> \in left \cup mDeferred
      /\ left' = left \cup {<<t, t.node>>}
      /\ inside' = inside \ {<<t, t.node>>}
      /\ UNCHANGED <<passVars, precursors, toRegister, mWaited, mResult, mDeferred, stored, got>>
      /\ pc' \in [Task -> {"absent", "dispatched", "process", "precursors", "deferred"}]
      /\ \A u \in Task : pc'[u] = IF u = t THEN "deferred" ELSE pc[u]
      /\ mWaitingLockCount' = [u \in Task |->
           IF u \in same THEN mWaitingLockCount[u] - 1 ELSE mWaitingLockCount[u]]
  BY DEF Unlock, TypeOK, passVars, dataVars
<1>00. PICK raises \in SUBSET same :
         mIsAcceptTrigger' = mIsAcceptTrigger \cup raises /\ onRaised' = onRaised \cup raises
  BY DEF Unlock
<1>01. t \in Registered
  BY <1>0 DEF Registered
<1>02. same = {u \in Registered : u.flow = t.flow /\ t.node \in precursors[u.node]}
  BY <1>01, WokenOfWorkflow
<1> HIDE DEF same
<1>03. t.node \in Node /\ same \subseteq Task
  BY <1>02, TaskFacts DEF Registered
<1>04. ASSUME NEW u \in Task, NEW p \in Node
       PROVE  Undecided(u, p)' <=> Undecided(u, p) /\ ~(u.flow = t.flow /\ p = t.node)
  <2> DEFINE c == [flow |-> u.flow, node |-> p]
  <2>1. c \in Task /\ (c = t <=> u.flow = t.flow /\ p = t.node)
    BY DEF Task
  <2>2. \A v : v \in Of(u.flow, {p}) <=> v = c
    BY OfOne
  <2> HIDE DEF c
  <2>3. Undecided(u, p) <=> pc[c] \notin {"absent", "deferred"} \/ c \in toRegister
    BY <2>2 DEF Undecided
  <2>4. Undecided(u, p)' <=> pc'[c] \notin {"absent", "deferred"} \/ c \in toRegister'
    BY <2>2 DEF Undecided
  <2>5. t \notin toRegister
    BY <1>0, PendingAbsent
  <2>6. QED
    BY <1>0, <2>1, <2>3, <2>4, <2>5
<1>05. ASSUME NEW u \in Task, u.flow = t.flow
       PROVE  Undecided(u, t.node)
  <2>1. [flow |-> u.flow, node |-> t.node] = t
    BY <1>05 DEF Task
  <2>2. QED
    BY <1>0, <2>1, OfOne DEF Undecided
<1>06. ASSUME NEW u \in Registered \cup toRegister
       PROVE  mWaitingLockCount'[u] = Cardinality({p \in precursors'[u.node] : Undecided(u, p)'})
  <2>1. u \in Task
    BY DEF TypeOK, Registered
  <2>2. precursors[u.node] \subseteq Node
    BY <2>1, TaskFacts
  <2>3. mWaitingLockCount[u] = Cardinality(Count(u))
    BY DEF CountInv
  <2> DEFINE Later == {p \in precursors'[u.node] : Undecided(u, p)'}
  <2>4. CASE u \in same
    <3>1. t.node \in Count(u)
      BY <1>02, <1>05, <2>1, <2>4
    <3>2. Later = Count(u) \ {t.node}
      BY <1>0, <1>02, <1>04, <2>1, <2>2, <2>4
    <3>3. IsFiniteSet(Count(u))
      BY <2>1, CountFacts
    <3> HIDE DEF Count, Later
    <3>4. Cardinality(Later) = Cardinality(Count(u)) - 1
      BY <3>1, <3>2, <3>3, OneLess
    <3>5. mWaitingLockCount'[u] = mWaitingLockCount[u] - 1
      BY <1>0, <2>1, <2>4
    <3> USE DEF Later
    <3>6. QED
      BY <2>3, <3>4, <3>5
  <2>5. CASE u \notin same
    <3>1. ~(u.flow = t.flow /\ t.node \in precursors[u.node])
      <4>1. CASE u \in Registered
        BY <1>02, <2>5, <4>1
      <4>2. CASE u \in toRegister
        BY <1>0, <1>01, <4>2 DEF PassInv
      <4>3. QED
        BY <4>1, <4>2
    <3>2. Later = Count(u)
      BY <1>0, <1>04, <2>1, <2>2, <3>1
    <3>3. mWaitingLockCount'[u] = mWaitingLockCount[u]
      BY <1>0, <2>1, <2>5
    <3>4. QED
      BY <2>3, <3>2, <3>3
  <2>6. QED
    BY <2>4, <2>5
<1>07. mWaitingLockCount' \in [Task -> 0..NodeCount]
  <2>1. ASSUME NEW u \in Task
        PROVE  mWaitingLockCount'[u] \in 0..NodeCount
    <3>1. CASE u \in same
      <4>1. {p \in precursors'[u.node] : Undecided(u, p)'} \subseteq precursors[u.node]
        BY <1>0
      <4>2. Cardinality({p \in precursors'[u.node] : Undecided(u, p)'}) \in 0..NodeCount
        BY <4>1, CountFacts
      <4>3. u \in Registered \cup toRegister
        BY <1>02, <3>1
      <4>4. QED
        BY <1>06, <4>2, <4>3
    <3>2. CASE u \notin same
      BY <1>0, <3>2 DEF TypeOK
    <3>3. QED
      BY <3>1, <3>2
  <2>2. mWaitingLockCount' = [u \in Task |-> mWaitingLockCount'[u]]
    BY <1>0
  <2>3. QED
    BY <2>1, <2>2
<1>1. TypeOK'
  <2>1. inside' \subseteq Task \X Node /\ left' \subseteq Task \X Node
    BY <1>0, <1>03 DEF TypeOK
  <2>2. mIsAcceptTrigger' \subseteq Task /\ onRaised' \subseteq Task
    BY <1>00, <1>03 DEF TypeOK
  <2>3. QED
    BY <1>0, <1>07, <2>1, <2>2 DEF TypeOK, passVars
<1>2. Registered' = Registered /\ left \subseteq left'
  BY <1>0 DEF Registered
<1>3. PassInv' /\ QueueInv' /\ \A u \in Task, n \in Node : Admitted(u, n) => Admitted(u, n)'
  BY <1>0, <1>2, SameQueues
<1>4. CountInv'
  BY <1>0, <1>06, <1>2 DEF CountInv
<1>5. GrantInv'
  <2>1. Admitted(t, t.node)
    BY <1>0, <1>03 DEF GrantInv
  <2>2. \A u \in Task, n \in Node : <<u, n>> \in inside' \cup left' => Admitted(u, n)'
    BY <1>0, <1>3, <2>1 DEF GrantInv
  <2>3. QED
    BY <1>0, <2>2 DEF GrantInv
<1>6. DeferInv'
  <2>1. \A u \in Task : \A p \in precursors[u.node] :
          /\ <<u, p>> \in left' <=> <<u, p>> \in left
          /\ <<u, p>> \in inside' => <<u, p>> \in inside
    BY <1>0, TaskFacts
  <2>2. QED
    BY <1>0, <2>1 DEF DeferInv
<1>7. DataInv'
  <2>1. Consistent'
    BY <1>0 DEF DataInv, Consistent
  <2>2. \A u \in stored : pc'[u] \in {"precursors", "deferred"}
    BY <1>0 DEF DataInv, TypeOK
  <2>3. inside \cup left \subseteq inside' \cup left'
    BY <1>0
  <2>4. QED
    BY <1>0, <2>1, <2>2, <2>3 DEF DataInv
<1>8. RaiseInv'
  <2>1. \A u \in Task : precursors[u.node] \subseteq Node
    BY TaskFacts
  <2>2. \A u \in Task : \A p \in precursors[u.node] : Undecided(u, p)' => Undecided(u, p)
    BY <1>04, <2>1
  <2>3. QED
    BY <1>0, <1>00, <2>2 DEF RaiseInv
<1>9. QED
  BY <1>1, <1>3, <1>4, <1>5, <1>6, <1>7, <1>8

(* The next task of a pass goes behind all earlier ones in the queues of   *)
(* the nodes it uses.                                                      *)
LEMMA RegisterStep ==
  ASSUME FreewayInv, NEW t \in Task, Register(t)
  PROVE  FreewayInv'
<1> USE DEF FreewayInv
<1> DEFINE Entry(n) == [task |-> t, IsWriter |-> n = t.node]
<1>0. /\ t \in toRegister /\ \A u \in toRegister : t.node <= u.node
      /\ toRegister' = toRegister \ {t}
      /\ UNCHANGED <<precursors, workflowId, mIsAcceptTrigger, mWaitingLockCount, mWaited, mResult,
                     mDeferred, inside, left, stored, got, onRaised>>
      /\ pc' \in [Task -> {"absent", "dispatched", "process", "precursors", "deferred"}]
      /\ \A u \in Task : pc'[u] = IF u = t THEN "dispatched" ELSE pc[u]
      /\ \A n \in Node : waiters'[n] = IF n \in Locks(t) THEN Append(waiters[n], Entry(n))
                                       ELSE waiters[n]
  BY DEF Register, TypeOK, lockVars, dataVars, Locks
<1>01. pc[t] = "absent" /\ t.flow = workflowId /\ t \notin Registered
  BY <1>0, PendingAbsent DEF PassInv, Registered
<1>02. Registered' = Registered \cup {t} /\ \A u : Locks(u)' = Locks(u)
  BY <1>0 DEF Registered, Locks
<1>03. ASSUME NEW n \in Node
       PROVE  /\ waiters'[n] \in Seq([task : Task, IsWriter : BOOLEAN])
              /\ \A i \in DOMAIN waiters[n] : i \in DOMAIN waiters'[n] /\ waiters'[n][i] = waiters[n][i]
              /\ \A i \in DOMAIN waiters'[n] :
                   \/ i \in DOMAIN waiters[n]
                   \/ n \in Locks(t) /\ i = Len(waiters[n]) + 1 /\ waiters'[n][i] = Entry(n)
              /\ n \in Locks(t) => /\ Len(waiters[n]) + 1 \in DOMAIN waiters'[n]
                                   /\ waiters'[n][Len(waiters[n]) + 1] = Entry(n)
  <2>1. waiters[n] \in Seq([task : Task, IsWriter : BOOLEAN]) /\ Len(waiters[n]) \in Nat
        /\ DOMAIN waiters[n] = 1..Len(waiters[n])
    BY QueueFacts DEF TypeOK
  <2>2. CASE n \in Locks(t)
    <3>1. Entry(n) \in [task : Task, IsWriter : BOOLEAN]
      OBVIOUS
    <3> HIDE DEF Entry
    <3>2. waiters'[n] = Append(waiters[n], Entry(n))
      BY <1>0, <2>2
    <3>3. /\ waiters'[n] \in Seq([task : Task, IsWriter : BOOLEAN])
          /\ Len(waiters'[n]) = Len(waiters[n]) + 1
          /\ \A i \in 1..Len(waiters[n]) : waiters'[n][i] = waiters[n][i]
          /\ waiters'[n][Len(waiters[n]) + 1] = Entry(n)
      BY <2>1, <3>1, <3>2, AppendProperties
    <3>4. DOMAIN waiters'[n] = 1..(Len(waiters[n]) + 1)
      BY <3>3, LenProperties
    <3>5. 1..(Len(waiters[n]) + 1) = 1..Len(waiters[n]) \cup {Len(waiters[n]) + 1}
      BY <2>1
    <3>6. QED
      BY <2>1, <2>2, <3>3, <3>4, <3>5
  <2>3. CASE n \notin Locks(t)
    BY <1>0, <2>1, <2>3
  <2>4. QED
    BY <2>2, <2>3
<1>030. \A n : Entry(n).task = t /\ (Entry(n).IsWriter <=> t.node = n)
  OBVIOUS
<1> HIDE DEF Entry
<1>04. ASSUME NEW u \in Task, NEW n \in Node, Admitted(u, n)
       PROVE  Admitted(u, n)'
  <2>1. DOMAIN waiters[n] = 1..Len(waiters[n]) /\ Len(waiters[n]) \in Nat
    BY QueueFacts
  <2>2. \A i \in DOMAIN waiters[n] : i \in DOMAIN waiters'[n] /\ waiters'[n][i] = waiters[n][i]
    BY <1>03
  <2>3. QED
    BY <1>0, <1>04, <2>1, <2>2, AdmittedStays
<1>05. ASSUME NEW u \in Task, NEW p \in Node
       PROVE  Undecided(u, p)' <=> Undecided(u, p)
  <2> DEFINE c == [flow |-> u.flow, node |-> p]
  <2>1. c \in Task /\ \A v : v \in Of(u.flow, {p}) <=> v = c
    BY OfOne DEF Task
  <2> HIDE DEF c
  <2>2. Undecided(u, p) <=> pc[c] \notin {"absent", "deferred"} \/ c \in toRegister
    BY <2>1 DEF Undecided
  <2>3. Undecided(u, p)' <=> pc'[c] \notin {"absent", "deferred"} \/ c \in toRegister'
    BY <2>1 DEF Undecided
  <2>4. QED
    BY <1>0, <2>1, <2>2, <2>3
<1>1. TypeOK'
  <2>1. toRegister' \subseteq Task /\ \A n \in Node : waiters'[n] \in Seq([task : Task, IsWriter : BOOLEAN])
    BY <1>0, <1>03 DEF TypeOK
  <2>2. QED
    BY <1>0, <2>1 DEF TypeOK
<1>2. PassInv'
  <2>1. \A u \in toRegister' : Before(t, u)
    <3>1. TAKE u \in toRegister'
    <3>2. u \in Task /\ u # t /\ u.flow = t.flow /\ t.node <= u.node
      BY <1>0, <1>01 DEF PassInv, TypeOK
    <3>3. QED
      BY <3>2, TaskFacts DEF Before
  <2>2. t.flow <= workflowId
    BY <1>01, TaskFacts
  <2>3. \A u \in Registered', v \in toRegister' : Before(u, v)'
    BY <1>0, <1>02, <2>1 DEF PassInv, Before
  <2>4. \A u \in Registered' : u.flow <= workflowId
    BY <1>02, <2>2 DEF PassInv
  <2>5. \A u \in Registered', v \in toRegister' : pc'[u] # "dispatched" => v.flow # u.flow
    <3>1. Registered \subseteq Task
      BY DEF Registered
    <3>2. QED
      BY <1>0, <1>02, <3>1 DEF PassInv
  <2>6. \A u \in toRegister' : u.flow = workflowId
    BY <1>0 DEF PassInv
  <2>7. QED
    BY <1>0, <2>3, <2>4, <2>5, <2>6 DEF PassInv
<1>3. QueueInv'
  <2>1. ASSUME NEW n \in Node, NEW i \in DOMAIN waiters'[n]
        PROVE  /\ waiters'[n][i].task \in Registered' /\ n \in Locks(waiters'[n][i].task)
               /\ waiters'[n][i].IsWriter <=> waiters'[n][i].task.node = n
    <3>1. CASE i \in DOMAIN waiters[n]
      BY <1>02, <1>03, <3>1 DEF QueueInv
    <3>2. CASE i \notin DOMAIN waiters[n]
      <4>1. n \in Locks(t) /\ waiters'[n][i] = Entry(n)
        BY <1>03, <3>2
      <4>2. QED
        BY <1>02, <1>030, <4>1
    <3>3. QED
      BY <3>1, <3>2
  <2>2. ASSUME NEW n \in Node, NEW i \in DOMAIN waiters'[n], NEW j \in DOMAIN waiters'[n], i < j
        PROVE  Before(waiters'[n][i].task, waiters'[n][j].task)
    <3>1. DOMAIN waiters[n] = 1..Len(waiters[n]) /\ Len(waiters[n]) \in Nat
      BY QueueFacts
    <3>2. i \in DOMAIN waiters[n]
      <4>1. j \in DOMAIN waiters[n] \/ j = Len(waiters[n]) + 1
        BY <1>03
      <4>2. i # Len(waiters[n]) + 1
        BY <2>2, <3>1, <4>1
      <4>3. QED
        BY <1>03, <4>2
    <3>3. CASE j \in DOMAIN waiters[n]
      BY <1>03, <2>2, <3>2, <3>3 DEF QueueInv
    <3>4. CASE j \notin DOMAIN waiters[n]
      <4>1. waiters'[n][j].task = t
        BY <1>03, <1>030, <3>4
      <4>2. waiters'[n][i].task \in Registered
        BY <1>03, <3>2 DEF QueueInv
      <4>3. QED
        BY <1>0, <4>1, <4>2 DEF PassInv
    <3>5. QED
      BY <3>3, <3>4
  <2>3. ASSUME NEW u \in Registered', NEW n \in Locks(u)
        PROVE  \E i \in DOMAIN waiters'[n] : waiters'[n][i].task = u
    <3>1. u \in Task /\ n \in Node
      BY <1>02, TaskFacts DEF Registered
    <3>2. CASE u = t
      <4>1. Len(waiters[n]) + 1 \in DOMAIN waiters'[n] /\ waiters'[n][Len(waiters[n]) + 1].task = t
        BY <1>03, <1>030, <2>3, <3>1, <3>2
      <4>2. QED
        BY <3>2, <4>1
    <3>3. CASE u # t
      <4>1. PICK i \in DOMAIN waiters[n] : waiters[n][i].task = u
        BY <1>02, <2>3, <3>1, <3>3 DEF QueueInv
      <4>2. QED
        BY <1>03, <3>1, <4>1
    <3>4. QED
      BY <3>2, <3>3
  <2>4. QED
    BY <1>02, <2>1, <2>2, <2>3 DEF QueueInv, Before
<1>4. GrantInv'
  BY <1>0, <1>01, <1>04 DEF GrantInv
<1>5. DeferInv'
  BY <1>0, <1>01 DEF DeferInv
<1>6. DataInv'
  <2>1. Consistent'
    BY <1>0 DEF DataInv, Consistent
  <2>2. \A u \in stored : pc'[u] \in {"precursors", "deferred"}
    BY <1>0, <1>01 DEF DataInv, TypeOK
  <2>3. QED
    BY <1>0, <2>1, <2>2 DEF DataInv
<1>7. CountInv'
  <2>1. Registered' \cup toRegister' = Registered \cup toRegister
    BY <1>0, <1>02
  <2>2. ASSUME NEW u \in Registered \cup toRegister
        PROVE  mWaitingLockCount'[u] = Cardinality({p \in precursors'[u.node] : Undecided(u, p)'})
    <3>1. u \in Task /\ precursors[u.node] \subseteq Node
      BY TaskFacts DEF Registered, TypeOK
    <3>2. {p \in precursors'[u.node] : Undecided(u, p)'} = {p \in precursors[u.node] : Undecided(u, p)}
      BY <1>0, <1>05, <3>1
    <3>3. QED
      BY <1>0, <3>2 DEF CountInv
  <2>3. QED
    BY <2>1, <2>2 DEF CountInv
<1>8. RaiseInv'
  BY <1>0, <1>05, TaskFacts DEF RaiseInv
<1>9. QED
  BY <1>1, <1>2, <1>3, <1>4, <1>5, <1>6, <1>7, <1>8

(* A pass starts a workflow that no task is of yet, and counts for each    *)
(* task the precursors that the pass has as well.                          *)
LEMMA BeginPassStep ==
  ASSUME FreewayInv, NEW raised \in SUBSET Node, BeginPass(raised)
  PROVE  FreewayInv'
<1> USE DEF FreewayInv
<1>0. /\ toRegister = {} /\ workflowId < MaxWorkflow
      /\ workflowId' = workflowId + 1
      /\ toRegister' = Of(workflowId', Reached(raised))
      /\ mIsAcceptTrigger' = mIsAcceptTrigger \cup Of(workflowId', raised)
      /\ mWaitingLockCount' = [t \in Task |->
           IF t \in toRegister' THEN Cardinality(WaitsFor(t.node, raised)) ELSE mWaitingLockCount[t]]
      /\ UNCHANGED <<precursors, waiters, pc, mWaited, mResult, mDeferred, inside, left, stored, got,
                     onRaised>>
  BY DEF BeginPass, lockVars, dataVars
<1>01. workflowId' \in 1..MaxWorkflow /\ workflowId \in Nat /\ MaxWorkflow \in Nat
  BY <1>0, ConstantsAssumption DEF TypeOK
<1>02. /\ Reached(raised) \subseteq Node
       /\ toRegister' \subseteq Task /\ Of(workflowId', raised) \subseteq Task
  BY <1>0, <1>01, ReachedNodes DEF Of, Task
<1>03. \A u \in toRegister' : u.flow = workflowId'
  BY <1>0 DEF Of
<1>04. Registered' = Registered /\ Registered \subseteq Task /\ \A u : Locks(u)' = Locks(u)
  BY <1>0 DEF Registered, Locks
<1>05. \A u \in Registered : u.flow < workflowId' /\ u \notin toRegister'
  <2>1. TAKE u \in Registered
  <2>2. u.flow <= workflowId /\ u.flow \in Nat
    BY <1>04, TaskFacts DEF PassInv
  <2>3. QED
    BY <1>0, <1>01, <1>03, <2>2
<1>06. ASSUME NEW u \in Task, NEW p \in Node
       PROVE  /\ u \in Registered => (Undecided(u, p)' <=> Undecided(u, p))
              /\ u \in toRegister' => (Undecided(u, p)' <=> p \in Reached(raised))
  <2> DEFINE c == [flow |-> u.flow, node |-> p]
  <2>1. c \in Task /\ c.flow = u.flow /\ \A v : v \in Of(u.flow, {p}) <=> v = c
    BY OfOne DEF Task
  <2>2. u.flow = workflowId' => (c \in toRegister' <=> p \in Reached(raised))
    BY <1>0 DEF Of
  <2> HIDE DEF c
  <2>3. Undecided(u, p) <=> pc[c] \notin {"absent", "deferred"} \/ c \in toRegister
    BY <2>1 DEF Undecided
  <2>4. Undecided(u, p)' <=> pc'[c] \notin {"absent", "deferred"} \/ c \in toRegister'
    BY <2>1 DEF Undecided
  <2>5. u \in Registered => c \notin toRegister'
    BY <1>01, <1>03, <1>04, <1>05, <2>1, TaskFacts
  <2>6. u \in toRegister' => c \notin Registered
    BY <1>01, <1>03, <1>05, <2>1
  <2>7. u \in toRegister' => pc[c] = "absent"
    BY <2>1, <2>6 DEF Registered
  <2>8. QED
    BY <1>0, <1>03, <2>2, <2>3, <2>4, <2>5, <2>7
<1>07. ASSUME NEW u \in toRegister'
       PROVE  /\ u \in Task /\ WaitsFor(u.node, raised) \subseteq precursors[u.node]
              /\ WaitsFor(u.node, raised) = {p \in precursors'[u.node] : Undecided(u, p)'}
  <2>1. u \in Task /\ precursors[u.node] \subseteq Node
    BY <1>02, TaskFacts
  <2>2. WaitsFor(u.node, raised) = precursors[u.node] \cap Reached(raised)
    BY DEF WaitsFor
  <2>3. \A p \in precursors[u.node] : Undecided(u, p)' <=> p \in Reached(raised)
    BY <1>06, <2>1
  <2>4. QED
    BY <1>0, <2>1, <2>2, <2>3
<1>1. TypeOK'
  <2>1. \A u \in toRegister' : Cardinality(WaitsFor(u.node, raised)) \in 0..NodeCount
    BY <1>07, CountFacts
  <2>2. mWaitingLockCount' \in [Task -> 0..NodeCount]
    BY <1>0, <2>1 DEF TypeOK
  <2>3. mIsAcceptTrigger' \subseteq Task
    BY <1>0, <1>02 DEF TypeOK
  <2>4. workflowId' \in 0..MaxWorkflow
    BY <1>01
  <2>5. QED
    BY <1>0, <1>02, <2>2, <2>3, <2>4 DEF TypeOK
<1>2. PassInv'
  <2>1. \A u \in Registered : u.flow <= workflowId' /\ u.flow # workflowId'
    BY <1>01, <1>04, <1>05, TaskFacts
  <2>2. \A u \in Registered, v \in toRegister' : Before(u, v)'
    BY <1>03, <1>05 DEF Before
  <2>3. QED
    BY <1>03, <1>04, <2>1, <2>2 DEF PassInv
<1>3. QueueInv'
  BY <1>0, <1>04 DEF QueueInv, Before
<1>4. GrantInv'
  BY <1>0 DEF GrantInv, Admitted
<1>5. DeferInv'
  BY <1>0 DEF DeferInv
<1>6. DataInv'
  <2>1. Consistent'
    BY <1>0 DEF DataInv, Consistent
  <2>2. QED
    BY <1>0, <2>1 DEF DataInv
<1>7. CountInv'
  <2>1. ASSUME NEW u \in Registered \cup toRegister'
        PROVE  mWaitingLockCount'[u] = Cardinality({p \in precursors'[u.node] : Undecided(u, p)'})
    <3>1. CASE u \in toRegister'
      BY <1>0, <1>07, <3>1
    <3>2. CASE u \in Registered
      <4>1. u \in Task /\ precursors[u.node] \subseteq Node
        BY <1>04, <3>2, TaskFacts
      <4>2. {p \in precursors'[u.node] : Undecided(u, p)'} = {p \in precursors[u.node] : Undecided(u, p)}
        BY <1>0, <1>06, <3>2, <4>1
      <4>3. mWaitingLockCount'[u] = mWaitingLockCount[u]
        BY <1>0, <1>05, <3>2, <4>1
      <4>4. QED
        BY <3>2, <4>2, <4>3 DEF CountInv
    <3>3. QED
      BY <3>1, <3>2
  <2>2. QED
    BY <1>04, <2>1 DEF CountInv
<1>8. RaiseInv'
  <2>1. \A u \in Task : pc[u] \in {"precursors", "deferred"} => u \in Registered
    BY DEF Registered
  <2>2. \A u \in Registered : \A p \in precursors[u.node] : Undecided(u, p)' <=> Undecided(u, p)
    BY <1>04, <1>06, TaskFacts
  <2>3. QED
    BY <1>0, <2>1, <2>2 DEF RaiseInv
<1>9. QED
  BY <1>1, <1>2, <1>3, <1>4, <1>5, <1>6, <1>7, <1>8
-----------------------------------------------------------------------------
(* A step that changes nothing.                                            *)
LEMMA StutterFreeway ==
  ASSUME FreewayInv, UNCHANGED vars
  PROVE  FreewayInv'
<1> USE DEF FreewayInv
<1>0. UNCHANGED <<passVars, precursors, workflowId, toRegister, waiters, pc, mIsAcceptTrigger,
                  mWaitingLockCount, mWaited, mResult, mDeferred, inside, left, stored, got, onRaised>>
  BY DEF vars, passVars, lockVars, dataVars
<1>1. TypeOK'
  BY <1>0 DEF TypeOK
<1>2. Registered' = Registered
  BY <1>0 DEF Registered
<1>3. PassInv' /\ QueueInv' /\ \A u \in Task, n \in Node : Admitted(u, n) => Admitted(u, n)'
  BY <1>0, <1>2, SameQueues
<1>4. CountInv' /\ \A u \in Task : \A q \in Node : Undecided(u, q)' <=> Undecided(u, q)
  BY <1>0, <1>2, SameDecisions
<1>5. GrantInv'
  BY <1>0, <1>3 DEF GrantInv
<1>6. DeferInv'
  BY <1>0 DEF DeferInv
<1>7. DataInv'
  <2>1. Consistent'
    BY <1>0 DEF DataInv, Consistent
  <2>2. QED
    BY <1>0, <2>1 DEF DataInv
<1>8. RaiseInv'
  BY <1>0, <1>4, TaskFacts DEF RaiseInv
<1>9. QED
  BY <1>1, <1>3, <1>4, <1>5, <1>6, <1>7, <1>8

(* The invariant holds of every state.                                     *)
LEMMA NextFreeway == FreewayInv /\ [Next]_vars => FreewayInv'
<1> SUFFICES ASSUME FreewayInv, [Next]_vars PROVE FreewayInv'
  OBVIOUS
<1>1. ASSUME NEW raised \in SUBSET Node, BeginPass(raised) PROVE FreewayInv'
  BY <1>1, BeginPassStep
<1>2. ASSUME NEW t \in Task, Register(t) PROVE FreewayInv'
  BY <1>2, RegisterStep
<1>3. ASSUME NEW t \in Task, RunNode(t) PROVE FreewayInv'
  BY <1>3, WaitLockStep, ProcessStep, UnlockStep, TrySharedLockStep, CompleteDefferedStep DEF RunNode
<1>4. ASSUME NEW t \in Task, NEW p \in Node, WaitSharedLock(t, p) \/ Read(t, p) PROVE FreewayInv'
  BY <1>4, WaitSharedLockStep, ReadStep
<1>5. CASE UNCHANGED vars
  BY <1>5, StutterFreeway
<1>6. QED
  BY <1>1, <1>2, <1>3, <1>4, <1>5 DEF Next

(* For every graph, in every state of every run, whatever tasks do in      *)
(* whatever order.                                                         *)
THEOREM TasksAndLocks == Spec => []FreewayInv
<1>1. QED
  BY InitFreeway, NextFreeway, PTL DEF Spec

(* The value a task sees in a precursor is that of the last workflow up to *)
(* its own that stores one: a task never sees two workflows along two      *)
(* paths (DEventNode values read under LockPtr).                           *)
THEOREM SeesItsWorkflow == Spec => []Consistent
<1>1. FreewayInv => Consistent
  BY DEF FreewayInv, DataInv
<1>2. QED
  BY <1>1, TasksAndLocks, PTL

(* mWaitingLockCount is the number of precursors of the workflow that have *)
(* still to release their locks (Task::Enqueue and the dispatcher's count).*)
THEOREM CountIsExact == Spec => []CountsPrecursors
<1>1. FreewayInv => CountsPrecursors
  BY DEF FreewayInv, CountInv, CountsPrecursors, Undecided, Registered
<1>2. QED
  BY <1>1, TasksAndLocks, PTL

(* A task that passes its node unaccepted has been raised by no precursor  *)
(* and will be by none (the two outcomes of Task::RunNode's wait).         *)
THEOREM MissesNoRaise == Spec => []NoRaiseMissed
<1>1. FreewayInv => NoRaiseMissed
  BY DEF FreewayInv, RaiseInv, NoRaiseMissed, Undecided
<1>2. QED
  BY <1>1, TasksAndLocks, PTL

(* A finished task has given back its own lock and every shared lock it    *)
(* registered for (TrySharedLock4, mDeferred and CompleteDeffered).        *)
THEOREM GivesEverythingBack == Spec => []NothingHeldAtEnd
<1>1. ASSUME FreewayInv, NEW t \in Task, Finished(t), NEW n \in precursors[t.node] \cup {t.node}
      PROVE  <<t, n>> \in left /\ <<t, n>> \notin inside
  <2>1. TypeOK /\ pc[t] = "deferred" /\ \A p \in Node : <<t, p>> \notin mDeferred
    BY <1>1 DEF FreewayInv, Finished
  <2>2. CASE n = t.node
    BY <1>1, <2>1, <2>2 DEF FreewayInv, GrantInv
  <2>3. CASE n \in precursors[t.node]
    BY <1>1, <2>1, <2>3, TaskFacts DEF FreewayInv, DeferInv
  <2>4. QED
    BY <2>2, <2>3
<1>2. FreewayInv => NothingHeldAtEnd
  BY <1>1 DEF NothingHeldAtEnd
<1>3. QED
  BY <1>2, TasksAndLocks, PTL
=============================================================================
