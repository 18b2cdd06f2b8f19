--------------------------- MODULE OrderedAccess ---------------------------
(***************************************************************************)
(* What a node's lock promises, without its queue arithmetic.  Accesses to *)
(* the node are admitted in the order in which the dispatcher registered   *)
(* them: a writer (the node's own task) enters once every access that was  *)
(* registered before it has left, a reader (a successor's task) once every *)
(* writer registered before it has left.  SharedMutex is shown to          *)
(* implement this module.                                                  *)
(***************************************************************************)
EXTENDS Integers, Sequences

CONSTANT MaxWaiters     \* bound on the accesses ever registered

VARIABLES
  kinds,   \* the registered accesses, in order: TRUE a writer, FALSE a reader
  where,   \* an access is "absent", "outside", "inside" or "left"
  data,    \* the access whose writer last stored the node's value, 0: none
  got      \* the value a reader found, -1 before it looks

avars == <<kinds, where, data, got>>

Access == 1..MaxWaiters

AInit ==
  /\ kinds = <<>>
  /\ where = [i \in Access |-> "absent"]
  /\ data = 0
  /\ got = [i \in Access |-> -1]

Register(writer) ==
  /\ Len(kinds) < MaxWaiters
  /\ kinds' = Append(kinds, writer)
  /\ where' = [where EXCEPT ![Len(kinds) + 1] = "outside"]
  /\ UNCHANGED <<data, got>>

(* The earlier accesses that conflict with access i.                       *)
Ahead(i) == {j \in 1..(i - 1) : kinds[i] \/ kinds[j]}

Enter(i) ==
  /\ where[i] = "outside"
  /\ \A j \in Ahead(i) : where[j] = "left"
  /\ where' = [where EXCEPT ![i] = "inside"]
  /\ UNCHANGED <<kinds, data, got>>

Store(i) ==
  /\ where[i] = "inside" /\ kinds[i]
  /\ data' = i
  /\ UNCHANGED <<kinds, where, got>>

Load(i) ==
  /\ where[i] = "inside" /\ ~kinds[i]
  /\ got' = [got EXCEPT ![i] = data]
  /\ UNCHANGED <<kinds, where, data>>

Leave(i) ==
  /\ where[i] = "inside"
  /\ where' = [where EXCEPT ![i] = "left"]
  /\ UNCHANGED <<kinds, data, got>>

(* A reader that is handed its turn and gives it back in one step.         *)
Pass(i) ==
  /\ where[i] = "outside" /\ ~kinds[i]
  /\ \A j \in Ahead(i) : where[j] = "left"
  /\ where' = [where EXCEPT ![i] = "left"]
  /\ UNCHANGED <<kinds, data, got>>

ANext ==
  \/ \E writer \in BOOLEAN : Register(writer)
  \/ \E i \in 1..Len(kinds) :
       Enter(i) \/ Store(i) \/ Load(i) \/ Leave(i) \/ Pass(i)

ASpec == AInit /\ [][ANext]_avars
=============================================================================
