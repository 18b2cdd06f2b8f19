----------------------------- MODULE SpscQueue -----------------------------
(***************************************************************************)
(* DSpscQueue.hpp: a queue of holders linked by their field next, and a    *)
(* second one, of the same kind (spsc_queue.hpp), that carries the free    *)
(* holders back to the producer.  A queue is never without a holder: the   *)
(* value of the last one is taken in place.  Every access to a field that  *)
(* the other thread may use is a step.  Pop2, which drops holders that     *)
(* were looked at with First and Next, is left out: nothing calls it.      *)
(***************************************************************************)
EXTENDS Integers, Sequences, Functions, Chains

CONSTANTS
  HolderCount,   \* the capacity given to Init, at least 2
  MaxPushed      \* bound on the elements pushed in one behaviour

ASSUME HolderCountAssumption ==
  HolderCount \in Nat /\ HolderCount >= 2 /\ MaxPushed \in Nat

VARIABLES
  next, value,           \* the fields of the holders
  storeHead, storeTail,  \* mStoreHolders
  freeHead, freeTail,    \* mFreeHolders
  pusher, inHand,        \* where Push is, and its holder
  popper, popped,        \* where Pop is, and its holder
  pushed,                \* number of elements accepted
  handedOut              \* what Pop returned

pushVars == <<storeTail, freeHead, pusher, inHand, pushed>>
popVars == <<storeHead, freeTail, popper, popped, handedOut>>
queueVars == <<next, value, pushVars, popVars>>

Holder == 1..HolderCount
nullptr == 0
Null == 0

(* The first holder is the empty one of mStoreHolders, the others are free. *)
QueueInit ==
  /\ next = [h \in Holder |-> IF h \in {1, HolderCount} THEN nullptr ELSE h + 1]
  /\ value = [h \in Holder |-> Null]
  /\ storeHead = 1 /\ storeTail = 1
  /\ freeHead = 2 /\ freeTail = HolderCount
  /\ pusher = "idle" /\ inHand = nullptr
  /\ popper = "idle" /\ popped = nullptr
  /\ pushed = 0 /\ handedOut = <<>>
-----------------------------------------------------------------------------
(* Push: pop a free holder, fill it, link it behind the last one.  Without *)
(* a free holder that has a successor it returns false.                    *)

TakeFree ==
  /\ pusher = "idle" /\ pushed < MaxPushed
  /\ next[freeHead] # nullptr
  /\ pusher' = "fill" /\ inHand' = freeHead
  /\ freeHead' = next[freeHead]
  /\ next' = [next EXCEPT ![freeHead] = nullptr]
  /\ UNCHANGED <<value, storeTail, pushed, popVars>>

Fill ==
  /\ pusher = "fill"
  /\ value' = [value EXCEPT ![inHand] = pushed + 1]
  /\ pusher' = "link"
  /\ UNCHANGED <<next, storeTail, freeHead, inHand, pushed, popVars>>

Link ==
  /\ pusher = "link"
  /\ next' = [next EXCEPT ![storeTail] = inHand]
  /\ pushed' = pushed + 1
  /\ pusher' = "move"
  /\ UNCHANGED <<value, storeTail, freeHead, inHand, popVars>>

MoveStoreTail ==
  /\ pusher = "move"
  /\ storeTail' = inHand
  /\ next' = [next EXCEPT ![inHand] = nullptr]
  /\ pusher' = "idle" /\ inHand' = nullptr
  /\ UNCHANGED <<value, freeHead, pushed, popVars>>
-----------------------------------------------------------------------------
(* Pop: the first holder, or the value of the last one; an empty holder    *)
(* makes it start again.                                                   *)

Return(v) == handedOut' = IF v = Null THEN handedOut ELSE Append(handedOut, v)

PopHolder ==
  /\ popper = "idle"
  /\ IF next[storeHead] = nullptr
       THEN popper' = "last" /\ UNCHANGED <<next, storeHead, popped, handedOut>>
       ELSE /\ popper' = "give" /\ popped' = storeHead
            /\ storeHead' = next[storeHead]
            /\ next' = [next EXCEPT ![storeHead] = nullptr]
            /\ Return(value[storeHead])
  /\ UNCHANGED <<value, freeTail, pushVars>>

(* Mutant: the value stays and is returned again with its holder.          *)
TakeLast_Keeps ==
  /\ popper = "last"
  /\ Return(value[storeHead])
  /\ popper' = "idle"
  /\ UNCHANGED <<next, value, storeHead, freeTail, popped, pushVars>>
TakeLast ==
  /\ popper = "last"
  /\ Return(value[storeHead])
  /\ value' = [value EXCEPT ![storeHead] = Null]
  /\ popper' = "idle"
  /\ UNCHANGED <<next, storeHead, freeTail, popped, pushVars>>

GiveBack ==
  /\ popper = "give"
  /\ next' = [next EXCEPT ![freeTail] = popped]
  /\ popper' = "move"
  /\ UNCHANGED <<value, storeHead, freeTail, popped, handedOut, pushVars>>

(* Mutant: tail is left where it was.                                      *)
MoveFreeTail_Stays ==
  /\ popper = "move"
  /\ next' = [next EXCEPT ![popped] = nullptr]
  /\ popper' = "idle" /\ popped' = nullptr
  /\ UNCHANGED <<value, storeHead, freeTail, handedOut, pushVars>>
MoveFreeTail ==
  /\ popper = "move"
  /\ freeTail' = popped
  /\ next' = [next EXCEPT ![popped] = nullptr]
  /\ popper' = "idle" /\ popped' = nullptr
  /\ UNCHANGED <<value, storeHead, handedOut, pushVars>>

PushStep == TakeFree \/ Fill \/ Link \/ MoveStoreTail
PopStep == PopHolder \/ TakeLast \/ GiveBack \/ MoveFreeTail

QueueNext == PushStep \/ PopStep
QueueSpec == QueueInit /\ [][QueueNext]_queueVars
-----------------------------------------------------------------------------
(* The holders that are reached from h.                                    *)
Chain(links, h) == Follow(links, h, nullptr, HolderCount)

(* Only the first holder may be without a value: it was the last one when  *)
(* its value was taken.                                                    *)
Stored ==
  LET holders == Chain(next, storeHead)
      values == [i \in DOMAIN holders |-> value[holders[i]]]
  IN  IF values[1] = Null THEN Tail(values) ELSE values

(* Seen through its holders the queue is a FIFO: what a successful Push    *)
(* linked is handed out once, in order, whether Pop takes it with its      *)
(* holder or out of the last one while the producer is linking the next.   *)
Holders == INSTANCE Fifo WITH queue <- Stored, out <- handedOut
ImplementsFifo == Holders!Spec

(* No holder is lost, doubled or in both queues, whichever stores of Push  *)
(* and Pop are still to come, and a Push is refused only with two elements *)
(* less in the queue than there are holders, or three while Pop has one.   *)
HoldersConserved ==
  LET held == (IF pusher \in {"fill", "link"} THEN <<inHand>> ELSE <<>>)
              \o (IF popper = "give" THEN <<popped>> ELSE <<>>)
      places == Chain(next, storeHead) \o Chain(next, freeHead) \o held
  IN  /\ Len(places) = HolderCount /\ Range(places) = Holder
      /\ pusher = "idle" /\ next[freeHead] = nullptr =>
           Len(Stored) + Len(held) >= HolderCount - 2
=============================================================================
