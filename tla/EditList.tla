------------------------------ MODULE EditList ------------------------------
(***************************************************************************)
(* What a ZipperVec promises: a plain list.  A client makes one call at a  *)
(* time; the call is answered in a single step, and the list is then the   *)
(* one the call describes.  No cursor appears here: where the edit cursor  *)
(* of aris/src/zipper_vec.rs stands must never be visible in the list.     *)
(***************************************************************************)
EXTENDS ListOps

CONSTANTS Values,  \* the elements a list may hold
          MaxLen,  \* bound: no call makes the list longer than this
          None     \* the absence of a value (Option::None)

VARIABLES list,  \* the elements, in order
          call,  \* the call in progress, or Idle
          ret    \* what the last finished call returned

listVars == <<list, call, ret>>

Idle == [op |-> "idle"]

PushCalls == [op : {"push"}, val : Values]
PopCalls == [op : {"pop"}, at : 0 .. MaxLen]
MoveCalls == [op : {"move_cursor"}, at : 0 .. MaxLen]
InsertCalls == [op : {"insert_relative"}, val : Values, rel : Values, after : BOOLEAN]
FilterCalls == [op : {"filter"}, val : Values]

Calls == PushCalls \cup PopCalls \cup MoveCalls \cup InsertCalls \cup FilterCalls

(* The call adds an element.                                               *)
Grows(c) == c \in PushCalls \cup InsertCalls

-----------------------------------------------------------------------------

Init ==
  /\ list = <<>>
  /\ call = Idle
  /\ ret = None

(* A client starts a call.  move_cursor asserts that its target is at most *)
(* the length.                                                             *)
Invoke(c) ==
  /\ call = Idle
  /\ Grows(c) => Len(list) < MaxLen
  /\ c \in MoveCalls => c.at <= Len(list)
  /\ call' = c
  /\ UNCHANGED <<list, ret>>

Answer(value) ==
  /\ call' = Idle
  /\ ret' = value

Push ==
  /\ call \in PushCalls
  /\ list' = Append(list, call.val)
  /\ Answer(None)

Pop ==
  /\ call \in PopCalls
  /\ IF call.at < Len(list)
     THEN /\ list' = SubSeq(list, 1, call.at) \o SubSeq(list, call.at + 2, Len(list))
          /\ Answer(list[call.at + 1])
     ELSE /\ list' = list
          /\ Answer(None)

MoveCursor ==
  /\ call \in MoveCalls
  /\ list' = list
  /\ Answer(None)

Insert ==
  /\ call \in InsertCalls
  /\ list' = InsertRelative(list, call.val, call.rel, call.after)
  /\ Answer(None)

Filter ==
  /\ call \in FilterCalls
  /\ list' = Without(list, {call.val})
  /\ Answer(None)

Next ==
  \/ \E c \in Calls : Invoke(c)
  \/ Push \/ Pop \/ MoveCursor \/ Insert \/ Filter

Spec == Init /\ [][Next]_listVars
=============================================================================
