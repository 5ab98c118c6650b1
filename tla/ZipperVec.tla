------------------------------ MODULE ZipperVec ------------------------------
(***************************************************************************)
(* aris/src/zipper_vec.rs: a list with an edit cursor, kept as the entries *)
(* before the cursor (prefix) and the entries after it in reverse order    *)
(* (suffix_r), so that both ends next to the cursor are ends of a Vec.     *)
(* One iteration of a cursor loop is one step, so the representation is    *)
(* also looked at in the middle of a call.                                 *)
(***************************************************************************)
EXTENDS ListOps, SequencesExt

CONSTANTS Values,  \* the elements a list may hold
          MaxLen,  \* bound: no call makes the list longer than this
          None     \* the absence of a value (Option::None)

ASSUME MaxLenAssumption == MaxLen \in Nat
ASSUME NoneAssumption == None \notin Values

VARIABLES prefix,    \* entries before the cursor
          suffix_r,  \* entries after the cursor, nearest last
          call,      \* the call in progress, or Idle
          phase,     \* which loop of the call is running
          ret        \* what the last finished call returned

vars == <<prefix, suffix_r, call, phase, ret>>

cursor_pos == Len(prefix)
len == Len(prefix) + Len(suffix_r)
iter == prefix \o Reverse(suffix_r)

(* ZipperVec implements a plain list: its iteration order.                 *)
Plain == INSTANCE EditList WITH list <- iter

Idle == Plain!Idle
PushCalls == Plain!PushCalls
PopCalls == Plain!PopCalls
MoveCalls == Plain!MoveCalls
InsertCalls == Plain!InsertCalls
FilterCalls == Plain!FilterCalls

Phases == {"idle", "move", "rewind", "scan"}

-----------------------------------------------------------------------------

Init ==
  /\ prefix = <<>>
  /\ suffix_r = <<>>
  /\ call = Idle
  /\ phase = "idle"
  /\ ret = None

(* A client starts a call; the guard on MoveCalls is the assertion at the  *)
(* head of move_cursor.                                                    *)
Invoke(c) ==
  /\ call = Idle
  /\ Plain!Grows(c) => len < MaxLen
  /\ c \in MoveCalls => c.at <= len
  /\ call' = c
  /\ phase' = IF c \in InsertCalls /\ len > 0 THEN "rewind" ELSE "move"
  /\ UNCHANGED <<prefix, suffix_r, ret>>

Answer(value) ==
  /\ call' = Idle
  /\ phase' = "idle"
  /\ ret' = value

(* Fault: the entry is copied to the other side of the cursor, not moved.  *)
dec_cursor_copying ==
  /\ prefix # <<>>
  /\ suffix_r' = Append(suffix_r, Last(prefix))
  /\ UNCHANGED prefix

dec_cursor ==
  /\ prefix # <<>>
  /\ prefix' = Front(prefix)
  /\ suffix_r' = Append(suffix_r, Last(prefix))

inc_cursor ==
  /\ suffix_r # <<>>
  /\ prefix' = Append(prefix, Last(suffix_r))
  /\ suffix_r' = Front(suffix_r)

(* Where the cursor must stand before the call takes effect; it stays      *)
(* where it is in a pop beyond the end, a filter, and an insertion into an *)
(* empty list.                                                             *)
target ==
  CASE call \in PushCalls -> len
    [] call \in MoveCalls -> call.at
    [] call \in PopCalls /\ call.at < len -> call.at
    [] OTHER -> cursor_pos

(* Fault: the forward loop compares with >=.                               *)
move_cursor_past ==
  /\ phase = "move"
  /\ \/ target >= cursor_pos /\ inc_cursor
     \/ target < cursor_pos /\ dec_cursor
  /\ UNCHANGED <<call, phase, ret>>

(* One iteration of either loop of move_cursor.                            *)
move_cursor ==
  /\ phase = "move"
  /\ \/ target > cursor_pos /\ inc_cursor
     \/ target < cursor_pos /\ dec_cursor
  /\ UNCHANGED <<call, phase, ret>>

Moved == phase = "move" /\ cursor_pos = target

PushDone ==
  /\ Moved /\ call \in PushCalls
  /\ prefix' = Append(prefix, call.val)
  /\ UNCHANGED suffix_r
  /\ Answer(None)

MoveDone ==
  /\ Moved /\ call \in MoveCalls
  /\ UNCHANGED <<prefix, suffix_r>>
  /\ Answer(None)

PopDone ==
  /\ Moved /\ call \in PopCalls
  /\ UNCHANGED prefix
  /\ IF call.at < len
     THEN suffix_r' = Front(suffix_r) /\ Answer(Last(suffix_r))
     ELSE suffix_r' = suffix_r /\ Answer(None)

(* insert_relative first moves the cursor to 0 ...                         *)
Rewind ==
  /\ phase = "rewind"
  /\ IF prefix = <<>>
     THEN phase' = "scan" /\ UNCHANGED <<prefix, suffix_r>>
     ELSE dec_cursor /\ UNCHANGED phase
  /\ UNCHANGED <<call, ret>>

(* Fault: the forward loop only looks for the end of the list.             *)
ScanToEnd ==
  /\ phase = "scan"
  /\ suffix_r # <<>>
  /\ inc_cursor
  /\ UNCHANGED <<call, phase, ret>>

(* ... then forward to the first occurrence of rel, if there is one ...    *)
Scan ==
  /\ phase = "scan"
  /\ suffix_r # <<>> /\ Last(suffix_r) # call.rel
  /\ inc_cursor
  /\ UNCHANGED <<call, phase, ret>>

(* Fault: insertion after rel does not first step over it.                 *)
InsertDoneBefore ==
  /\ phase = "scan"
  /\ suffix_r # <<>> => Last(suffix_r) = call.rel
  /\ \/ call.after /\ suffix_r' = Append(suffix_r, call.val) /\ UNCHANGED prefix
     \/ ~call.after /\ prefix' = Append(prefix, call.val) /\ UNCHANGED suffix_r
  /\ Answer(None)

(* ... and inserts on the side of the cursor that the caller asked for.    *)
InsertDone ==
  /\ phase = "scan"
  /\ suffix_r # <<>> => Last(suffix_r) = call.rel
  /\ \/ /\ call.after
        /\ IF suffix_r = <<>>
           THEN prefix' = prefix /\ suffix_r' = <<call.val>>
           ELSE /\ prefix' = Append(prefix, Last(suffix_r))
                /\ suffix_r' = Append(Front(suffix_r), call.val)
     \/ /\ ~call.after
        /\ prefix' = Append(prefix, call.val)
        /\ suffix_r' = suffix_r
  /\ Answer(None)

InsertIntoEmpty ==
  /\ Moved /\ call \in InsertCalls
  /\ prefix' = Append(prefix, call.val)
  /\ UNCHANGED suffix_r
  /\ Answer(None)

(* How the pools drop a key from a list: from_vec of the entries of iter   *)
(* that differ from it.                                                    *)
FilterDone ==
  /\ Moved /\ call \in FilterCalls
  /\ prefix' = Without(iter, {call.val})
  /\ suffix_r' = <<>>
  /\ Answer(None)

Step ==
  \/ move_cursor \/ PushDone \/ MoveDone \/ PopDone
  \/ Rewind \/ Scan \/ InsertDone \/ InsertIntoEmpty
  \/ FilterDone

Next == (\E c \in Plain!Calls : Invoke(c)) \/ Step

Spec == Init /\ [][Next]_vars

(* A call is straight-line code of one thread: it keeps running.           *)
FairSpec == Spec /\ WF_vars(Step)

(* get(i), which reads without moving the cursor.                          *)
get(i) ==
  CASE i < cursor_pos -> prefix[i + 1]
    [] i >= cursor_pos /\ i - cursor_pos < Len(suffix_r) -> suffix_r[i - cursor_pos + 1]
    [] OTHER -> None

-----------------------------------------------------------------------------

(* Types of the representation, also in the middle of the cursor loops:    *)
(* the two halves never hold more entries than calls have put there. A     *)
(* call is in one of its loops exactly while it is in progress.            *)
TypeOK ==
  /\ prefix \in Seq(Values)
  /\ suffix_r \in Seq(Values)
  /\ len <= MaxLen
  /\ call \in Plain!Calls \cup {Idle}
  /\ phase \in Phases
  /\ ret \in Values \cup {None}
  /\ phase = "idle" <=> call = Idle
  /\ phase \in {"rewind", "scan"} => call \in InsertCalls

(* The scan of insert_relative has passed no occurrence of rel, and a loop *)
(* of insert_relative never starts on an empty list; the bound on the      *)
(* length allows for the element the call is about to add.                 *)
ScanInv ==
  /\ Plain!Grows(call) => len < MaxLen
  /\ call \in MoveCalls => call.at <= len
  /\ phase = "scan" => \A i \in 1 .. Len(prefix) : prefix[i] # call.rel
  /\ (call \in InsertCalls /\ phase = "move") => len = 0

(* Wherever the cursor stands, push, pop, insert_relative and filtering    *)
(* do to the iteration order exactly what they do to a plain list, and     *)
(* pop answers the entry a plain list has there.                           *)
RefinesPlainList == Plain!Spec

(* The cursor loops of move_cursor and insert_relative end: every call     *)
(* returns.                                                                *)
CallsReturn == (call # Idle) ~> (call = Idle)

(* get(i) is the i-th entry of the list the struct's comment describes,    *)
(* [a,b,c, EDIT_CURSOR, d, e, f] for (vec![a, b, c], vec![f, e, d]).       *)
GetAgreesWithIter ==
  call = Idle => \A i \in 0 .. len - 1 : get(i) = iter[i + 1]
=============================================================================
