----------------------------- MODULE CursorList -----------------------------
(* What tasks/c_advanced/push-pop-dlink-list promises its callers: a list of *)
(* integers and a cursor.  The nodes, their addresses and their links are    *)
(* not visible here; DList implements this module.                           *)
EXTENDS Integers, Sequences

CONSTANTS Value,     \* the integers the commands push
          MaxLen     \* bound: the longest list the commands build

VARIABLES list,      \* the values, head first
          pos,       \* the cursor: an index of list, 0 when list is empty
          printed,   \* the sequence of the values popped so far, newest last
          exit       \* "run", "done" (end of the commands) or "abort" (assert)

vars == <<list, pos, printed, exit>>

Init == list = <<>> /\ pos = 0 /\ printed = <<>> /\ exit = "run"

\* The value goes in front of the cursor, and the cursor moves onto it.
Push(v) ==
    /\ exit = "run" /\ Len(list) < MaxLen
    /\ pos' = IF list = <<>> THEN 1 ELSE pos
    /\ list' = SubSeq(list, 1, pos' - 1) \o <<v>> \o SubSeq(list, pos', Len(list))
    /\ UNCHANGED <<printed, exit>>

\* The cursor's value goes out; the cursor moves to the predecessor, or to the
\* successor when there is none.
Pop ==
    /\ exit = "run" /\ list # <<>>
    /\ printed' = Append(printed, list[pos])
    /\ list' = SubSeq(list, 1, pos - 1) \o SubSeq(list, pos + 1, Len(list))
    /\ pos' = IF pos > 1 THEN pos - 1 ELSE IF Len(list) > 1 THEN 1 ELSE 0
    /\ UNCHANGED exit

Move(d) ==
    /\ exit = "run" /\ pos + d \in DOMAIN list
    /\ pos' = pos + d
    /\ UNCHANGED <<list, printed, exit>>

\* Walking off the list, or an allocation that fails, ends the program with no
\* cursor; a failure the caller expected (push!) changes nothing.
Abort == exit = "run" /\ exit' = "abort" /\ pos' = 0 /\ UNCHANGED <<list, printed>>

Finish == exit = "run" /\ exit' = "done" /\ UNCHANGED <<list, pos, printed>>

Next == \/ \E v \in Value : Push(v)
        \/ Pop
        \/ \E d \in {-1, 1} : Move(d)
        \/ Abort \/ Finish

Spec == Init /\ [][Next]_vars
=============================================================================
