---------------------------- MODULE LinkingGate ----------------------------
(***************************************************************************)
(* What the flushing protocol of core/fragment.c promises: a thread that   *)
(* may touch links, fragments or traces (it is couldbelinking) is inside a *)
(* gate; a flusher closes the gate to the threads one by one, changes the  *)
(* fragments of others only while nobody else is inside, and opens it      *)
(* again.  One flush is under way at a time.                               *)
(***************************************************************************)
EXTENDS Naturals

CONSTANTS Thread,
          NoThread    \* anything but a thread

VARIABLES inside,     \* the threads that may be linking
          closed,     \* the threads the flusher keeps outside
          active,     \* the flushing thread, or NoThread
          unlinks     \* how often shared fragments have been unlinked

gate == <<inside, closed, active, unlinks>>

Init == inside = {} /\ closed = {} /\ active = NoThread /\ unlinks = 0

Enter(t) == /\ t \notin inside \cup closed
            /\ inside' = inside \cup {t}
            /\ UNCHANGED <<closed, active, unlinks>>

Leave(t) == /\ t \in inside
            /\ inside' = inside \ {t}
            /\ UNCHANGED <<closed, active, unlinks>>

Begin(f) == /\ active = NoThread
            /\ f \notin inside
            /\ active' = f
            /\ UNCHANGED <<inside, closed, unlinks>>

Close(t) == /\ active # NoThread
            /\ t \notin inside
            /\ closed' = closed \cup {t}
            /\ UNCHANGED <<inside, active, unlinks>>

Open(t) == /\ active # NoThread
           /\ t \in closed
           /\ closed' = closed \ {t}
           /\ UNCHANGED <<inside, active, unlinks>>

(* The one thing done to all threads at once needs the gate empty. *)
Unlink == /\ active # NoThread
          /\ inside = {}
          /\ unlinks' = unlinks + 1
          /\ UNCHANGED <<inside, closed, active>>

Finish == /\ active # NoThread
          /\ closed = {}
          /\ active' = NoThread
          /\ UNCHANGED <<inside, closed, unlinks>>

Next == \/ \E t \in Thread : Enter(t) \/ Leave(t) \/ Begin(t) \/ Close(t) \/ Open(t)
        \/ Unlink \/ Finish

Spec == Init /\ [][Next]_gate
=============================================================================
