--------------------------- MODULE ReadersWriter ---------------------------
(***************************************************************************)
(* What read_write_lock_t promises (core/utils.c: "allows multiple readers *)
(* or alternatively a single writer"), with what the lock's users rely on: *)
(* a writer may also read, and a writer is let in while readers it has     *)
(* shut out are leaving.                                                   *)
(***************************************************************************)
CONSTANTS Thread,
          NoThread

VARIABLES readers,    \* the threads in a read section
          owner       \* the thread in the write section, or NoThread

Init == readers = {} /\ owner = NoThread

EnterRead(t) == /\ t \notin readers
                /\ owner \in {NoThread, t}
                /\ readers' = readers \cup {t}
                /\ UNCHANGED owner

LeaveRead(t) == /\ t \in readers
                /\ readers' = readers \ {t}
                /\ UNCHANGED owner

EnterWrite(t) == /\ owner = NoThread
                 /\ readers = {}
                 /\ owner' = t
                 /\ UNCHANGED readers

LeaveWrite(t) == /\ owner = t
                 /\ owner' = NoThread
                 /\ UNCHANGED readers

Next == \E t \in Thread : EnterRead(t) \/ LeaveRead(t)
                              \/ EnterWrite(t) \/ LeaveWrite(t)

Spec == Init /\ [][Next]_<<readers, owner>>
=============================================================================
