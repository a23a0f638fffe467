----------------------------- MODULE Suspension -----------------------------
(***************************************************************************)
(* What thread_suspend and thread_resume promise (core/linux/os.c): each   *)
(* suspension is a hold on its target; a thread is frozen only while it is *)
(* held, moves only while it is not frozen, and is let go only when its    *)
(* last hold is.                                                           *)
(***************************************************************************)
EXTENDS Naturals

CONSTANT Thread

VARIABLES holds,      \* the number of holds on each thread
          frozen,     \* the threads that have stopped
          place       \* where each thread's code is

suspension == <<holds, frozen, place>>

Init == /\ holds = [t \in Thread |-> 0]
        /\ frozen = {}
        /\ place \in [Thread -> {"cache", "dr"}]

(* Holding and letting go are steps of another thread, which may itself    *)
(* move to a new place by them.                                            *)
Holder(t) == /\ t \notin frozen
             /\ \A u \in Thread \ {t} : place'[u] = place[u]

Hold(t, u) == /\ Holder(t)
              /\ holds' = [holds EXCEPT ![u] = @ + 1]
              /\ UNCHANGED frozen

Release(t, u) == /\ Holder(t)
                 /\ holds[u] > 0
                 /\ holds' = [holds EXCEPT ![u] = @ - 1]
                 /\ UNCHANGED frozen

Freeze(u) == /\ holds[u] > 0
             /\ frozen' = frozen \cup {u}
             /\ UNCHANGED <<holds, place>>

Thaw(u) == /\ holds[u] = 0
           /\ frozen' = frozen \ {u}
           /\ UNCHANGED <<holds, place>>

Move(t) == Holder(t) /\ UNCHANGED <<holds, frozen>>

Next == \E t \in Thread : \/ Freeze(t) \/ Thaw(t) \/ Move(t)
                          \/ \E u \in Thread \ {t} : Hold(t, u) \/ Release(t, u)

Spec == Init /\ [][Next]_suspension
=============================================================================
