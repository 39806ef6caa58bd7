-------------------------- MODULE IdempotencyWindow --------------------------
(***************************************************************************)
(* What the webhook pipeline promises about an event whose id is stable:   *)
(* its effects take place at most once per window.  A window opens with    *)
(* the effect and closes only when Redis drops a completed job, which is   *)
(* counted; a worker crash or a lost database write ends the promise.      *)
(***************************************************************************)
EXTENDS Naturals

CONSTANT Keys       \* the events the promise is about

VARIABLES
    done,   \* effects of each event so far
    closed, \* completed jobs of each event dropped so far
    held,   \* events in an open window
    loose   \* the promise has ended

Init ==
    /\ done = [e \in Keys |-> 0]
    /\ closed = [e \in Keys |-> 0]
    /\ held = {}
    /\ loose = FALSE

TakeEffect(e) ==
    /\ loose \/ e \notin held
    /\ done' = [done EXCEPT ![e] = @ + 1]
    /\ held' = IF loose THEN {} ELSE held \cup {e}
    /\ UNCHANGED <<closed, loose>>

CloseWindow(e) ==
    /\ loose \/ e \in held
    /\ closed' = [closed EXCEPT ![e] = @ + 1]
    /\ held' = held \ {e}
    /\ UNCHANGED <<done, loose>>

EndPromise ==
    /\ ~loose
    /\ loose' = TRUE
    /\ held' = {}
    /\ UNCHANGED <<done, closed>>

Next ==
    \/ \E e \in Keys : TakeEffect(e) \/ CloseWindow(e)
    \/ EndPromise

Spec == Init /\ [][Next]_<<done, closed, held, loose>>
=============================================================================
