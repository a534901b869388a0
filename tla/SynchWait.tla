----------------------------- MODULE SynchWait -----------------------------
(***************************************************************************)
(* The wait objects the socket calls of the TCP stack sleep on              *)
(* (include/synch_wait.h): a condition variable with two flags.  Every       *)
(* operation runs under the lock of the object, so each is one step; the      *)
(* test of the sleep flag that the packet handlers make before a wakeup is    *)
(* part of WakeUp, as they make it: without the lock.  dead stays 0, for      *)
(* nothing calls wait_exit, and pthread_cond_wait returns on a signal only.   *)
(***************************************************************************)

SynchWaits == [notified : BOOLEAN, sleep : BOOLEAN]

wait_init == [notified |-> FALSE, sleep |-> FALSE]

\* A caller enters sleep_on; it returns when it may, and then resets w.
SleepOn(w) == [w EXCEPT !.sleep = TRUE]
MayReturn(w) == w.notified
Returned(w) == wait_init

\* "if (w->sleep) wake_up(w)"
WakeUp(w) == [w EXCEPT !.notified = @ \/ w.sleep]
=============================================================================
