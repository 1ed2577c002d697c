------------------------------ MODULE Supervisor ------------------------------
(***************************************************************************)
(* What the command line supervisors of one child promise, whatever way    *)
(* they hear of a death: there is one child at a time; each start is the   *)
(* first one, the one a reload asks for, or paid from the restart budget   *)
(* after a failure; a child that ends well ends the supervisor; once told  *)
(* to stop, by a signal or a deadline, a supervisor starts nobody; and it  *)
(* leaves nobody behind.                                                   *)
(***************************************************************************)
EXTENDS Naturals

VARIABLES
  budget, \* the restarts that the command line allows
  child,  \* "none", "run", and what it has ended as: "ok", "failed"
  due,    \* a start is owed
  left,   \* what is left of the budget
  told,   \* asked to stop
  over    \* "no"; "left" of its own will; "broken" by a failing call or a signal
vars == <<budget, child, due, left, told, over>>

Ended == child \in {"ok", "failed"}

Init ==
  /\ budget \in Nat /\ left = budget
  /\ child = "none" /\ due = TRUE /\ told = FALSE /\ over = "no"

Start ==
  /\ over = "no" /\ child = "none" /\ due /\ ~told
  /\ child' = "run" /\ due' = FALSE
  /\ UNCHANGED <<budget, left, told, over>>

\* A child may outlive a supervisor that broke.
Die ==
  /\ child = "run" /\ child' \in {"ok", "failed"}
  /\ UNCHANGED <<budget, due, left, told, over>>

\* A new account, and a new child once the present one is gone.
Reload ==
  /\ over = "no" /\ ~told
  /\ left' = budget /\ due' = TRUE
  /\ UNCHANGED <<budget, child, told, over>>

\* The end of a child that is to be replaced anyway.
Collect ==
  /\ over = "no" /\ Ended /\ due
  /\ child' = "none"
  /\ UNCHANGED <<budget, due, left, told, over>>

Retry ==
  /\ over = "no" /\ child = "failed" /\ ~due /\ ~told /\ left > 0
  /\ child' = "none" /\ due' = TRUE /\ left' = left - 1
  /\ UNCHANGED <<budget, told, over>>

Tell ==
  /\ over = "no" /\ told' = TRUE /\ due' = FALSE
  /\ UNCHANGED <<budget, child, left, over>>

\* Told to, or with nothing more to do, and not before the child was collected.
Leave ==
  /\ over = "no" /\ child # "run"
  /\ \/ told' = TRUE
     \/ UNCHANGED told /\ ~due /\ (child = "ok" \/ (child = "failed" /\ left = 0))
  /\ over' = "left" /\ child' = "none" /\ due' = FALSE
  /\ UNCHANGED <<budget, left>>

\* fork, exec or pidfd_open fails, perhaps with the child just started; or the
\* supervisor is killed.
Break ==
  /\ over = "no" /\ over' = "broken" /\ due' = FALSE
  /\ UNCHANGED child \/ (due /\ child = "none" /\ child' = "run")
  /\ UNCHANGED <<budget, left, told>>

Next == Start \/ Die \/ Reload \/ Collect \/ Retry \/ Tell \/ Leave \/ Break

Spec == Init /\ [][Next]_vars
=============================================================================
