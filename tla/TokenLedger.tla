---------------------------- MODULE TokenLedger ----------------------------
(***************************************************************************)
(* What a contract that keeps other people's tokens promises: it holds     *)
(* some tokens and owes some of them, never more than it holds.  Tokens    *)
(* that arrive may be credited, now or later; tokens leave only when they  *)
(* are debited from some account; nothing is credited that is not held.    *)
(***************************************************************************)
EXTENDS Integers

VARIABLES held, owed

Init == held = 0 /\ owed = 0

\* Tokens arrive; at most all that is held is credited.
Receive ==
    /\ held' \in Int /\ owed' \in Int
    /\ held' >= held
    /\ owed' >= owed
    /\ owed' <= held'

\* Accounts are debited, and at most the debited tokens leave.
Pay ==
    /\ held' \in Int /\ owed' \in Int
    /\ held' <= held
    /\ owed - owed' >= held - held'

Next == Receive \/ Pay

Spec == Init /\ [][Next]_<<held, owed>>

\* The point of it all: everyone could be paid out.
Covered == owed <= held

=============================================================================
