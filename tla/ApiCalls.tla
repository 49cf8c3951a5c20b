------------------------------ MODULE ApiCalls ------------------------------
(***************************************************************************)
(* What the coreapi client promises to its caller, without saying how: an    *)
(* action either throws at once or returns a promise, and a promise settles  *)
(* once.  The response callback hears the answer a promise settles with, and *)
(* nothing of an answer that has no content or does not come.                *)
(***************************************************************************)
CONSTANTS
    Calls,    \* the calls of action() a page makes
    Answers,  \* answers with a content
    Useful,   \* those that are successful and can be decoded
    Absent

VARIABLES
    outcome,  \* what became of a call
    heard     \* the answer its response callback was called with

TypeOK ==
    /\ outcome \in [Calls -> {"none", "thrown", "pending", "resolved", "rejected"}]
    /\ heard \in [Calls -> Answers \cup {Absent}]

Init ==
    /\ outcome = [c \in Calls |-> "none"]
    /\ heard = [c \in Calls |-> Absent]

Ask(c) ==
    /\ outcome[c] = "none"
    /\ \E o \in {"thrown", "pending"} : outcome' = [outcome EXCEPT ![c] = o]
    /\ UNCHANGED heard

\* No content, or no answer.
SettleSilently(c) ==
    /\ outcome[c] = "pending"
    /\ \E o \in {"resolved", "rejected"} : outcome' = [outcome EXCEPT ![c] = o]
    /\ UNCHANGED heard

SettleWith(c, answer) ==
    /\ outcome[c] = "pending"
    /\ outcome' = [outcome EXCEPT ![c] = IF answer \in Useful THEN "resolved" ELSE "rejected"]
    /\ heard' = [heard EXCEPT ![c] = answer]

Settle(c) == SettleSilently(c) \/ \E a \in Answers : SettleWith(c, a)

Next == \E c \in Calls : Ask(c) \/ Settle(c)

vars == <<outcome, heard>>

Safety == Init /\ [][Next]_vars
Spec == Safety /\ \A c \in Calls : WF_vars(Settle(c))
=============================================================================
