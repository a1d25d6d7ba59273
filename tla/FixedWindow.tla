----------------------------- MODULE FixedWindow -----------------------------
(***************************************************************************)
(* What a rate limiter promises each visitor: Rate requests for each       *)
(* window, the window beginning with the first request after the last one  *)
(* ended.  It forgets nobody.                                              *)
(***************************************************************************)
EXTENDS Integers

CONSTANTS IP, Rate, Window

VARIABLES
    left,     \* requests left in the window of each visitor
    reset,    \* ticks until that window ends; 0: no window is open
    answer    \* the last answer to each visitor

vars == <<left, reset, answer>>

Init ==
    /\ left = [ip \in IP |-> Rate]
    /\ reset = [ip \in IP |-> 0]
    /\ answer = [ip \in IP |-> "none"]

Grant(ip) ==
    /\ left[ip] > 0
    /\ left' = [left EXCEPT ![ip] = @ - 1]
    /\ reset' = [reset EXCEPT ![ip] = IF @ = 0 THEN Window ELSE @]
    /\ answer' = [answer EXCEPT ![ip] = "granted"]

Refuse(ip) ==
    /\ left[ip] = 0
    /\ answer' = [answer EXCEPT ![ip] = "refused"]
    /\ UNCHANGED <<left, reset>>

Tick ==
    /\ reset' = [ip \in IP |-> IF reset[ip] > 0 THEN reset[ip] - 1 ELSE 0]
    /\ left' = [ip \in IP |-> IF reset[ip] <= 1 THEN Rate ELSE left[ip]]
    /\ UNCHANGED answer

Next == Tick \/ \E ip \in IP : Grant(ip) \/ Refuse(ip)

Spec == Init /\ [][Next]_vars
=============================================================================
