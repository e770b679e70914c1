------------------------------- MODULE LikeView -------------------------------
(* What a user sees of his likes (or follows): a switch moves only where a  *)
(* request in progress asks it to, and each request moves it once at most.  *)
CONSTANTS Targets, Requesters
VARIABLES
    liked,   \* the switches
    asking   \* what each requester asks for: {<<target, value>>} or {}

Init ==
    /\ liked \in [Targets -> BOOLEAN]
    /\ asking = [r \in Requesters |-> {}]

Done(r) == asking' = [asking EXCEPT ![r] = {}]

Ask(r, t, value) ==
    /\ asking[r] = {}
    /\ asking' = [asking EXCEPT ![r] = {<<t, value>>}]
    /\ UNCHANGED liked

Grant(r, t, value) ==
    /\ <<t, value>> \in asking[r]
    /\ liked' = [liked EXCEPT ![t] = value]
    /\ Done(r)

(* The request came to nothing, or was broken off. *)
Leave(r) == Done(r) /\ UNCHANGED liked

Next ==
    \E r \in Requesters :
        \/ Leave(r)
        \/ \E t \in Targets, value \in BOOLEAN : Ask(r, t, value) \/ Grant(r, t, value)

Spec == Init /\ [][Next]_<<liked, asking>>
=============================================================================
