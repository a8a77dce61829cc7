-------------------------- MODULE RequestContract --------------------------
(***************************************************************************)
(* What the asynchronous client promises for each request: its callback is *)
(* called at most once, only after the request was issued, and, for a      *)
(* request with a deadline, eventually.                                    *)
(***************************************************************************)
EXTENDS Naturals

CONSTANTS Requests,  \* all requests
          Timed      \* those with a deadline

VARIABLES issued,    \* requests handed to the client
          called     \* how often the callback of each was called

cvars == <<issued, called>>

ContractInit == issued = {} /\ called = [r \in Requests |-> 0]

Issue(r) ==
    /\ r \notin issued
    /\ issued' = issued \cup {r}
    /\ UNCHANGED called

CallBack(r) ==
    /\ r \in issued
    /\ called[r] = 0
    /\ called' = [called EXCEPT ![r] = 1]
    /\ UNCHANGED issued

ContractNext == \E r \in Requests : Issue(r) \/ CallBack(r)

ContractSafety == ContractInit /\ [][ContractNext]_cvars

Deadlines == \A r \in Timed : WF_cvars(CallBack(r))

ContractSpec == ContractSafety /\ Deadlines
=============================================================================
