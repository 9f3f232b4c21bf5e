-------------------------- MODULE MCNasaAccessLive --------------------------
(***************************************************************************)
(* Liveness of NasaAccess.  The lock prefers nobody, so a waiter could be  *)
(* overtaken for ever by an endless stream of requests; here the stream is *)
(* finite (MaxRequests) and weak fairness of the threads has to be enough. *)
(***************************************************************************)
EXTENDS NasaAccess

CONSTANT MaxRequests    \* bound: requests of one behaviour

VARIABLE requests       \* how many have arrived

LiveVars == <<vars, requests>>

LiveInit == Init /\ requests = 0

\* A new request, while the budget lasts
Request ==
    /\ requests < MaxRequests
    /\ requests' = requests + 1
    /\ \E w \in Workers, d \in Windows : Arrive(w, d)

LiveNext ==
    \/ Request
    \/ /\ \/ \E w \in Workers : Step(w)
          \/ Tick
          \/ Restart
       /\ UNCHANGED requests

LiveSpec == LiveInit /\ [][LiveNext]_LiveVars /\ Fairness
=============================================================================
