--------------------------- MODULE RequestService ---------------------------
(***************************************************************************)
(* What the router promises a front end about a request, whatever its      *)
(* threads, queues and descriptors do.  A request gets one answer: either  *)
(* the router refuses it, or the worker's answer comes.  Only a request    *)
(* that could not be sent to its worker may get two, ERR_SEND_FAIL and     *)
(* the worker's answer, in either order: what was sent of it may have      *)
(* reached the worker.  Nobody is promised an answer here; that is a       *)
(* matter of fairness.                                                     *)
(***************************************************************************)
EXTENDS SequencesExt

CONSTANTS Req,
          Refusals,         \* what the router answers instead of a worker
          SendFail, Reply   \* ERR_SEND_FAIL, and the worker's answer

VARIABLES asked,    \* the requests read from front ends
          unsure,   \* those of them whose sending to a worker failed
          outcome   \* Req -> the answers sent back so far

vars == <<asked, unsure, outcome>>

Init == /\ asked = {} /\ unsure = {}
        /\ outcome = [r \in Req |-> << >>]

Give(r, k) == outcome' = [outcome EXCEPT ![r] = Append(@, k)]

Ask(r)      == r \notin asked /\ asked' = asked \cup {r} /\ UNCHANGED <<unsure, outcome>>
AskInVain(r, k) == r \notin asked /\ asked' = asked \cup {r} /\ Give(r, k) /\ UNCHANGED unsure

Refuse(r, k) == /\ r \in asked \ unsure /\ outcome[r] = << >>
                /\ Give(r, k)
                /\ UNCHANGED <<asked, unsure>>

LoseTrack(r) == /\ r \in asked \ unsure
                /\ outcome[r] = << >>
                /\ unsure' = unsure \cup {r}
                /\ UNCHANGED <<asked, outcome>>

SayFailed(r) == /\ r \in unsure /\ SendFail \notin Range(outcome[r])
                /\ Give(r, SendFail)
                /\ UNCHANGED <<asked, unsure>>

SayReply(r) == /\ r \in asked
               /\ \/ outcome[r] = << >>
                  \/ r \in unsure /\ outcome[r] = <<SendFail>>
               /\ Give(r, Reply)
               /\ UNCHANGED <<asked, unsure>>

Next == \E r \in Req :
          \/ Ask(r) \/ LoseTrack(r) \/ SayFailed(r) \/ SayReply(r)
          \/ \E k \in Refusals : AskInVain(r, k) \/ Refuse(r, k)

Spec == Init /\ [][Next]_vars
=============================================================================
