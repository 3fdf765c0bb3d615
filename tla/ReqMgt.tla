------------------------------- MODULE ReqMgt -------------------------------
(***************************************************************************)
(* The router's requests (router/req_mgt.cpp): the bounded queue between   *)
(* the front-end reactor and the processors, and the map of the requests   *)
(* that wait for a worker's answer, keyed by msg_id.  A msg_id is unique   *)
(* (UID::uid_inc), so the request itself stands for it.  The queue locks   *)
(* itself and the map has a mutex: each operation is one step.             *)
(*                                                                         *)
(* check_asyn_req, which would expire waiting requests after 30 seconds,   *)
(* has no action: only Req_Timer_Handler calls it, and the router's main   *)
(* registers no timer.                                                     *)
(***************************************************************************)
EXTENDS Naturals, Sequences

CONSTANT MaxQueue   \* _max_queue_size; 0 is no limit

VARIABLES queue,    \* _queue: the requests to be processed
          pending   \* _reqs: the requests that wait for a worker

Init == queue = << >> /\ pending = {}

Full == MaxQueue # 0 /\ Len(queue) >= MaxQueue

PushReq(r) == ~Full /\ queue' = Append(queue, r) /\ UNCHANGED pending

(* Mutant: the request is read and not taken out.                          *)
PeekReq(r) == queue # << >> /\ r = Head(queue) /\ UNCHANGED <<queue, pending>>

(* get_req blocks until there is a request. *)
GetReq(r) == /\ queue # << >>
             /\ r = Head(queue)
             /\ queue' = Tail(queue)
             /\ UNCHANGED pending

(* Mutant: the request is not inserted.                                    *)
SkipAsynReq(r) == UNCHANGED <<queue, pending>>

PushAsynReq(r) == pending' = pending \cup {r} /\ UNCHANGED queue

(* get_asyn_req finds the request and removes it in one critical section.  *)
GetAsynReq(r) == /\ r \in pending
                 /\ pending' = pending \ {r}
                 /\ UNCHANGED queue

DelAsynReq(r) == pending' = pending \ {r} /\ UNCHANGED queue
=============================================================================
