------------------------------- MODULE Router -------------------------------
(***************************************************************************)
(* The router process: a reactor thread for the front ends, a reactor      *)
(* thread for the workers and a pool of processors, around the request     *)
(* queue, the map of waiting requests, the session table, the worker       *)
(* registry and the process's descriptors.                                 *)
(*                                                                         *)
(* A connection is a name used once.  A descriptor denotes at most one     *)
(* connection at a time, and the kernel may give any free descriptor to    *)
(* the next connection accepted, on either port.  The environment are the  *)
(* peers: front ends send requests, workers register and answer, both may  *)
(* close or die, and a send may fail after any part of the bytes went out. *)
(***************************************************************************)
EXTENDS Integers, SequencesExt

CONSTANTS App,        \* connections of front ends
          WConn,      \* connections of workers
          Fd, Proc, Req, WorkerId, GroupId,
          IdOf,       \* WConn -> WorkerId: who connects
          GroupOf,    \* WConn -> GroupId: the service it registers
          Content,    \* what front ends ask for
          Mortal,     \* the connections whose peer may close or die
          Failure,    \* the ways a send to a worker may fail
          MaxQueue, MaxFailed, MaxTimeout,
          MaxRegister,  \* bound: accepted registrations per connection
          None

Conn   == App \cup WConn
Thread == Proc \cup {"front", "back"}

(* A request asks for a service, or it is one to refuse: longer than       *)
(* MAX_MSG_LEN, or with a bad head or from an address not in the white     *)
(* list, which Processor::svc answers alike.                               *)
TooLong == "toolong"
Invalid == "invalid"

(* What is sent back: an error of the router, or the worker's answer.      *)
Kind == {TooLong, "full", Invalid, "noworker", "sendfail", "reply"}

(* How a failing Socket_Oper::send_n may end: what it reports, and whether *)
(* nothing, a part, or all but the last byte of the data went out.         *)
FailureType == [ret : {"timeout", "error"}, sent : {"nothing", "part", "allbutlast"}]
Success     == [ret |-> "ok", sent |-> "all"]
BadFd       == [ret |-> "error", sent |-> "nothing"]

(* The Worker object of the n-th accepted registration on connection c,    *)
(* which has descriptor f; n = 0 is an object whose registration was       *)
(* refused and that only carries the answer.                               *)
Object == WConn \X (0 .. MaxRegister)
WorkerOn(c, n, f) == [id |-> IdOf[c], fd |-> f, group |-> GroupOf[c], obj |-> <<c, n>>]
Worker == {WorkerOn(o[1], o[2], f) : o \in Object, f \in Fd}

(* The Request object: where it was read from, for which session, what it  *)
(* asks for; and, for the properties, who asks.                            *)
Request == [fd : Fd, session : App, content : Content, from : App]

ASSUME RouterAssumption ==
  /\ App \cap WConn = {} /\ Proc \cap {"front", "back"} = {}
  /\ \A S \in {Conn, Worker, Req, Fd, Thread} : None \notin S
  /\ None \notin Request
  /\ IdOf \in [WConn -> WorkerId] /\ GroupOf \in [WConn -> GroupId]
  /\ GroupId \cap {TooLong, Invalid} = {}
  /\ Content \subseteq GroupId \cup {TooLong, Invalid}
  /\ Mortal \subseteq Conn
  /\ Failure \subseteq FailureType
  /\ MaxQueue \in Nat /\ MaxRegister \in Nat
  /\ MaxFailed \in Nat \ {0} /\ MaxTimeout \in Nat \ {0}

VARIABLES
  sock,      \* Fd -> the connection it denotes, or None
  opened,    \* the connections accepted so far
  gone,      \* the connections whose peer has closed or died
  sessions, ids,         \* SessionMgt
  queue, pending,        \* ReqMgt
  fds, workers, groups,  \* WorkerMgt
  req,       \* Req -> the Request object, or None
  made,      \* WConn -> registrations accepted on it
  stats,     \* Object -> Worker::_unregister_failed_num and _timeout_num
  holder,    \* Object -> the thread that keeps Worker::_mutex, or None
  inbox,     \* WConn -> requests its worker got and has not answered
  torn,      \* WConn -> a frame towards the worker was cut off
  thread,    \* Thread -> where it is and what it holds
  answers    \* Req -> history of what was sent back, and to whom

sessVars  == <<sessions, ids>>
reqVars   == <<queue, pending, req>>
mgtVars   == <<fds, workers, groups, made>>
objVars   == <<stats, holder>>
wireVars  == <<inbox, torn>>
kernVars  == <<sock, opened, gone>>
vars == <<kernVars, sessVars, reqVars, mgtVars, objVars, wireVars, thread, answers>>

Mgt  == INSTANCE WorkerMgt WITH NoWorker <- None
Sess == INSTANCE SessionMgt
Reqs == INSTANCE ReqMgt

-----------------------------------------------------------------------------
(* Between which steps a thread is.                                        *)
PC == {"idle", "hangup", "route", "invalid", "noworker", "push", "send", "rsp",
       "unregister", "close", "fail", "del", "forward"}

Idle == [pc |-> "idle", req |-> None, worker |-> None, fd |-> None]

Init ==
  /\ sock = [f \in Fd |-> None] /\ opened = {} /\ gone = {}
  /\ Sess!Init /\ Reqs!Init /\ Mgt!Init
  /\ req = [r \in Req |-> None]
  /\ made = [c \in WConn |-> 0]
  /\ stats = [o \in Object |-> [failed |-> 0, timeout |-> 0]]
  /\ holder = [o \in Object |-> None]
  /\ inbox = [c \in WConn |-> {}]
  /\ torn = [c \in WConn |-> FALSE]
  /\ thread = [t \in Thread |-> Idle]
  /\ answers = [r \in Req |-> << >>]

At(t, pc)   == thread[t].pc = pc
Goto(t, pc) == thread' = [thread EXCEPT ![t].pc = pc]
Rest(t)     == thread' = [thread EXCEPT ![t] = Idle]

(* Msg_Oper::send_msg to the descriptor a request was read from.  Its      *)
(* result is ignored by every caller; what counts is whom it went to.      *)
Answer(r, kind) ==
  answers' = [answers EXCEPT ![r] =
                Append(@, [kind |-> kind, to |-> sock[req[r].fd]])]

-----------------------------------------------------------------------------
(* Peers.                                                                  *)

(* The peer closes or its process dies.  Of the answers a worker has not   *)
(* sent yet it may still have put some on the wire.                        *)
PeerCloses(c) ==
  /\ c \in (Mortal \cap opened) \ gone
  /\ gone' = gone \cup {c}
  /\ \/ c \in App /\ UNCHANGED inbox
     \/ c \in WConn /\ \E sent \in SUBSET inbox[c] : inbox' = [inbox EXCEPT ![c] = sent]
  /\ UNCHANGED <<sock, opened, sessVars, reqVars, mgtVars, objVars, torn, thread, answers>>

-----------------------------------------------------------------------------
(* The front-end reactor: Req_TCP_Event_Handler.                           *)

(* handle_accept: the new connection gets a session.                       *)
AcceptApp(a, f) ==
  /\ At("front", "idle") /\ a \notin opened /\ sock[f] = None
  /\ sock' = [sock EXCEPT ![f] = a]
  /\ opened' = opened \cup {a}
  /\ Sess!InsertSession(f, a)
  /\ UNCHANGED <<gone, reqVars, mgtVars, objVars, wireVars, thread, answers>>

(* handle_input, for one complete line.  Lines shorter than MIN_MSG_LEN    *)
(* are dropped without a trace.  This thread alone pushes, so a queue that *)
(* full() says has room has room, and push_req does not fail.              *)
ReadReq(f, r, g) ==
  /\ At("front", "idle") /\ sock[f] \in App \ gone /\ req[r] = None
  /\ req' = [req EXCEPT ![r] = [fd |-> f, session |-> Sess!SessionOf(f),
                                content |-> g, from |-> sock[f]]]
  /\ IF g = TooLong \/ Reqs!Full
     THEN /\ answers' = [answers EXCEPT ![r] =
               Append(@, [kind |-> IF g = TooLong THEN TooLong ELSE "full",
                          to |-> sock[f]])]
          /\ UNCHANGED <<queue, pending>>
     ELSE Reqs!PushReq(r) /\ UNCHANGED answers
  /\ UNCHANGED <<kernVars, sessVars, mgtVars, objVars, wireVars, thread>>

(* recv returned 0: the reactor calls handle_close, and closes after it.   *)
FrontHangup(f) ==
  /\ At("front", "idle") /\ sock[f] \in App \cap gone
  /\ Sess!RemoveSession(f)
  /\ thread' = [thread EXCEPT !["front"] = [Idle EXCEPT !.pc = "hangup", !.fd = f]]
  /\ UNCHANGED <<kernVars, reqVars, mgtVars, objVars, wireVars, answers>>

(* Reactor::svc's ::close of the descriptor, whatever it denotes by now.   *)
CloseHungUp(t) ==
  /\ t \in {"front", "back"} /\ At(t, "hangup")
  /\ sock' = [sock EXCEPT ![thread[t].fd] = None]
  /\ Rest(t)
  /\ UNCHANGED <<opened, gone, sessVars, reqVars, mgtVars, objVars, wireVars, answers>>

-----------------------------------------------------------------------------
(* The processors: Processor::svc.                                         *)

GetReq(p, r) ==
  /\ At(p, "idle")
  /\ Reqs!GetReq(r)
  /\ thread' = [thread EXCEPT ![p] = [Idle EXCEPT !.pc = "route", !.req = r]]
  /\ UNCHANGED <<kernVars, sessVars, req, mgtVars, objVars, wireVars, answers>>

(* The checks, then the choice of a worker.                                *)
Route(p) ==
  /\ At(p, "route")
  /\ LET g == req[thread[p].req].content IN
     \/ /\ g = Invalid
        /\ Goto(p, "invalid") /\ UNCHANGED mgtVars
     \/ /\ g # Invalid /\ g \notin DOMAIN groups
        /\ Goto(p, "noworker") /\ UNCHANGED mgtVars
     \/ /\ g # Invalid
        /\ \E w \in Worker :
             /\ Mgt!GetWorker(g, w)
             /\ thread' = [thread EXCEPT ![p].pc = "push", ![p].worker = w]
        /\ UNCHANGED made
  /\ UNCHANGED <<kernVars, sessVars, reqVars, objVars, wireVars, answers>>

(* Mutant: svc goes on after it refused an invalid request.                *)
RefuseAndGoOn(p) ==
  /\ thread[p].pc \in {"invalid", "noworker"}
  /\ Answer(thread[p].req, thread[p].pc)
  /\ IF At(p, "invalid") THEN Goto(p, "noworker") ELSE Rest(p)
  /\ UNCHANGED <<kernVars, sessVars, reqVars, mgtVars, objVars, wireVars>>

(* ERR_INVALID_REQ or ERR_NO_WORKER_FOUND, without a look at the session.  *)
Refuse(p) ==
  /\ thread[p].pc \in {"invalid", "noworker"}
  /\ Answer(thread[p].req, thread[p].pc)
  /\ Rest(p)
  /\ UNCHANGED <<kernVars, sessVars, reqVars, mgtVars, objVars, wireVars>>

PushAsynReq(p) ==
  /\ At(p, "push")
  /\ Reqs!PushAsynReq(thread[p].req)
  /\ Goto(p, "send")
  /\ UNCHANGED <<kernVars, sessVars, req, mgtVars, objVars, wireVars, answers>>

(* ERR_SEND_FAIL first, the removal from the waiting requests after it.    *)
ReplySendFail(p) ==
  /\ At(p, "fail")
  /\ Answer(thread[p].req, "sendfail")
  /\ Goto(p, "del")
  /\ UNCHANGED <<kernVars, sessVars, reqVars, mgtVars, objVars, wireVars>>

DelAsynReq(p) ==
  /\ At(p, "del")
  /\ Reqs!DelAsynReq(thread[p].req)
  /\ Rest(p)
  /\ UNCHANGED <<kernVars, sessVars, req, mgtVars, objVars, wireVars, answers>>

-----------------------------------------------------------------------------
(* Worker::send_req and Worker::send_rsp, under the mutex of the Worker    *)
(* object: send, count, and at a limit unregister and close.               *)

Outcome(f) == IF sock[f] = None THEN {BadFd} ELSE {Success} \cup Failure

(* set_new_req ends a request with "\n" and send_req adds another one, so  *)
(* a request without its last byte is complete; an answer is not.          *)
Complete(pc, out) == \/ out = Success
                     \/ pc = "send" /\ out.sent = "allbutlast"

(* What arrives at the worker at the other end of the descriptor.  After a *)
(* frame that was cut off, the next one completes it to a line that the    *)
(* worker cannot read, and is lost with it.                                *)
Transmit(t, out) ==
  LET d     == sock[thread[t].worker.fd]
      whole == Complete(thread[t].pc, out)
  IN IF d \notin WConn
     THEN UNCHANGED wireVars
     ELSE /\ torn' = [torn EXCEPT ![d] = ~whole /\ (@ \/ out.sent # "nothing")]
          /\ inbox' = [inbox EXCEPT ![d] =
                         IF whole /\ thread[t].pc = "send" /\ ~torn[d] /\ d \notin gone
                         THEN @ \cup {thread[t].req} ELSE @]

Counted(st, out) ==
  CASE out.ret = "ok"      -> [failed |-> 0, timeout |-> 0]
    [] out.ret = "timeout" -> [st EXCEPT !.timeout = @ + 1]
    [] out.ret = "error"   -> [st EXCEPT !.failed = @ + 1]

AtLimit(st) == st.failed >= MaxFailed \/ st.timeout >= MaxTimeout

(* Mutant: the request is given up without a word to the front end.        *)
AfterSendSilent(t, ok) == IF t \in Proc /\ ~ok
                          THEN thread' = [thread EXCEPT ![t].pc = "del", ![t].worker = None]
                          ELSE Rest(t)

(* Where the caller goes when the send is over: svc answers a failure,     *)
(* handle_input ignores it.                                                *)
AfterSend(t, ok) == IF t \in Proc /\ ~ok
                    THEN thread' = [thread EXCEPT ![t].pc = "fail", ![t].worker = None]
                    ELSE Rest(t)

Send(t, out) ==
  /\ thread[t].pc \in {"send", "rsp"}
  /\ LET w  == thread[t].worker
         st == Counted(stats[w.obj], out)
     IN /\ holder[w.obj] = None
        /\ out \in Outcome(w.fd)
        /\ Transmit(t, out)
        /\ stats' = [stats EXCEPT ![w.obj] = st]
        /\ IF AtLimit(st)
           THEN holder' = [holder EXCEPT ![w.obj] = t] /\ Goto(t, "unregister")
           ELSE AfterSend(t, out = Success) /\ UNCHANGED holder
  /\ UNCHANGED <<kernVars, sessVars, reqVars, mgtVars, answers>>

UnregisterDead(t) ==
  /\ At(t, "unregister")
  /\ Mgt!UnregisterWorker(thread[t].worker.fd)
  /\ Goto(t, "close")
  /\ UNCHANGED <<kernVars, sessVars, reqVars, made, objVars, wireVars, answers>>

(* Mutant: the mutex is not released.                                      *)
CloseDeadLocked(t) ==
  /\ At(t, "close")
  /\ LET w == thread[t].worker IN
     /\ sock' = [sock EXCEPT ![w.fd] = None]
     /\ stats' = [stats EXCEPT ![w.obj] = [failed |-> 0, timeout |-> 0]]
  /\ AfterSend(t, FALSE)
  /\ UNCHANGED <<opened, gone, sessVars, reqVars, mgtVars, holder, wireVars, answers>>

(* ::close by number, the counters back to 0, and the mutex released.      *)
CloseDead(t) ==
  /\ At(t, "close")
  /\ LET w == thread[t].worker IN
     /\ sock' = [sock EXCEPT ![w.fd] = None]
     /\ stats' = [stats EXCEPT ![w.obj] = [failed |-> 0, timeout |-> 0]]
     /\ holder' = [holder EXCEPT ![w.obj] = None]
  /\ AfterSend(t, FALSE)
  /\ UNCHANGED <<opened, gone, sessVars, reqVars, mgtVars, wireVars, answers>>

-----------------------------------------------------------------------------
(* The worker reactor: Worker_Event_Handler.                               *)

AcceptWorker(c, f) ==
  /\ At("back", "idle") /\ c \notin opened /\ sock[f] = None
  /\ sock' = [sock EXCEPT ![f] = c]
  /\ opened' = opened \cup {c}
  /\ UNCHANGED <<gone, sessVars, reqVars, mgtVars, objVars, wireVars, thread, answers>>

(* CMD_REGISTER, which a worker repeats until it sees an answer: a new     *)
(* Worker object is registered or refused, and carries the answer.  If the *)
(* peer's address cannot be had, because it is gone by then, nothing is    *)
(* changed or answered, which is no step here; a configured worker has an  *)
(* id and a group, so that none is told ERR_INVALID_REQ.                   *)
RecvRegister(f) ==
  /\ At("back", "idle") /\ sock[f] \in WConn \ gone
  /\ LET c == sock[f]
         n == made[c] + 1
         w(k) == WorkerOn(c, k, f)
         carry(k) == [Idle EXCEPT !.pc = "rsp", !.worker = w(k)]
     IN \/ /\ n <= MaxRegister
           /\ Mgt!RegisterWorker(w(n), Mgt!OK)
           /\ made' = [made EXCEPT ![c] = n]
           /\ thread' = [thread EXCEPT !["back"] = carry(n)]
           /\ UNCHANGED stats
        \/ /\ \E err \in {Mgt!ERR_WORKER_REGISTERED, Mgt!ERR_FD_EXISTS} :
                Mgt!RegisterWorker(w(0), err)
           /\ thread' = [thread EXCEPT !["back"] = carry(0)]
           /\ stats' = [stats EXCEPT ![<<c, 0>>] = [failed |-> 0, timeout |-> 0]]
           /\ UNCHANGED made
  /\ UNCHANGED <<kernVars, sessVars, reqVars, holder, wireVars, answers>>

(* CMD_UNREGISTER.  A heartbeat, CMD_HB, changes nothing.                  *)
RecvUnregister(f) ==
  /\ At("back", "idle") /\ sock[f] \in WConn \ gone /\ f \in DOMAIN fds
  /\ Mgt!UnregisterWorker(f)
  /\ UNCHANGED <<kernVars, sessVars, reqVars, made, objVars, wireVars, thread, answers>>

(* The answer to a request: get_asyn_req, then the look at its session.    *)
(* No thread but this one puts the two together, so they are one step; the *)
(* sending, which relies on what the look showed, is another.              *)
RecvReply(f, r) ==
  /\ At("back", "idle") /\ sock[f] \in WConn /\ r \in inbox[sock[f]]
  /\ inbox' = [inbox EXCEPT ![sock[f]] = @ \ {r}]
  /\ \/ /\ Reqs!GetAsynReq(r)
        /\ IF Sess!IsValidSession(req[r].session)
           THEN thread' = [thread EXCEPT !["back"] =
                             [Idle EXCEPT !.pc = "forward", !.req = r]]
           ELSE UNCHANGED thread
     \/ /\ r \notin pending
        /\ UNCHANGED <<queue, pending, thread>>
  /\ UNCHANGED <<kernVars, sessVars, req, mgtVars, objVars, torn, answers>>

ForwardReply ==
  /\ At("back", "forward")
  /\ Answer(thread["back"].req, "reply")
  /\ Rest("back")
  /\ UNCHANGED <<kernVars, sessVars, reqVars, mgtVars, objVars, wireVars>>

(* Mutant: the worker whose connection ended stays registered.             *)
BackHangupOnly(f) ==
  /\ At("back", "idle") /\ sock[f] \in WConn \cap gone /\ inbox[sock[f]] = {}
  /\ thread' = [thread EXCEPT !["back"] = [Idle EXCEPT !.pc = "hangup", !.fd = f]]
  /\ UNCHANGED <<kernVars, sessVars, reqVars, mgtVars, objVars, wireVars, answers>>

(* recv returned 0 or an error, after what the worker had sent: the        *)
(* reactor calls handle_close, and closes after it.                        *)
BackHangup(f) ==
  /\ At("back", "idle") /\ sock[f] \in WConn \cap gone /\ inbox[sock[f]] = {}
  /\ Mgt!UnregisterWorker(f)
  /\ thread' = [thread EXCEPT !["back"] = [Idle EXCEPT !.pc = "hangup", !.fd = f]]
  /\ UNCHANGED <<kernVars, sessVars, reqVars, made, objVars, wireVars, answers>>

-----------------------------------------------------------------------------
Environment ==
  \/ \E c \in Conn : PeerCloses(c)
  \/ \E f \in Fd : \/ \E a \in App : AcceptApp(a, f)
                   \/ \E r \in Req, g \in Content : ReadReq(f, r, g)
                   \/ \E c \in WConn : AcceptWorker(c, f)
                   \/ RecvRegister(f)
                   \/ RecvUnregister(f)

Process(p) == \/ \E r \in Req : GetReq(p, r)
              \/ Route(p)
              \/ Refuse(p)
              \/ PushAsynReq(p)
              \/ ReplySendFail(p)
              \/ DelAsynReq(p)

Finish(t) == \/ CloseHungUp(t)
             \/ \E out \in {Success, BadFd} \cup Failure : Send(t, out)
             \/ UnregisterDead(t)
             \/ CloseDead(t)

Next == \/ Environment
        \/ \E p \in Proc : Process(p)
        \/ \E t \in Thread : Finish(t)
        \/ \E f \in Fd : FrontHangup(f) \/ BackHangup(f) \/ \E r \in Req : RecvReply(f, r)
        \/ ForwardReply

Spec == Init /\ [][Next]_vars

(***************************************************************************)
(* The threads are scheduled, and a worker that got a request answers it.  *)
(* A reactor handles all the descriptors epoll_wait reports before it asks *)
(* again, so it comes to each ready one however busy the others keep it:   *)
(* a strong fairness.  Nothing obliges peers to connect, to ask or to      *)
(* close, nor a send to succeed.                                           *)
(***************************************************************************)
Fairness == /\ \A p \in Proc : WF_vars(Process(p))
            /\ \A t \in Thread : WF_vars(Finish(t))
            /\ \A f \in Fd : /\ SF_vars(FrontHangup(f))
                             /\ SF_vars(BackHangup(f))
                             /\ SF_vars(\E r \in Req : RecvReply(f, r))
            /\ WF_vars(ForwardReply)

FairSpec == Spec /\ Fairness

-----------------------------------------------------------------------------
(* The variables hold values of their C++ types; in particular, each       *)
(* request carries the session of a front end.                             *)
KernelOK  == /\ sock \in [Fd -> Conn \cup {None}]
             /\ opened \subseteq Conn /\ gone \subseteq opened
SessionOK == /\ DOMAIN sessions \subseteq Fd /\ ids \subseteq App
             /\ sessions \in [DOMAIN sessions -> App]
RequestOK == /\ queue \in Seq(Req) /\ pending \subseteq Req
             /\ req \in [Req -> Request \cup {None}]
             /\ answers \in [Req -> Seq([kind : Kind, to : Conn \cup {None}])]
             /\ inbox \in [WConn -> SUBSET Req] /\ torn \in [WConn -> BOOLEAN]
ObjectOK  == /\ made \in [WConn -> 0 .. MaxRegister]
             /\ stats \in [Object -> [failed : Nat, timeout : Nat]]
             /\ holder \in [Object -> Thread \cup {None}]
ThreadOK  == thread \in [Thread -> [pc : PC, req : Req \cup {None},
                                   worker : Worker \cup {None}, fd : Fd \cup {None}]]
TypeOK    == KernelOK /\ SessionOK /\ RequestOK /\ ObjectOK /\ ThreadOK /\ Mgt!TypeOK

Kinds(r) == {answers[r][i].kind : i \in DOMAIN answers[r]}

(* A request the router has read is somewhere, until it is answered or its *)
(* session has ended: in the queue, with a processor, among the waiting    *)
(* ones, or with the reactor that forwards its answer.  No hand-over       *)
(* between the threads loses it, whatever sends fail and fds are reused.   *)
NothingVanishes ==
  \A r \in Req :
    req[r] # None =>
      \/ answers[r] # << >>
      \/ r \in Range(queue) \cup pending
      \/ \E t \in Thread : thread[t].req = r
      \/ req[r].session \notin ids

(* Each request is in one place: one processor works on it, once.          *)
OneHandler ==
  /\ IsInjective(queue)
  /\ \A r \in Range(queue) : \A t \in Thread : thread[t].req # r
  /\ \A p, q \in Proc : thread[p].req = thread[q].req /\ p # q => thread[p].req = None

(* An answer that a worker gives finds its request among the waiting ones, *)
(* unless the front end was told ERR_SEND_FAIL: svc inserts the request    *)
(* before it sends it, since the answer may be faster than send returns.   *)
ReplyFindsPending ==
  \A c \in WConn : \A r \in inbox[c] : r \in pending \/ "sendfail" \in Kinds(r)

(* What the registry and the session table say of a descriptor is true of  *)
(* the connection it denotes: the registered worker is the one connected,  *)
(* a front end's connection has its own session until its reactor begins   *)
(* to close it, and no id of an ended session is valid.  It holds as long  *)
(* as only the reactors close connections.                                 *)
TablesFollowSockets ==
  /\ \A f \in DOMAIN fds : sock[f] = fds[f].obj[1]
  /\ \A f \in Fd : sock[f] \in App /\ thread["front"].fd # f => f \in DOMAIN sessions
  /\ \A f \in DOMAIN sessions : sessions[f] = sock[f]
  /\ ids = Range(sessions)

(* Whoever answers a request does so by the descriptor it was read from.   *)
(* If that is no longer the connection it was read from, the session table *)
(* already says so: had each sender looked up the session and sent in one  *)
(* critical section, no answer would reach another front end or a worker.  *)
ElsewhereOnlyAfterEnd ==
  [][\A r \in Req : answers'[r] # answers[r] =>
       \/ answers'[r][Len(answers'[r])].to = req'[r].from
       \/ req'[r].session \notin ids]_vars

(* The router keeps the promise of RequestService: no processor answers    *)
(* twice or after the worker, no worker's answer is forwarded twice.       *)
Service == INSTANCE RequestService
             WITH Refusals <- Kind \ {"sendfail", "reply"},
                  SendFail <- "sendfail", Reply <- "reply",
                  asked    <- {r \in Req : req[r] # None},
                  unsure   <- {r \in Req : \/ "sendfail" \in Kinds(r)
                                          \/ \E p \in Proc :
                                               /\ thread[p].req = r
                                               /\ thread[p].pc \in {"unregister", "close", "fail"}},
                  outcome  <- [r \in Req |-> [i \in DOMAIN answers[r] |-> answers[r][i].kind]]
ImplementsService == Service!Spec

(* While workers live, nobody but the reactors closes and no line to a     *)
(* worker is cut off, every request read is answered or its front end      *)
(* leaves: it is never left in the queue, nor among the waiting ones.      *)
WorkersServe == /\ WConn \cap gone = {}
                /\ \A c \in WConn : ~torn[c]
                /\ \A t \in Thread : ~At(t, "close")

EveryRequestEnds ==
  []WorkersServe =>
    \A r \in Req :
      req[r] # None ~> \/ answers[r] # << >>
                       \/ req[r] # None /\ req[r].session \notin ids

(* A processor that took a request comes back for the next one, whatever   *)
(* sends fail: it is not kept waiting for ever by a Worker object's mutex. *)
ProcessorsReturn == \A p \in Proc : thread[p].pc # "idle" ~> thread[p].pc = "idle"

(* A worker whose connection is gone does not stay registered, so that it  *)
(* can register again, under the same id, by a new connection: if none but *)
(* the reactors close connections.                                         *)
TheGoneAreForgotten ==
  [](\A t \in Thread : ~At(t, "close")) =>
    \A c \in WConn :
      (c \in gone /\ \E f \in DOMAIN fds : fds[f].obj[1] = c)
        ~> ~ \E f \in DOMAIN fds : fds[f].obj[1] = c

-----------------------------------------------------------------------------
(* What comments in the code say, and the code does not keep.              *)

(* "A request for which the worker's answer has not come for more than 30  *)
(* seconds has timed out and is to be deleted from the asynchronous queue" *)
(* (req_mgt.cpp, check_asyn_req): no request waits for ever.               *)
WaitingEnds == \A r \in Req : r \in pending ~> r \notin pending

(* "Each worker has an fd of its own" (worker.h): a descriptor a worker's  *)
(* Worker object closes denotes that worker's connection, if any.          *)
ClosesItsOwn == \A t \in Thread :
  At(t, "close") => LET w == thread[t].worker IN sock[w.fd] \in {w.obj[1], None}

(* "Tell by the session id whether the front end has closed already"       *)
(* (worker_event_handler.cpp): no worker's answer is sent to another one.  *)
RepliesReachTheAsker == \A r \in Req : \A i \in DOMAIN answers[r] :
  answers[r][i].kind = "reply" => answers[r][i].to \in {req[r].from, None}
=============================================================================
