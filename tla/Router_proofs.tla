--------------------------- MODULE Router_proofs ---------------------------
(***************************************************************************)
(* The router hands every request from thread to thread without losing it  *)
(* or mixing it up, however many connections, descriptors, processors and  *)
(* requests there are, whatever sends fail and whoever closes which        *)
(* descriptor.                                                             *)
(***************************************************************************)
EXTENDS Router, SequenceTheorems, TLAPS

Reg == INSTANCE WorkerMgt_proofs WITH NoWorker <- None

-----------------------------------------------------------------------------
(* The inductive invariant.                                                *)

(* What the threads hold, by the place where they are.                     *)
Held ==
  /\ \A t \in Thread :
       /\ thread[t].pc = "idle" => thread[t] = Idle
       /\ thread[t].pc \in {"push", "send", "rsp", "unregister", "close"} =>
            thread[t].worker \in Worker
  /\ \A p \in Proc :
       /\ thread[p].pc \notin {"hangup", "rsp", "forward"}
       /\ thread[p].pc # "idle" => thread[p].req \in Req
  /\ thread["front"].pc \in {"idle", "hangup"} /\ thread["front"].req = None
  /\ thread["back"].pc \in {"idle", "hangup", "rsp", "unregister", "close", "forward"}
  /\ IF thread["back"].pc = "forward"
     THEN thread["back"].req \in Req
     ELSE thread["back"].req = None

(* The sessions of requests and of descriptors are ones there have been,   *)
(* and a front end's connection has one until its reactor closes it.       *)
Sessions ==
  /\ \A f \in DOMAIN sessions : sessions[f] \in opened
  /\ \A r \in Req : req[r] # None => req[r].session \in opened
  /\ \A f \in Fd : sock[f] \in App /\ thread["front"].fd # f => f \in DOMAIN sessions

Sent(r) == \E c \in WConn : r \in inbox[c]

(* A request that is anywhere has been read.                               *)
KnownRequests ==
  \A r \in Req :
    \/ r \in Range(queue) \cup pending
    \/ Sent(r)
    \/ \E t \in Thread : thread[t].req = r
    => req[r] # None

Typed == TypeOK /\ Mgt!Consistent /\ Held /\ Sessions /\ KnownRequests

(* The processor p has not reached the sending of its request.             *)
Unsent(p) == thread[p].pc \in {"route", "invalid", "noworker", "push"}

(* The way of a request: from the queue to one processor, then to the      *)
(* waiting ones, then to one worker, then to the reactor.                  *)
OnTheWay ==
  /\ \A r \in Range(queue) : r \notin pending /\ ~Sent(r)
  /\ \A c, d \in WConn : inbox[c] \cap inbox[d] # {} => c = d

AtProcessor ==
  \A p \in Proc :
    /\ Unsent(p) => /\ thread[p].req \notin pending
                    /\ ~Sent(thread[p].req)
                    /\ thread["back"].req # thread[p].req
    /\ thread[p].pc = "send" => thread[p].req \in pending /\ ~Sent(thread[p].req)
    /\ thread[p].pc = "del" => "sendfail" \in Kinds(thread[p].req)

Handover == OnTheWay /\ AtProcessor /\ OneHandler /\ ReplyFindsPending /\ NothingVanishes

IInv == Typed /\ Handover

-----------------------------------------------------------------------------
(* Facts about the data.                                                   *)

(* A Worker object has a descriptor and is one of the known objects.       *)
LEMMA WorkerFields ==
  ASSUME NEW w \in Worker
  PROVE  w.fd \in Fd /\ w.obj \in Object /\ w # None
BY RouterAssumption DEF Worker, WorkerOn, Object

(* The processors and the two reactors are the threads, and all different. *)
LEMMA Threads == /\ "front" \in Thread /\ "back" \in Thread
                 /\ \A p \in Proc : p \in Thread /\ p # "front" /\ p # "back"
BY RouterAssumption DEF Thread

(* std::deque::push_back of an element that is not there yet.              *)
LEMMA AppendFacts ==
  ASSUME NEW S, NEW s \in Seq(S), NEW x \in S
  PROVE  /\ Append(s, x) \in Seq(S)
         /\ Range(Append(s, x)) = Range(s) \cup {x}
         /\ IsInjective(s) /\ x \notin Range(s) => IsInjective(Append(s, x))
<1>1. /\ Append(s, x) \in Seq(S) /\ Len(s) \in Nat
      /\ DOMAIN s = 1 .. Len(s)
      /\ DOMAIN Append(s, x) = 1 .. (Len(s) + 1)
      /\ \A i \in 1 .. Len(s) : Append(s, x)[i] = s[i]
      /\ Append(s, x)[Len(s) + 1] = x
  OBVIOUS
<1>2. Range(Append(s, x)) = Range(s) \cup {x}
  BY <1>1 DEF Range
<1>3. ASSUME IsInjective(s), x \notin Range(s)
      PROVE  IsInjective(Append(s, x))
  BY <1>1, <1>3 DEF IsInjective, Range
<1>. QED BY <1>1, <1>2, <1>3

(* pop_front: the front element leaves, and if no element was there twice, *)
(* it is not there any more.                                               *)
LEMMA TailFacts ==
  ASSUME NEW S, NEW s \in Seq(S), s # << >>
  PROVE  /\ Head(s) \in S /\ Tail(s) \in Seq(S)
         /\ Range(s) = Range(Tail(s)) \cup {Head(s)}
         /\ IsInjective(s) => IsInjective(Tail(s)) /\ Head(s) \notin Range(Tail(s))
<1>1. /\ Head(s) \in S /\ Tail(s) \in Seq(S)
      /\ Len(s) \in Nat \ {0} /\ DOMAIN s = 1 .. Len(s)
      /\ Head(s) = s[1]
      /\ DOMAIN Tail(s) = 1 .. (Len(s) - 1)
      /\ \A i \in 1 .. (Len(s) - 1) : Tail(s)[i] = s[i + 1]
  BY EmptySeq, HeadTailProperties
<1>2. Range(s) = Range(Tail(s)) \cup {Head(s)}
  <2>1. ASSUME NEW i \in DOMAIN s
        PROVE  s[i] = Head(s) \/ \E j \in DOMAIN Tail(s) : Tail(s)[j] = s[i]
    <3>1. CASE i = 1 BY <1>1, <3>1
    <3>2. CASE i # 1
      <4>1. i - 1 \in DOMAIN Tail(s) /\ Tail(s)[i - 1] = s[i]
        BY <1>1, <3>2
      <4>. QED BY <4>1
    <3>. QED BY <3>1, <3>2
  <2>2. ASSUME NEW j \in DOMAIN Tail(s)
        PROVE  j + 1 \in DOMAIN s /\ Tail(s)[j] = s[j + 1]
    BY <1>1
  <2>3. 1 \in DOMAIN s
    BY <1>1
  <2>4. Range(s) \subseteq Range(Tail(s)) \cup {Head(s)}
    BY <2>1 DEF Range
  <2>5. Range(Tail(s)) \subseteq Range(s)
    BY <2>2 DEF Range
  <2>6. Head(s) \in Range(s)
    BY <1>1, <2>3 DEF Range
  <2>. QED BY <2>4, <2>5, <2>6
<1>3. ASSUME IsInjective(s)
      PROVE  IsInjective(Tail(s)) /\ Head(s) \notin Range(Tail(s))
  <2>1. \A i, j \in 1 .. Len(s) : s[i] = s[j] => i = j
    BY <1>1, <1>3 DEF IsInjective
  <2>2. \A j \in DOMAIN Tail(s) : j + 1 \in 1 .. Len(s) /\ Tail(s)[j] = s[j + 1] /\ j + 1 # 1
    BY <1>1
  <2>3. IsInjective(Tail(s))
    BY <1>1, <2>1, <2>2 DEF IsInjective
  <2>4. 1 \in 1 .. Len(s)
    BY <1>1
  <2>5. \A j \in DOMAIN Tail(s) : Tail(s)[j] # Head(s)
    BY <1>1, <2>1, <2>2, <2>4
  <2>. QED BY <2>3, <2>5 DEF Range
<1>. QED BY <1>1, <1>2, <1>3

(* What was sent back is not taken back.                                   *)
LEMMA AnswerFacts ==
  ASSUME RequestOK, NEW r \in Req, NEW kind \in Kind, NEW to \in Conn \cup {None},
         answers' = [answers EXCEPT ![r] = Append(@, [kind |-> kind, to |-> to])]
  PROVE  /\ answers' \in [Req -> Seq([kind : Kind, to : Conn \cup {None}])]
         /\ answers'[r] # << >>
         /\ kind \in Kinds(r)'
         /\ \A q \in Req : /\ answers[q] # << >> => answers'[q] # << >>
                           /\ Kinds(q) \subseteq Kinds(q)'
<1> DEFINE A == [kind : Kind, to : Conn \cup {None}]
           x == [kind |-> kind, to |-> to]
<1>1. x \in A /\ answers \in [Req -> Seq(A)]
  BY DEF RequestOK
<1>2. answers[r] \in Seq(A) /\ answers'[r] = Append(answers[r], x)
  BY <1>1
<1>3. \A q \in Req : q # r => answers'[q] = answers[q]
  BY <1>1
<1>. HIDE DEF A, x
<1>4. /\ Append(answers[r], x) \in Seq(A)
      /\ Range(Append(answers[r], x)) = Range(answers[r]) \cup {x}
  BY <1>1, <1>2, AppendFacts
<1>5. answers' \in [Req -> Seq(A)]
  BY <1>1, <1>2, <1>4
<1>6. answers'[r] # << >>
  BY <1>2, <1>4 DEF Range
<1>7. \A q \in Req : /\ Kinds(q) = {y.kind : y \in Range(answers[q])}
                     /\ Kinds(q)' = {y.kind : y \in Range(answers'[q])}
  BY DEF Kinds, Range
<1>8. kind \in Kinds(r)' /\ Kinds(r) \subseteq Kinds(r)'
  BY <1>2, <1>4, <1>7 DEF x
<1>9. \A q \in Req : Kinds(q) \subseteq Kinds(q)'
  BY <1>3, <1>7, <1>8
<1>. QED BY <1>3, <1>5, <1>6, <1>8, <1>9 DEF A

-----------------------------------------------------------------------------
(* The registry, as the router uses it: its own invariant is kept by each  *)
(* of the calls the router makes.                                          *)

Registry == Mgt!TypeOK /\ Mgt!Consistent

(* The Worker objects are what the registry assumes of them.               *)
LEMMA RegistryAssumed == Reg!WorkerAssumption
BY RouterAssumption DEF Reg!WorkerAssumption, Worker, WorkerOn, Object

(* The router's registry is the registry the theorems of WorkerMgt_proofs  *)
(* are about.                                                              *)
LEMMA SameRegistry == (Registry <=> Reg!IInv) /\ (Registry' <=> Reg!IInv')
BY DEF Registry, Reg!IInv, Mgt!TypeOK, Reg!TypeOK, Mgt!Consistent, Reg!Consistent,
   Mgt!IdentityUnique, Reg!IdentityUnique, Mgt!IdsAreTheRegistered, Reg!IdsAreTheRegistered,
   Mgt!EveryWorkerIsReachable, Reg!EveryWorkerIsReachable,
   Mgt!GroupsHoldTheRegistered, Reg!GroupsHoldTheRegistered, Mgt!NoEmptyGroup, Reg!NoEmptyGroup

(* register_worker with an object the router built.                        *)
LEMMA RegisterKeeps ==
  ASSUME Registry, NEW w \in Worker, NEW ret, Mgt!RegisterWorker(w, ret)
  PROVE  Registry'
<1>1. Reg!RegisterWorker(w, ret)
  BY DEF Mgt!RegisterWorker, Reg!RegisterWorker, Mgt!Refusal, Reg!Refusal, Mgt!OK, Reg!OK,
     Mgt!Insert, Reg!Insert, Mgt!vars, Reg!vars, Mgt!AddTo, Reg!AddTo, Mgt!NewWorkers,
     Reg!NewWorkers, Mgt!ERR_FD_EXISTS, Reg!ERR_FD_EXISTS,
     Mgt!ERR_WORKER_REGISTERED, Reg!ERR_WORKER_REGISTERED
<1>2. Reg!IInv
  BY SameRegistry
<1>3. Reg!IInv'
  BY <1>1, <1>2, Reg!RegisterKeepsIInv, RegistryAssumed
<1>. QED BY <1>3, SameRegistry

(* unregister_worker, by whatever thread for whatever reason.              *)
LEMMA UnregisterKeeps ==
  ASSUME Registry, NEW f \in Fd, Mgt!UnregisterWorker(f)
  PROVE  Registry'
<1>1. Reg!UnregisterWorker(f)
  BY DEF Mgt!UnregisterWorker, Reg!UnregisterWorker, Mgt!vars, Reg!vars, Mgt!RemoveFrom,
     Reg!RemoveFrom, Mgt!Position, Reg!Position,
     Mgt!RemoveAt, Reg!RemoveAt, Mgt!Insert, Reg!Insert, Mgt!Erase, Reg!Erase
<1>2. Reg!IInv
  BY SameRegistry
<1>3. Reg!IInv'
  BY <1>1, <1>2, Reg!UnregisterKeepsIInv, RegistryAssumed
<1>. QED BY <1>3, SameRegistry

(* get_worker, by a processor.                                             *)
LEMMA GetWorkerKeeps ==
  ASSUME Registry, NEW g \in GroupId, NEW w, Mgt!GetWorker(g, w)
  PROVE  Registry'
<1>1. Reg!GetWorker(g, w)
  BY DEF Mgt!GetWorker, Reg!GetWorker, Mgt!Turn, Reg!Turn
<1>2. Reg!IInv
  BY SameRegistry
<1>3. Reg!IInv'
  BY <1>1, <1>2, Reg!GetWorkerKeepsIInv, RegistryAssumed
<1>. QED BY <1>3, SameRegistry

(* Nobody but the three calls changes the registry.                        *)
LEMMA RegistryFrame ==
  ASSUME Registry, UNCHANGED <<fds, workers, groups>>
  PROVE  Registry'
BY DEF Registry, Mgt!TypeOK, Mgt!Consistent, Mgt!IdentityUnique, Mgt!IdsAreTheRegistered,
   Mgt!EveryWorkerIsReachable, Mgt!GroupsHoldTheRegistered, Mgt!NoEmptyGroup

-----------------------------------------------------------------------------
(* Steps that move no request.                                             *)

(* What is known of requests stays known when threads let go of some and   *)
(* workers lose some.                                                      *)
LEMMA KnownFrame ==
  ASSUME KnownRequests, UNCHANGED <<queue, pending, req>>,
         \A c \in WConn : inbox'[c] \subseteq inbox[c],
         \A t \in Thread : thread'[t].req \in {thread[t].req, None},
         None \notin Req
  PROVE  KnownRequests'
BY DEF KnownRequests, Sent

(* A step that leaves every request where it is, though workers may lose   *)
(* some, sessions end or begin, and processors go on with their requests   *)
(* without reaching the sending, ERR_SEND_FAIL or its aftermath.           *)
LEMMA HandoverFrame ==
  ASSUME Handover, UNCHANGED <<queue, pending, req, answers>>,
         \A c \in WConn : inbox'[c] \subseteq inbox[c],
         \A t \in Thread : thread'[t].req = thread[t].req,
         \A p \in Proc : \/ thread'[p].pc = thread[p].pc
                         \/ Unsent(p) /\ Unsent(p)'
                         \/ thread'[p].pc \in {"unregister", "close", "fail", "idle"},
         \A r \in Req : req[r] # None /\ req[r].session \notin ids => req[r].session \notin ids'
  PROVE  Handover'
<1>1. \A r \in Req : Sent(r)' => Sent(r)
  BY DEF Sent
<1>2. OnTheWay'
  BY <1>1 DEF Handover, OnTheWay, Sent
<1>3. AtProcessor'
  BY <1>1 DEF Handover, AtProcessor, Kinds, Unsent, Sent, Thread
<1>4. OneHandler'
  BY DEF Handover, OneHandler, Thread
<1>5. ReplyFindsPending'
  BY DEF Handover, ReplyFindsPending, Kinds
<1>6. NothingVanishes'
  BY DEF Handover, NothingVanishes
<1>. QED BY <1>2, <1>3, <1>4, <1>5, <1>6 DEF Handover

-----------------------------------------------------------------------------
(* The invariant is kept by each action: the peers and the two ports.      *)

(* A peer closes: its connection is noted as gone, and of what a worker    *)
(* has got, some is lost.                                                  *)
LEMMA PeerClosesKeeps ==
  ASSUME IInv, NEW c \in Conn, PeerCloses(c)
  PROVE  IInv'
<1>1. /\ c \in opened /\ gone' = gone \cup {c}
      /\ UNCHANGED <<sock, opened, sessions, ids, queue, pending, req, fds, workers,
                     groups, made, stats, holder, torn, thread, answers>>
  BY DEF PeerCloses, sessVars, reqVars, mgtVars, objVars, kernVars
<1>2. /\ inbox' \in [WConn -> SUBSET Req]
      /\ \A d \in WConn : inbox'[d] \subseteq inbox[d]
  <2>1. CASE UNCHANGED inbox
    BY <2>1 DEF IInv, Typed, TypeOK, RequestOK
  <2>2. CASE c \in WConn /\ \E sent \in SUBSET inbox[c] : inbox' = [inbox EXCEPT ![c] = sent]
    BY <2>2 DEF IInv, Typed, TypeOK, RequestOK
  <2>. QED BY <2>1, <2>2 DEF PeerCloses
<1>3. KernelOK' /\ SessionOK' /\ RequestOK' /\ ObjectOK' /\ ThreadOK'
  BY <1>1, <1>2 DEF IInv, Typed, TypeOK, KernelOK, SessionOK, RequestOK, ObjectOK, ThreadOK
<1>4. Registry'
  BY <1>1, RegistryFrame DEF IInv, Typed, TypeOK, Registry
<1>5. Held' /\ Sessions'
  BY <1>1 DEF IInv, Typed, Held, Sessions, Idle
<1>6. KnownRequests'
  BY <1>1, <1>2, KnownFrame, RouterAssumption DEF IInv, Typed
<1>7. Handover'
  BY <1>1, <1>2, HandoverFrame DEF IInv, Typed
<1>. QED BY <1>3, <1>4, <1>5, <1>6, <1>7 DEF IInv, Typed, TypeOK, Registry

(* A front end connects: the new session is of a new connection.           *)
LEMMA AcceptAppKeeps ==
  ASSUME IInv, NEW a \in App, NEW f \in Fd, AcceptApp(a, f)
  PROVE  IInv'
<1>1. /\ a \notin opened /\ opened' = opened \cup {a}
      /\ sock' = [sock EXCEPT ![f] = a]
      /\ sessions' = [x \in DOMAIN sessions \cup {f} |-> IF x = f THEN a ELSE sessions[x]]
      /\ ids' = ids \cup {a}
      /\ UNCHANGED <<gone, queue, pending, req, fds, workers, groups, made, stats, holder,
                     inbox, torn, thread, answers>>
  BY DEF AcceptApp, Sess!InsertSession, Sess!Insert, reqVars, mgtVars, objVars, wireVars
<1>2. KernelOK' /\ SessionOK' /\ RequestOK' /\ ObjectOK' /\ ThreadOK'
  BY <1>1 DEF IInv, Typed, TypeOK, KernelOK, SessionOK, RequestOK, ObjectOK, ThreadOK, Conn
<1>3. Registry'
  BY <1>1, RegistryFrame DEF IInv, Typed, TypeOK, Registry
<1>4. Held' /\ Sessions'
  BY <1>1 DEF IInv, Typed, TypeOK, KernelOK, SessionOK, Held, Sessions, Idle
<1>5. KnownRequests'
  BY <1>1, KnownFrame, RouterAssumption DEF IInv, Typed
<1>6. Handover'
  BY <1>1, HandoverFrame DEF IInv, Typed, Sessions
<1>. QED BY <1>2, <1>3, <1>4, <1>5, <1>6 DEF IInv, Typed, TypeOK, Registry

(* A worker connects: no table hears of it.                                *)
LEMMA AcceptWorkerKeeps ==
  ASSUME IInv, NEW c \in WConn, NEW f \in Fd, AcceptWorker(c, f)
  PROVE  IInv'
<1>1. /\ opened' = opened \cup {c} /\ sock' = [sock EXCEPT ![f] = c]
      /\ UNCHANGED <<gone, sessions, ids, queue, pending, req, fds, workers, groups, made,
                     stats, holder, inbox, torn, thread, answers>>
  BY DEF AcceptWorker, sessVars, reqVars, mgtVars, objVars, wireVars
<1>2. KernelOK' /\ SessionOK' /\ RequestOK' /\ ObjectOK' /\ ThreadOK'
  BY <1>1 DEF IInv, Typed, TypeOK, KernelOK, SessionOK, RequestOK, ObjectOK, ThreadOK, Conn
<1>3. Registry'
  BY <1>1, RegistryFrame DEF IInv, Typed, TypeOK, Registry
<1>4. Held' /\ Sessions'
  BY <1>1, RouterAssumption DEF IInv, Typed, TypeOK, KernelOK, SessionOK, Held, Sessions, Idle
<1>5. KnownRequests'
  BY <1>1, KnownFrame, RouterAssumption DEF IInv, Typed
<1>6. Handover'
  BY <1>1, HandoverFrame DEF IInv, Typed
<1>. QED BY <1>2, <1>3, <1>4, <1>5, <1>6 DEF IInv, Typed, TypeOK, Registry

(* A front end's connection ended: its session goes first.                 *)
LEMMA FrontHangupKeeps ==
  ASSUME IInv, NEW f \in Fd, FrontHangup(f)
  PROVE  IInv'
<1>1. /\ thread["front"] = Idle
      /\ thread' = [thread EXCEPT !["front"] = [Idle EXCEPT !.pc = "hangup", !.fd = f]]
      /\ UNCHANGED <<sock, opened, gone, queue, pending, req, fds, workers, groups, made,
                     stats, holder, inbox, torn, answers>>
  <2>1. thread["front"] = Idle
    BY Threads DEF FrontHangup, At, IInv, Typed, Held
  <2>. QED BY <2>1 DEF FrontHangup, kernVars, reqVars, mgtVars, objVars, wireVars
<1>2. /\ ids' \subseteq ids
      /\ DOMAIN sessions' = DOMAIN sessions \ {f}
      /\ sessions' \in [DOMAIN sessions' -> App]
      /\ \A x \in DOMAIN sessions' : sessions'[x] = sessions[x]
  BY DEF FrontHangup, Sess!RemoveSession, Sess!Erase, IInv, Typed, TypeOK, SessionOK
<1>3. KernelOK' /\ SessionOK' /\ RequestOK' /\ ObjectOK'
  BY <1>1, <1>2 DEF IInv, Typed, TypeOK, KernelOK, SessionOK, RequestOK, ObjectOK
<1>4. ThreadOK'
  BY <1>1 DEF IInv, Typed, TypeOK, ThreadOK, PC, Idle
<1>5. Registry'
  BY <1>1, RegistryFrame DEF IInv, Typed, TypeOK, Registry
<1>6. Held' /\ Sessions'
  BY <1>1, <1>2, RouterAssumption DEF IInv, Typed, TypeOK, ThreadOK, Held, Sessions, Idle, Thread
<1>7. \A t \in Thread : thread'[t].req = thread[t].req
  BY <1>1 DEF IInv, Typed, TypeOK, ThreadOK, Idle
<1>8. KnownRequests'
  BY <1>1, <1>7, KnownFrame, RouterAssumption DEF IInv, Typed
<1>9. \A p \in Proc : thread'[p] = thread[p]
  BY <1>1, RouterAssumption DEF IInv, Typed, TypeOK, ThreadOK, Thread
<1>10. Handover'
  BY <1>1, <1>2, <1>7, <1>9, HandoverFrame DEF IInv, Typed
<1>. QED BY <1>3, <1>4, <1>5, <1>6, <1>8, <1>10 DEF IInv, Typed, TypeOK, Registry

(* A reactor closes the descriptor of a connection that ended.             *)
LEMMA CloseHungUpKeeps ==
  ASSUME IInv, NEW t \in Thread, CloseHungUp(t)
  PROVE  IInv'
<1>1. /\ t \in {"front", "back"} /\ thread[t].pc = "hangup"
      /\ sock' = [sock EXCEPT ![thread[t].fd] = None]
      /\ thread' = [thread EXCEPT ![t] = Idle]
      /\ UNCHANGED <<opened, gone, sessions, ids, queue, pending, req, fds, workers, groups,
                     made, stats, holder, inbox, torn, answers>>
  BY DEF CloseHungUp, At, Rest, sessVars, reqVars, mgtVars, objVars, wireVars
<1>2. KernelOK' /\ SessionOK' /\ RequestOK' /\ ObjectOK'
  BY <1>1 DEF IInv, Typed, TypeOK, KernelOK, SessionOK, RequestOK, ObjectOK
<1>3. ThreadOK'
  BY <1>1 DEF IInv, Typed, TypeOK, ThreadOK, PC, Idle
<1>4. Registry'
  BY <1>1, RegistryFrame DEF IInv, Typed, TypeOK, Registry
<1>5. Held'
  BY <1>1, RouterAssumption DEF IInv, Typed, TypeOK, ThreadOK, Held, Idle, Thread
<1>6. Sessions'
  BY <1>1, RouterAssumption DEF IInv, Typed, TypeOK, KernelOK, ThreadOK, Sessions, Idle, Thread, Conn
<1>7. \A u \in Thread : thread'[u].req = thread[u].req
  BY <1>1 DEF IInv, Typed, TypeOK, ThreadOK, Held, Idle
<1>8. KnownRequests'
  BY <1>1, <1>7, KnownFrame, RouterAssumption DEF IInv, Typed
<1>9. \A p \in Proc : thread'[p] = thread[p]
  BY <1>1, RouterAssumption DEF IInv, Typed, TypeOK, ThreadOK, Thread
<1>10. Handover'
  BY <1>1, <1>7, <1>9, HandoverFrame DEF IInv, Typed
<1>. QED BY <1>2, <1>3, <1>4, <1>5, <1>6, <1>8, <1>10 DEF IInv, Typed, TypeOK, Registry

(* A registration is accepted or refused: either way the reactor has a     *)
(* Worker object in hand that answers it.                                  *)
LEMMA RecvRegisterKeeps ==
  ASSUME IInv, NEW f \in Fd, RecvRegister(f)
  PROVE  IInv'
<1> DEFINE c == sock[f]
<1>1. /\ thread["back"] = Idle /\ c \in WConn
      /\ UNCHANGED <<sock, opened, gone, sessions, ids, queue, pending, req, holder,
                     inbox, torn, answers>>
  <2>1. thread["back"] = Idle
    BY Threads DEF RecvRegister, At, IInv, Typed, Held
  <2>. QED BY <2>1 DEF RecvRegister, kernVars, sessVars, reqVars, wireVars
<1>2. made[c] \in 0 .. MaxRegister
  BY <1>1 DEF IInv, Typed, TypeOK, ObjectOK
<1>3. PICK w \in Worker :
        /\ thread' = [thread EXCEPT !["back"] = [Idle EXCEPT !.pc = "rsp", !.worker = w]]
        /\ \E ret : Mgt!RegisterWorker(w, ret)
        /\ \/ made' = [made EXCEPT ![c] = made[c] + 1] /\ made[c] + 1 <= MaxRegister
           \/ UNCHANGED made
        /\ \/ UNCHANGED stats
           \/ stats' = [stats EXCEPT ![<<c, 0>>] = [failed |-> 0, timeout |-> 0]]
  <2>1. \A n \in 0 .. MaxRegister : WorkerOn(c, n, f) \in Worker
    <3>1. ASSUME NEW n \in 0 .. MaxRegister PROVE WorkerOn(c, n, f) \in Worker
      <4>1. <<c, n>> \in Object /\ <<c, n>>[1] = c /\ <<c, n>>[2] = n
        BY <1>1 DEF Object
      <4>. QED BY <4>1 DEF Worker
    <3>. QED BY <3>1
  <2>2. 0 \in 0 .. MaxRegister /\ (made[c] + 1 <= MaxRegister => made[c] + 1 \in 0 .. MaxRegister)
    BY <1>2, RouterAssumption
  <2>. QED BY <2>1, <2>2 DEF RecvRegister
<1>. HIDE DEF c
<1>4. KernelOK' /\ SessionOK' /\ RequestOK'
  BY <1>1 DEF IInv, Typed, TypeOK, KernelOK, SessionOK, RequestOK
<1>5. ObjectOK'
  <2>1. made' \in [WConn -> 0 .. MaxRegister]
    <3>1. made[c] + 1 <= MaxRegister => made[c] + 1 \in 0 .. MaxRegister
      BY <1>2, RouterAssumption
    <3>. QED BY <1>3, <3>1 DEF IInv, Typed, TypeOK, ObjectOK
  <2>2. stats' \in [Object -> [failed : Nat, timeout : Nat]]
    BY <1>3 DEF IInv, Typed, TypeOK, ObjectOK
  <2>. QED BY <1>1, <2>1, <2>2 DEF IInv, Typed, TypeOK, ObjectOK
<1>6. ThreadOK'
  BY <1>3 DEF IInv, Typed, TypeOK, ThreadOK, PC, Idle
<1>7. Registry'
  BY <1>3, RegisterKeeps DEF IInv, Typed, TypeOK, Registry
<1>8. Held'
  BY <1>1, <1>3, Threads DEF IInv, Typed, TypeOK, ThreadOK, Held, Idle
<1>9. Sessions'
  BY <1>1, <1>3, Threads DEF IInv, Typed, TypeOK, ThreadOK, Sessions
<1>10. \A t \in Thread : thread'[t].req = thread[t].req
  BY <1>1, <1>3 DEF IInv, Typed, TypeOK, ThreadOK, Idle
<1>11. KnownRequests'
  BY <1>1, <1>10, KnownFrame, RouterAssumption DEF IInv, Typed
<1>12. \A p \in Proc : thread'[p] = thread[p]
  BY <1>3, Threads DEF IInv, Typed, TypeOK, ThreadOK
<1>13. Handover'
  BY <1>1, <1>10, <1>12, HandoverFrame DEF IInv, Typed
<1>. QED BY <1>4, <1>5, <1>6, <1>7, <1>8, <1>9, <1>11, <1>13 DEF IInv, Typed, TypeOK, Registry

(* A worker unregisters: only the registry changes.                        *)
LEMMA RecvUnregisterKeeps ==
  ASSUME IInv, NEW f \in Fd, RecvUnregister(f)
  PROVE  IInv'
<1>1. UNCHANGED <<sock, opened, gone, sessions, ids, queue, pending, req, made, stats, holder,
                  inbox, torn, thread, answers>>
  BY DEF RecvUnregister, kernVars, sessVars, reqVars, objVars, wireVars
<1>2. KernelOK' /\ SessionOK' /\ RequestOK' /\ ObjectOK' /\ ThreadOK'
  BY <1>1 DEF IInv, Typed, TypeOK, KernelOK, SessionOK, RequestOK, ObjectOK, ThreadOK
<1>3. Registry'
  BY UnregisterKeeps DEF RecvUnregister, IInv, Typed, TypeOK, Registry
<1>4. Held' /\ Sessions'
  BY <1>1 DEF IInv, Typed, Held, Sessions, Idle
<1>5. KnownRequests'
  BY <1>1, KnownFrame, RouterAssumption DEF IInv, Typed
<1>6. Handover'
  BY <1>1, HandoverFrame DEF IInv, Typed
<1>. QED BY <1>2, <1>3, <1>4, <1>5, <1>6 DEF IInv, Typed, TypeOK, Registry

(* A worker's connection ended: it is unregistered first.                  *)
LEMMA BackHangupKeeps ==
  ASSUME IInv, NEW f \in Fd, BackHangup(f)
  PROVE  IInv'
<1>1. /\ thread["back"] = Idle
      /\ thread' = [thread EXCEPT !["back"] = [Idle EXCEPT !.pc = "hangup", !.fd = f]]
      /\ UNCHANGED <<sock, opened, gone, sessions, ids, queue, pending, req, made, stats,
                     holder, inbox, torn, answers>>
  <2>1. thread["back"] = Idle
    BY Threads DEF BackHangup, At, IInv, Typed, Held
  <2>. QED BY <2>1 DEF BackHangup, kernVars, sessVars, reqVars, objVars, wireVars
<1>2. KernelOK' /\ SessionOK' /\ RequestOK' /\ ObjectOK'
  BY <1>1 DEF IInv, Typed, TypeOK, KernelOK, SessionOK, RequestOK, ObjectOK
<1>3. ThreadOK'
  BY <1>1 DEF IInv, Typed, TypeOK, ThreadOK, PC, Idle
<1>4. Registry'
  BY UnregisterKeeps DEF BackHangup, IInv, Typed, TypeOK, Registry
<1>5. Held' /\ Sessions'
  BY <1>1, Threads DEF IInv, Typed, TypeOK, ThreadOK, Held, Sessions, Idle
<1>6. \A t \in Thread : thread'[t].req = thread[t].req
  BY <1>1 DEF IInv, Typed, TypeOK, ThreadOK, Idle
<1>7. KnownRequests'
  BY <1>1, <1>6, KnownFrame, RouterAssumption DEF IInv, Typed
<1>8. \A p \in Proc : thread'[p] = thread[p]
  BY <1>1, Threads DEF IInv, Typed, TypeOK, ThreadOK
<1>9. Handover'
  BY <1>1, <1>6, <1>8, HandoverFrame DEF IInv, Typed
<1>. QED BY <1>2, <1>3, <1>4, <1>5, <1>7, <1>9 DEF IInv, Typed, TypeOK, Registry

-----------------------------------------------------------------------------
(* A Worker object that is given up, by a processor or the reactor.        *)

(* It is unregistered by its fd, whoever has that fd by now.               *)
LEMMA UnregisterDeadKeeps ==
  ASSUME IInv, NEW t \in Thread, UnregisterDead(t)
  PROVE  IInv'
<1>1. /\ thread[t].pc = "unregister"
      /\ thread' = [thread EXCEPT ![t].pc = "close"]
      /\ UNCHANGED <<sock, opened, gone, sessions, ids, queue, pending, req, made, stats,
                     holder, inbox, torn, answers>>
  BY DEF UnregisterDead, At, Goto, kernVars, sessVars, reqVars, objVars, wireVars
<1>2. KernelOK' /\ SessionOK' /\ RequestOK' /\ ObjectOK'
  BY <1>1 DEF IInv, Typed, TypeOK, KernelOK, SessionOK, RequestOK, ObjectOK
<1>3. /\ \A u \in Thread : /\ thread'[u].req = thread[u].req
                           /\ thread'[u].worker = thread[u].worker
                           /\ thread'[u].fd = thread[u].fd
      /\ \A u \in Thread \ {t} : thread'[u] = thread[u]
      /\ thread'[t].pc = "close"
  BY <1>1 DEF IInv, Typed, TypeOK, ThreadOK
<1>4. ThreadOK'
  <2>1. [thread[t] EXCEPT !.pc = "close"] \in [pc : PC, req : Req \cup {None},
                                   worker : Worker \cup {None}, fd : Fd \cup {None}]
    BY DEF IInv, Typed, TypeOK, ThreadOK, PC
  <2>. QED BY <1>1, <2>1 DEF IInv, Typed, TypeOK, ThreadOK
<1>5. Registry'
  BY UnregisterKeeps, <1>1, WorkerFields DEF UnregisterDead, IInv, Typed, TypeOK, Held, Registry
<1>6. Held'
  BY <1>1, <1>3, Threads DEF IInv, Typed, Held, Idle
<1>7. Sessions'
  BY <1>1, <1>3, Threads DEF IInv, Typed, Sessions
<1>8. KnownRequests'
  BY <1>1, <1>3, KnownFrame, RouterAssumption DEF IInv, Typed
<1>9. \A p \in Proc : thread'[p].pc \in {thread[p].pc, "close"}
  BY <1>3, Threads
<1>10. Handover'
  BY <1>1, <1>3, <1>9, HandoverFrame DEF IInv, Typed
<1>. QED BY <1>2, <1>4, <1>5, <1>6, <1>7, <1>8, <1>10 DEF IInv, Typed, TypeOK, Registry

(* What the descriptor denotes is closed; the processor goes on to report  *)
(* the failure, the reactor has done.                                      *)
LEMMA CloseDeadKeeps ==
  ASSUME IInv, NEW t \in Thread, CloseDead(t)
  PROVE  IInv'
<1> DEFINE w == thread[t].worker
<1>1. /\ thread[t].pc = "close" /\ w \in Worker
      /\ sock' = [sock EXCEPT ![w.fd] = None]
      /\ stats' = [stats EXCEPT ![w.obj] = [failed |-> 0, timeout |-> 0]]
      /\ holder' = [holder EXCEPT ![w.obj] = None]
      /\ UNCHANGED <<opened, gone, sessions, ids, queue, pending, req, fds, workers, groups,
                     made, inbox, torn, answers>>
  BY DEF CloseDead, At, IInv, Typed, Held, sessVars, reqVars, mgtVars, wireVars
<1>2. /\ t \in Proc => thread' = [thread EXCEPT ![t].pc = "fail", ![t].worker = None]
      /\ t \notin Proc => t = "back" /\ thread' = [thread EXCEPT ![t] = Idle]
  BY <1>1, Threads DEF CloseDead, AfterSend, Rest, IInv, Typed, Held, Thread
<1>. HIDE DEF w
<1>3. KernelOK' /\ SessionOK' /\ RequestOK' /\ ObjectOK'
  BY <1>1 DEF IInv, Typed, TypeOK, KernelOK, SessionOK, RequestOK, ObjectOK
<1>4. ThreadOK'
  BY <1>2 DEF IInv, Typed, TypeOK, ThreadOK, PC, Idle
<1>5. /\ \A u \in Thread : thread'[u].req = thread[u].req
      /\ \A u \in Thread \ {t} : thread'[u] = thread[u]
      /\ thread'[t].pc = IF t \in Proc THEN "fail" ELSE "idle"
      /\ t \notin Proc => thread'[t] = Idle
  BY <1>1, <1>2, Threads DEF IInv, Typed, TypeOK, ThreadOK, Held, Idle
<1>6. Registry'
  BY <1>1, RegistryFrame DEF IInv, Typed, TypeOK, Registry
<1>7. Held'
  BY <1>1, <1>2, <1>5, Threads DEF IInv, Typed, Held, Idle
<1>8. Sessions'
  <2>1. \A x \in Fd : sock'[x] \in App => sock[x] \in App
    BY <1>1, RouterAssumption DEF IInv, Typed, TypeOK, KernelOK, Conn
  <2>2. thread'["front"] = thread["front"]
    BY <1>2, <1>5, Threads
  <2>. QED BY <1>1, <2>1, <2>2 DEF IInv, Typed, Sessions
<1>9. KnownRequests'
  BY <1>1, <1>5, KnownFrame, RouterAssumption DEF IInv, Typed
<1>10. \A p \in Proc : thread'[p].pc \in {thread[p].pc, "fail"}
  BY <1>5, Threads
<1>11. Handover'
  BY <1>1, <1>5, <1>10, HandoverFrame DEF IInv, Typed
<1>. QED BY <1>3, <1>4, <1>6, <1>7, <1>8, <1>9, <1>11 DEF IInv, Typed, TypeOK, Registry

-----------------------------------------------------------------------------
(* Steps that answer a request.                                            *)

(* What a thread with a request in hand knows of it.                       *)
LEMMA InHand ==
  ASSUME IInv, NEW t \in Thread,
         \/ t \in Proc /\ thread[t].pc # "idle"
         \/ thread[t].pc = "forward"
  PROVE  LET r == thread[t].req
         IN /\ r \in Req /\ r # None
            /\ req[r] # None /\ req[r].fd \in Fd
            /\ sock[req[r].fd] \in Conn \cup {None}
            /\ r \notin Range(queue)
            /\ \A p \in Proc : t \in Proc /\ p # t => thread[p].req # r
<1> DEFINE r == thread[t].req
<1>1. r \in Req
  BY Threads DEF IInv, Typed, Held, Thread
<1>2. r # None /\ req[r] # None
  BY <1>1, RouterAssumption DEF IInv, Typed, KnownRequests
<1>3. req[r].fd \in Fd /\ sock[req[r].fd] \in Conn \cup {None}
  BY <1>1, <1>2 DEF IInv, Typed, TypeOK, RequestOK, KernelOK, Request
<1>4. r \notin Range(queue) /\ \A p \in Proc : t \in Proc /\ p # t => thread[p].req # r
  BY <1>2 DEF IInv, Handover, OneHandler
<1>. QED BY <1>1, <1>2, <1>3, <1>4

(* Something is sent back for r, and whoever lets go of a request lets go  *)
(* of this one.                                                            *)
LEMMA HandoverAnswer ==
  ASSUME Handover, NEW r \in Req,
         UNCHANGED <<queue, pending, req, ids, inbox>>,
         answers'[r] # << >>,
         \A q \in Req : /\ answers[q] # << >> => answers'[q] # << >>
                        /\ Kinds(q) \subseteq Kinds(q)',
         \A t \in Thread : \/ thread'[t].req = thread[t].req
                           \/ thread[t].req = r /\ thread'[t].req = None,
         \A p \in Proc : \/ thread'[p] = thread[p]
                         \/ thread'[p].pc = "idle"
                         \/ /\ thread'[p].pc = "del"
                            /\ thread'[p].req = r /\ "sendfail" \in Kinds(r)',
         \A p \in Proc : thread[p].pc # "idle" => thread[p].req \in Req,
         None \notin Req, inbox \in [WConn -> SUBSET Req], queue \in Seq(Req)
  PROVE  Handover'
<1>1. OnTheWay'
  BY DEF Handover, OnTheWay, Sent
<1>2. AtProcessor'
  <2>. SUFFICES ASSUME NEW p \in Proc, thread'[p].pc # "idle"
                PROVE  /\ Unsent(p)' => /\ thread'[p].req \notin pending
                                        /\ ~Sent(thread[p].req)'
                                        /\ thread'["back"].req # thread'[p].req
                       /\ thread'[p].pc = "send" =>
                            thread'[p].req \in pending /\ ~Sent(thread[p].req)'
                       /\ thread'[p].pc = "del" => "sendfail" \in Kinds(thread[p].req)'
    BY DEF AtProcessor, Unsent
  <2>1. CASE thread'[p] = thread[p]
    <3>1. thread[p].req \in Req
      BY <2>1
    <3>2. thread'["back"].req \in {thread["back"].req, None}
      BY Threads
    <3>. QED BY <2>1, <3>1, <3>2 DEF Handover, AtProcessor, Unsent, Sent
  <2>2. CASE thread'[p].pc = "del" /\ thread'[p].req = r /\ "sendfail" \in Kinds(r)'
    BY <2>2 DEF Unsent
  <2>. QED BY <2>1, <2>2
<1>3. OneHandler'
  <2>1. Range(queue) \subseteq Req
    BY DEF Range
  <2>2. \A q \in Range(queue) : \A t \in Thread : thread'[t].req # q
    BY <2>1 DEF Handover, OneHandler
  <2>3. \A p, q \in Proc : thread'[p].req = thread'[q].req /\ p # q => thread'[p].req = None
    BY Threads DEF Handover, OneHandler
  <2>. QED BY <2>2, <2>3 DEF Handover, OneHandler
<1>4. ReplyFindsPending'
  BY DEF Handover, ReplyFindsPending
<1>5. NothingVanishes'
  <2>. SUFFICES ASSUME NEW q \in Req, req[q] # None, answers'[q] = << >>,
                       q \notin Range(queue) \cup pending,
                       \A t \in Thread : thread'[t].req # q
                PROVE  req[q].session \notin ids
    BY DEF NothingVanishes
  <2>1. answers[q] = << >> /\ \A t \in Thread : thread[t].req # q
    OBVIOUS
  <2>. QED BY <2>1 DEF Handover, NothingVanishes
<1>. QED BY <1>1, <1>2, <1>3, <1>4, <1>5 DEF Handover

(* A request is refused, and its processor is free.                        *)
LEMMA RefuseKeeps ==
  ASSUME IInv, NEW p \in Proc, Refuse(p)
  PROVE  IInv'
<1> DEFINE r == thread[p].req
<1>1. /\ thread[p].pc \in {"invalid", "noworker"}
      /\ thread' = [thread EXCEPT ![p] = Idle]
      /\ answers' = [answers EXCEPT ![r] =
                       Append(@, [kind |-> thread[p].pc, to |-> sock[req[r].fd]])]
      /\ UNCHANGED <<sock, opened, gone, sessions, ids, queue, pending, req, fds, workers,
                     groups, made, stats, holder, inbox, torn>>
  BY DEF Refuse, Answer, Rest, kernVars, sessVars, reqVars, mgtVars, objVars, wireVars
<1>2. p \in Thread /\ r \in Req /\ req[r] # None /\ sock[req[r].fd] \in Conn \cup {None}
  BY <1>1, Threads, InHand
<1>3. /\ thread[p].pc \in Kind /\ RequestOK
      /\ thread \in [Thread -> [pc : PC, req : Req \cup {None},
                                worker : Worker \cup {None}, fd : Fd \cup {None}]]
  BY <1>1 DEF Kind, Invalid, IInv, Typed, TypeOK, ThreadOK
<1>. HIDE DEF r
<1>4. /\ answers' \in [Req -> Seq([kind : Kind, to : Conn \cup {None}])]
      /\ answers'[r] # << >>
      /\ \A q \in Req : /\ answers[q] # << >> => answers'[q] # << >>
                        /\ Kinds(q) \subseteq Kinds(q)'
  BY <1>1, <1>2, <1>3, AnswerFacts
<1>5. /\ thread'[p] = Idle /\ \A t \in Thread \ {p} : thread'[t] = thread[t]
      /\ \A t \in Thread : thread'[t].req \in {thread[t].req, None}
  BY <1>1, <1>2, <1>3 DEF Idle
<1>6. KernelOK' /\ SessionOK' /\ RequestOK' /\ ObjectOK'
  BY <1>1, <1>4 DEF IInv, Typed, TypeOK, KernelOK, SessionOK, RequestOK, ObjectOK
<1>7. ThreadOK'
  BY <1>1 DEF IInv, Typed, TypeOK, ThreadOK, PC, Idle
<1>8. Registry'
  BY <1>1, RegistryFrame DEF IInv, Typed, TypeOK, Registry
<1>9. Held' /\ Sessions'
  BY <1>1, <1>2, <1>5, Threads DEF IInv, Typed, Held, Sessions, Idle
<1>10. KnownRequests'
  BY <1>1, <1>5, KnownFrame, RouterAssumption DEF IInv, Typed
<1>11. Handover'
  <2>1. \A t \in Thread : \/ thread'[t].req = thread[t].req
                          \/ thread[t].req = r /\ thread'[t].req = None
    BY <1>5 DEF r, Idle
  <2>2. \A q \in Proc : thread'[q] = thread[q] \/ thread'[q].pc = "idle"
    BY <1>5, Threads DEF Idle
  <2>. QED BY <1>1, <1>2, <1>4, <2>1, <2>2, HandoverAnswer, RouterAssumption
           DEF IInv, Typed, TypeOK, RequestOK, Held
<1>. QED BY <1>6, <1>7, <1>8, <1>9, <1>10, <1>11 DEF IInv, Typed, TypeOK, Registry

(* ERR_SEND_FAIL is sent; the request is still among the waiting ones.     *)
LEMMA ReplySendFailKeeps ==
  ASSUME IInv, NEW p \in Proc, ReplySendFail(p)
  PROVE  IInv'
<1>1. /\ thread[p].pc = "fail"
      /\ thread' = [thread EXCEPT ![p].pc = "del"]
      /\ UNCHANGED <<sock, opened, gone, sessions, ids, queue, pending, req, fds, workers,
                     groups, made, stats, holder, inbox, torn>>
  BY DEF ReplySendFail, At, Goto, kernVars, sessVars, reqVars, mgtVars, objVars, wireVars
<1>2. PICK r \in Req : /\ r = thread[p].req /\ req[r] # None
                       /\ sock[req[r].fd] \in Conn \cup {None}
  BY <1>1, Threads, InHand
<1>3. /\ p \in Thread /\ "sendfail" \in Kind /\ RequestOK
      /\ thread \in [Thread -> [pc : PC, req : Req \cup {None},
                                worker : Worker \cup {None}, fd : Fd \cup {None}]]
  BY Threads DEF Kind, IInv, Typed, TypeOK, ThreadOK
<1>4. /\ thread'[p] = [thread[p] EXCEPT !.pc = "del"]
      /\ \A t \in Thread \ {p} : thread'[t] = thread[t]
  BY <1>1, <1>3
<1>5. /\ thread'[p] \in [pc : PC, req : Req \cup {None},
                         worker : Worker \cup {None}, fd : Fd \cup {None}]
      /\ thread'[p].pc = "del" /\ thread'[p].req = r
  BY <1>2, <1>3, <1>4 DEF PC
<1>6. \A t \in Thread : thread'[t].req = thread[t].req
  BY <1>2, <1>4, <1>5
<1>7. /\ answers' \in [Req -> Seq([kind : Kind, to : Conn \cup {None}])]
      /\ answers'[r] # << >> /\ "sendfail" \in Kinds(r)'
      /\ \A q \in Req : /\ answers[q] # << >> => answers'[q] # << >>
                        /\ Kinds(q) \subseteq Kinds(q)'
  <2>1. answers' = [answers EXCEPT ![r] =
                      Append(@, [kind |-> "sendfail", to |-> sock[req[r].fd]])]
    BY <1>2 DEF ReplySendFail, Answer
  <2>. QED BY <1>2, <1>3, <2>1, AnswerFacts
<1>8. KernelOK' /\ SessionOK' /\ RequestOK' /\ ObjectOK'
  BY <1>1, <1>7 DEF IInv, Typed, TypeOK, KernelOK, SessionOK, RequestOK, ObjectOK
<1>9. ThreadOK'
  BY <1>1, <1>3, <1>5 DEF ThreadOK
<1>10. Registry'
  BY <1>1, RegistryFrame DEF IInv, Typed, TypeOK, Registry
<1>11. Held' /\ Sessions'
  BY <1>1, <1>3, <1>4, <1>5, Threads DEF IInv, Typed, Held, Sessions, Idle
<1>12. KnownRequests'
  BY <1>1, <1>6, KnownFrame, RouterAssumption DEF IInv, Typed
<1>13. Handover'
  <2>1. \A q \in Proc : \/ thread'[q] = thread[q]
                        \/ /\ thread'[q].pc = "del"
                           /\ thread'[q].req = r /\ "sendfail" \in Kinds(r)'
    BY <1>4, <1>5, <1>7, Threads
  <2>. QED BY <1>1, <1>6, <1>7, <2>1, HandoverAnswer, RouterAssumption
           DEF IInv, Typed, TypeOK, RequestOK, Held
<1>. QED BY <1>8, <1>9, <1>10, <1>11, <1>12, <1>13 DEF IInv, Typed, TypeOK, Registry

(* A worker's answer is forwarded by the reactor.                          *)
LEMMA ForwardReplyKeeps ==
  ASSUME IInv, ForwardReply
  PROVE  IInv'
<1> DEFINE r == thread["back"].req
<1>1. /\ thread["back"].pc = "forward"
      /\ thread' = [thread EXCEPT !["back"] = Idle]
      /\ answers' = [answers EXCEPT ![r] =
                       Append(@, [kind |-> "reply", to |-> sock[req[r].fd]])]
      /\ UNCHANGED <<sock, opened, gone, sessions, ids, queue, pending, req, fds, workers,
                     groups, made, stats, holder, inbox, torn>>
  BY DEF ForwardReply, Answer, At, Rest, kernVars, sessVars, reqVars, mgtVars, objVars, wireVars
<1>2. r \in Req /\ req[r] # None /\ sock[req[r].fd] \in Conn \cup {None}
  BY <1>1, Threads, InHand
<1>3. /\ "reply" \in Kind /\ RequestOK
      /\ thread \in [Thread -> [pc : PC, req : Req \cup {None},
                                worker : Worker \cup {None}, fd : Fd \cup {None}]]
  BY DEF Kind, IInv, Typed, TypeOK, ThreadOK
<1>. HIDE DEF r
<1>4. /\ answers' \in [Req -> Seq([kind : Kind, to : Conn \cup {None}])]
      /\ answers'[r] # << >>
      /\ \A q \in Req : /\ answers[q] # << >> => answers'[q] # << >>
                        /\ Kinds(q) \subseteq Kinds(q)'
  BY <1>1, <1>2, <1>3, AnswerFacts
<1>5. /\ thread'["back"] = Idle /\ \A t \in Thread \ {"back"} : thread'[t] = thread[t]
      /\ \A t \in Thread : thread'[t].req \in {thread[t].req, None}
  BY <1>1, <1>3, Threads DEF Idle
<1>6. KernelOK' /\ SessionOK' /\ RequestOK' /\ ObjectOK'
  BY <1>1, <1>4 DEF IInv, Typed, TypeOK, KernelOK, SessionOK, RequestOK, ObjectOK
<1>7. ThreadOK'
  BY <1>1 DEF IInv, Typed, TypeOK, ThreadOK, PC, Idle
<1>8. Registry'
  BY <1>1, RegistryFrame DEF IInv, Typed, TypeOK, Registry
<1>9. Held' /\ Sessions'
  BY <1>1, <1>2, <1>5, Threads DEF IInv, Typed, Held, Sessions, Idle
<1>10. KnownRequests'
  BY <1>1, <1>5, KnownFrame, RouterAssumption DEF IInv, Typed
<1>11. Handover'
  <2>1. \A t \in Thread : \/ thread'[t].req = thread[t].req
                          \/ thread[t].req = r /\ thread'[t].req = None
    BY <1>5 DEF r, Idle
  <2>2. \A q \in Proc : thread'[q] = thread[q]
    BY <1>5, Threads
  <2>. QED BY <1>1, <1>2, <1>4, <2>1, <2>2, HandoverAnswer, RouterAssumption
           DEF IInv, Typed, TypeOK, RequestOK, Held
<1>. QED BY <1>6, <1>7, <1>8, <1>9, <1>10, <1>11 DEF IInv, Typed, TypeOK, Registry

-----------------------------------------------------------------------------
(* The way from the queue to the waiting requests.                         *)

(* A processor checks its request and chooses a worker.                    *)
LEMMA RouteKeeps ==
  ASSUME IInv, NEW p \in Proc, Route(p)
  PROVE  IInv'
<1> DEFINE g == req[thread[p].req].content
<1>1. /\ p \in Thread /\ thread[p].pc = "route"
      /\ UNCHANGED <<sock, opened, gone, sessions, ids, queue, pending, req, made, stats,
                     holder, inbox, torn, answers>>
  BY Threads DEF Route, At, kernVars, sessVars, reqVars, mgtVars, objVars, wireVars
<1>2. \/ /\ thread' = [thread EXCEPT ![p].pc = "invalid"]
         /\ UNCHANGED <<fds, workers, groups>>
      \/ /\ thread' = [thread EXCEPT ![p].pc = "noworker"]
         /\ UNCHANGED <<fds, workers, groups>>
      \/ \E w \in Worker : /\ Mgt!GetWorker(g, w)
                           /\ thread' = [thread EXCEPT ![p].pc = "push", ![p].worker = w]
  BY DEF Route, Goto, mgtVars
<1>. HIDE DEF g
<1>3. /\ thread'[p] \in [pc : PC, req : Req \cup {None},
                         worker : Worker \cup {None}, fd : Fd \cup {None}]
      /\ thread' = [thread EXCEPT ![p] = thread'[p]]
      /\ thread'[p].req = thread[p].req
      /\ \/ thread'[p].pc \in {"invalid", "noworker"}
         \/ thread'[p].pc = "push" /\ thread'[p].worker \in Worker
  <2>1. thread \in [Thread -> [pc : PC, req : Req \cup {None},
                               worker : Worker \cup {None}, fd : Fd \cup {None}]]
    BY DEF IInv, Typed, TypeOK, ThreadOK
  <2>2. CASE thread' = [thread EXCEPT ![p].pc = "invalid"]
    BY <1>1, <2>1, <2>2 DEF PC
  <2>3. CASE thread' = [thread EXCEPT ![p].pc = "noworker"]
    BY <1>1, <2>1, <2>3 DEF PC
  <2>4. ASSUME NEW w \in Worker, thread' = [thread EXCEPT ![p].pc = "push", ![p].worker = w]
        PROVE  <1>3!:
    BY <1>1, <2>1, <2>4 DEF PC
  <2>. QED BY <1>2, <2>2, <2>3, <2>4
<1>4. KernelOK' /\ SessionOK' /\ RequestOK' /\ ObjectOK'
  BY <1>1 DEF IInv, Typed, TypeOK, KernelOK, SessionOK, RequestOK, ObjectOK
<1>5. ThreadOK'
  BY <1>1, <1>3 DEF IInv, Typed, TypeOK, ThreadOK
<1>6. Registry'
  <2>1. CASE UNCHANGED <<fds, workers, groups>>
    BY <2>1, RegistryFrame DEF IInv, Typed, TypeOK, Registry
  <2>2. ASSUME NEW w \in Worker, Mgt!GetWorker(g, w) PROVE Registry'
    <3>1. g \in GroupId
      BY <2>2 DEF Mgt!GetWorker, IInv, Typed, TypeOK, Mgt!TypeOK
    <3>. QED BY <2>2, <3>1, GetWorkerKeeps DEF IInv, Typed, TypeOK, Registry
  <2>. QED BY <1>2, <2>1, <2>2
<1>7. \A t \in Thread : t # p => thread'[t] = thread[t]
  BY <1>3 DEF IInv, Typed, TypeOK, ThreadOK
<1>8. Held' /\ Sessions'
  BY <1>1, <1>3, <1>7, Threads DEF IInv, Typed, Held, Sessions, Idle
<1>9. KnownRequests'
  BY <1>1, <1>3, <1>7, KnownFrame, RouterAssumption DEF IInv, Typed
<1>10. Handover'
  <2>1. \A q \in Proc : thread'[q].pc = thread[q].pc \/ (Unsent(q) /\ Unsent(q)')
    BY <1>1, <1>3, <1>7, Threads DEF Unsent
  <2>. QED BY <1>1, <1>3, <1>7, <2>1, HandoverFrame DEF IInv, Typed
<1>. QED BY <1>4, <1>5, <1>6, <1>8, <1>9, <1>10 DEF IInv, Typed, TypeOK, Registry

(* A front end asks: the request is new, so nobody has it, and it is       *)
(* answered at once or comes to the end of the queue.                      *)
LEMMA ReadReqKeeps ==
  ASSUME IInv, NEW f \in Fd, NEW r \in Req, NEW g \in Content, ReadReq(f, r, g)
  PROVE  IInv'
<1> DEFINE new == [fd |-> f, session |-> Sess!SessionOf(f), content |-> g, from |-> sock[f]]
<1>1. /\ sock[f] \in App /\ req[r] = None
      /\ req' = [req EXCEPT ![r] = new]
      /\ UNCHANGED <<sock, opened, gone, sessions, ids, pending, fds, workers, groups, made,
                     stats, holder, inbox, torn, thread>>
  BY DEF ReadReq, Reqs!PushReq, kernVars, sessVars, mgtVars, objVars, wireVars
<1>2. \/ /\ queue' = Append(queue, r)
         /\ UNCHANGED answers
      \/ /\ UNCHANGED queue
         /\ \E kind \in Kind :
              answers' = [answers EXCEPT ![r] = Append(@, [kind |-> kind, to |-> sock[f]])]
  <2>1. TooLong \in Kind /\ "full" \in Kind
    BY DEF Kind
  <2>. QED BY <2>1 DEF ReadReq, Reqs!PushReq
<1>3. new \in Request /\ new.session \in opened
  <2>1. thread["front"].fd # f
    BY Threads, RouterAssumption DEF ReadReq, At, IInv, Typed, Held, Idle
  <2>2. f \in DOMAIN sessions /\ sessions[f] \in App \cap opened
    BY <1>1, <2>1 DEF IInv, Typed, Sessions, TypeOK, SessionOK
  <2>. QED BY <1>1, <2>2 DEF Sess!SessionOf, Request
<1>. HIDE DEF new
<1>4. /\ req'[r] = new /\ new # None
      /\ \A q \in Req \ {r} : req'[q] = req[q]
  BY <1>1, <1>3, RouterAssumption DEF IInv, Typed, TypeOK, RequestOK
<1>5. /\ r \notin Range(queue) /\ r \notin pending /\ ~Sent(r)
      /\ \A t \in Thread : thread[t].req # r
  BY <1>1 DEF IInv, Typed, KnownRequests
<1>6. /\ queue \in Seq(Req)
      /\ Append(queue, r) \in Seq(Req)
      /\ Range(Append(queue, r)) = Range(queue) \cup {r}
      /\ IsInjective(queue) => IsInjective(Append(queue, r))
  <2>1. queue \in Seq(Req)
    BY DEF IInv, Typed, TypeOK, RequestOK
  <2>. QED BY <1>5, <2>1, AppendFacts
<1>7. /\ answers' \in [Req -> Seq([kind : Kind, to : Conn \cup {None}])]
      /\ queue' = Append(queue, r) \/ (queue' = queue /\ answers'[r] # << >>)
      /\ \A q \in Req : /\ answers[q] # << >> => answers'[q] # << >>
                        /\ Kinds(q) \subseteq Kinds(q)'
  <2>1. CASE queue' = Append(queue, r) /\ UNCHANGED answers
    BY <2>1 DEF IInv, Typed, TypeOK, RequestOK, Kinds
  <2>2. ASSUME NEW kind \in Kind, UNCHANGED queue,
               answers' = [answers EXCEPT ![r] = Append(@, [kind |-> kind, to |-> sock[f]])]
        PROVE  <1>7!:
    <3>1. RequestOK /\ sock[f] \in Conn \cup {None}
      BY DEF IInv, Typed, TypeOK, KernelOK
    <3>. QED BY <2>2, <3>1, AnswerFacts
  <2>. QED BY <1>2, <2>1, <2>2
<1>8. KernelOK' /\ SessionOK' /\ ObjectOK' /\ ThreadOK'
  BY <1>1 DEF IInv, Typed, TypeOK, KernelOK, SessionOK, ObjectOK, ThreadOK
<1>9. RequestOK'
  BY <1>1, <1>2, <1>3, <1>6, <1>7 DEF IInv, Typed, TypeOK, RequestOK
<1>10. Registry'
  BY <1>1, RegistryFrame DEF IInv, Typed, TypeOK, Registry
<1>11. Held'
  BY <1>1 DEF IInv, Typed, Held, Idle
<1>12. Sessions'
  BY <1>1, <1>3, <1>4 DEF IInv, Typed, Sessions
<1>13. KnownRequests'
  <2>1. Range(queue') \subseteq Range(queue) \cup {r}
    BY <1>6, <1>7
  <2>. QED BY <1>1, <1>4, <2>1 DEF IInv, Typed, KnownRequests, Sent
<1>14. OnTheWay' /\ AtProcessor'
  <2>1. Range(queue') \subseteq Range(queue) \cup {r}
    BY <1>6, <1>7
  <2>2. OnTheWay'
    BY <1>1, <1>5, <2>1 DEF IInv, Handover, OnTheWay, Sent
  <2>3. AtProcessor'
    <3>1. \A p \in Proc : thread[p].pc # "idle" => thread[p].req \in Req
      BY DEF IInv, Typed, Held
    <3>. QED BY <1>1, <1>7, <3>1 DEF IInv, Handover, AtProcessor, Unsent, Sent
  <2>. QED BY <2>2, <2>3
<1>15. OneHandler'
  <2>1. Range(queue') \subseteq Range(queue) \cup {r}
    BY <1>6, <1>7
  <2>2. IsInjective(queue')
    BY <1>6, <1>7 DEF IInv, Handover, OneHandler
  <2>. QED BY <1>1, <1>5, <2>1, <2>2 DEF IInv, Handover, OneHandler
<1>16. ReplyFindsPending'
  BY <1>1, <1>7 DEF IInv, Typed, TypeOK, RequestOK, Handover, ReplyFindsPending
<1>17. NothingVanishes'
  <2>1. answers'[r] # << >> \/ r \in Range(queue')
    BY <1>6, <1>7
  <2>2. Range(queue) \subseteq Range(queue')
    BY <1>6, <1>7
  <2>3. ASSUME NEW q \in Req, q # r, req'[q] # None
        PROVE  \/ answers'[q] # << >>
               \/ q \in Range(queue') \cup pending'
               \/ \E t \in Thread : thread'[t].req = q
               \/ req'[q].session \notin ids'
    BY <1>1, <1>4, <1>7, <2>2, <2>3 DEF IInv, Handover, NothingVanishes
  <2>. QED BY <2>1, <2>3 DEF NothingVanishes
<1>. QED BY <1>8, <1>9, <1>10, <1>11, <1>12, <1>13, <1>14, <1>15, <1>16, <1>17
         DEF IInv, Typed, TypeOK, Registry, Handover

(* A processor takes the request at the front, which nobody else has.      *)
LEMMA GetReqKeeps ==
  ASSUME IInv, NEW p \in Proc, NEW r \in Req, GetReq(p, r)
  PROVE  IInv'
<1>1. /\ p \in Thread /\ thread[p] = Idle
      /\ queue # << >> /\ r = Head(queue) /\ queue' = Tail(queue)
      /\ thread' = [thread EXCEPT ![p] = [Idle EXCEPT !.pc = "route", !.req = r]]
      /\ UNCHANGED <<sock, opened, gone, sessions, ids, pending, req, fds, workers, groups,
                     made, stats, holder, inbox, torn, answers>>
  <2>1. p \in Thread /\ thread[p] = Idle
    BY Threads DEF GetReq, At, IInv, Typed, Held
  <2>. QED BY <2>1 DEF GetReq, Reqs!GetReq, kernVars, sessVars, mgtVars, objVars, wireVars
<1>2. /\ queue' \in Seq(Req)
      /\ Range(queue) = Range(queue') \cup {r}
      /\ IsInjective(queue') /\ r \notin Range(queue')
  <2>1. queue \in Seq(Req) /\ IsInjective(queue)
    BY DEF IInv, Typed, TypeOK, RequestOK, Handover, OneHandler
  <2>. QED BY <1>1, <2>1, TailFacts
<1>3. /\ req[r] # None /\ r \notin pending /\ ~Sent(r)
      /\ \A t \in Thread : thread[t].req # r
  <2>1. r \in Range(queue)
    BY <1>2
  <2>. QED BY <2>1 DEF IInv, Typed, KnownRequests, Handover, OnTheWay, OneHandler
<1>4. /\ thread'[p].pc = "route" /\ thread'[p].req = r
      /\ \A t \in Thread : t # p => thread'[t] = thread[t]
      /\ thread[p].req = None
  BY <1>1 DEF IInv, Typed, TypeOK, ThreadOK, Idle
<1>5. KernelOK' /\ SessionOK' /\ RequestOK' /\ ObjectOK'
  BY <1>1, <1>2 DEF IInv, Typed, TypeOK, KernelOK, SessionOK, RequestOK, ObjectOK
<1>6. ThreadOK'
  BY <1>1 DEF IInv, Typed, TypeOK, ThreadOK, PC, Idle
<1>7. Registry'
  BY <1>1, RegistryFrame DEF IInv, Typed, TypeOK, Registry
<1>8. Held' /\ Sessions'
  BY <1>1, <1>4, Threads DEF IInv, Typed, Held, Sessions, Idle
<1>9. KnownRequests'
  BY <1>1, <1>2, <1>3, <1>4 DEF IInv, Typed, KnownRequests, Sent
<1>10. OnTheWay'
  BY <1>1, <1>2 DEF IInv, Handover, OnTheWay, Sent
<1>11. AtProcessor'
  <2>. SUFFICES ASSUME NEW q \in Proc, thread'[q].pc # "idle"
                PROVE  /\ Unsent(q)' => /\ thread'[q].req \notin pending
                                        /\ ~Sent(thread'[q].req)
                                        /\ thread["back"].req # thread'[q].req
                       /\ thread'[q].pc = "send" =>
                            thread'[q].req \in pending /\ ~Sent(thread'[q].req)
                       /\ thread'[q].pc = "del" => "sendfail" \in Kinds(thread'[q].req)
    BY <1>1, <1>4, Threads DEF AtProcessor, Unsent, Sent, Kinds
  <2>1. CASE q = p
    BY <1>3, <1>4, <2>1, Threads
  <2>2. CASE q # p
    BY <1>4, <2>2, Threads DEF IInv, Handover, AtProcessor, Unsent
  <2>. QED BY <2>1, <2>2
<1>12. OneHandler'
  <2>1. \A q \in Range(queue') : \A t \in Thread : thread'[t].req # q
    BY <1>2, <1>4 DEF IInv, Handover, OneHandler
  <2>2. \A q \in Proc : q # p => thread'[q].req # r
    BY <1>3, <1>4, Threads
  <2>3. \A q, s \in Proc : thread'[q].req = thread'[s].req /\ q # s => thread'[q].req = None
    BY <1>4, <2>2, Threads DEF IInv, Handover, OneHandler
  <2>. QED BY <1>2, <2>1, <2>3 DEF OneHandler
<1>13. ReplyFindsPending'
  BY <1>1 DEF IInv, Handover, ReplyFindsPending, Kinds
<1>14. NothingVanishes'
  <2>. SUFFICES ASSUME NEW q \in Req, req[q] # None, answers[q] = << >>,
                       q \notin Range(queue') \cup pending,
                       \A t \in Thread : thread'[t].req # q
                PROVE  req[q].session \notin ids
    BY <1>1 DEF NothingVanishes
  <2>1. q # r
    BY <1>1, <1>4
  <2>2. \A t \in Thread : thread[t].req # q
    BY <1>4, RouterAssumption
  <2>. QED BY <1>2, <2>1, <2>2 DEF IInv, Handover, NothingVanishes
<1>. QED BY <1>5, <1>6, <1>7, <1>8, <1>9, <1>10, <1>11, <1>12, <1>13, <1>14
         DEF IInv, Typed, TypeOK, Registry, Handover

(* The request joins the waiting ones before it is sent.                   *)
LEMMA PushAsynReqKeeps ==
  ASSUME IInv, NEW p \in Proc, PushAsynReq(p)
  PROVE  IInv'
<1>1. /\ p \in Thread /\ thread[p].pc = "push"
      /\ pending' = pending \cup {thread[p].req}
      /\ thread' = [thread EXCEPT ![p].pc = "send"]
      /\ UNCHANGED <<sock, opened, gone, sessions, ids, queue, req, fds, workers, groups,
                     made, stats, holder, inbox, torn, answers>>
  BY Threads DEF PushAsynReq, Reqs!PushAsynReq, At, Goto, kernVars, sessVars, mgtVars,
     objVars, wireVars
<1>2. PICK r \in Req : /\ r = thread[p].req /\ req[r] # None /\ r \notin Range(queue)
                       /\ \A q \in Proc : q # p => thread[q].req # r
  BY <1>1, InHand
<1>3. /\ thread'[p] \in [pc : PC, req : Req \cup {None},
                         worker : Worker \cup {None}, fd : Fd \cup {None}]
      /\ thread'[p].pc = "send" /\ thread'[p].req = r
      /\ thread'[p].worker = thread[p].worker
      /\ \A t \in Thread : t # p => thread'[t] = thread[t]
  <2>1. thread \in [Thread -> [pc : PC, req : Req \cup {None},
                               worker : Worker \cup {None}, fd : Fd \cup {None}]]
    BY DEF IInv, Typed, TypeOK, ThreadOK
  <2>2. thread'[p] = [thread[p] EXCEPT !.pc = "send"]
    BY <1>1, <2>1
  <2>. QED BY <1>1, <1>2, <2>1, <2>2 DEF PC
<1>4. \A t \in Thread : thread'[t].req = thread[t].req
  BY <1>2, <1>3
<1>5. KernelOK' /\ SessionOK' /\ RequestOK' /\ ObjectOK'
  BY <1>1, <1>2 DEF IInv, Typed, TypeOK, KernelOK, SessionOK, RequestOK, ObjectOK
<1>6. ThreadOK'
  BY <1>1, <1>3 DEF IInv, Typed, TypeOK, ThreadOK
<1>7. Registry'
  BY <1>1, RegistryFrame DEF IInv, Typed, TypeOK, Registry
<1>8. Held' /\ Sessions'
  BY <1>1, <1>2, <1>3, Threads DEF IInv, Typed, Held, Sessions, Idle
<1>9. KnownRequests'
  BY <1>1, <1>2, <1>4 DEF IInv, Typed, KnownRequests, Sent
<1>10. OnTheWay'
  BY <1>1, <1>2 DEF IInv, Handover, OnTheWay, Sent
<1>11. AtProcessor'
  <2>. SUFFICES ASSUME NEW q \in Proc, thread'[q].pc # "idle"
                PROVE  /\ Unsent(q)' => /\ thread[q].req \notin pending'
                                        /\ ~Sent(thread[q].req)
                                        /\ thread["back"].req # thread[q].req
                       /\ thread'[q].pc = "send" =>
                            thread[q].req \in pending' /\ ~Sent(thread[q].req)
                       /\ thread'[q].pc = "del" => "sendfail" \in Kinds(thread[q].req)
    BY <1>1, <1>4, Threads DEF AtProcessor, Unsent, Sent, Kinds
  <2>1. CASE q = p
    BY <1>1, <1>2, <1>3, <2>1 DEF IInv, Handover, AtProcessor, Unsent
  <2>2. CASE q # p
    BY <1>1, <1>2, <1>3, <2>2, Threads DEF IInv, Handover, AtProcessor, Unsent
  <2>. QED BY <2>1, <2>2
<1>12. OneHandler'
  BY <1>1, <1>4, Threads DEF IInv, Handover, OneHandler
<1>13. ReplyFindsPending'
  BY <1>1 DEF IInv, Handover, ReplyFindsPending, Kinds
<1>14. NothingVanishes'
  BY <1>1, <1>4 DEF IInv, Handover, NothingVanishes
<1>. QED BY <1>5, <1>6, <1>7, <1>8, <1>9, <1>10, <1>11, <1>12, <1>13, <1>14
         DEF IInv, Typed, TypeOK, Registry, Handover

(* A request that could not be sent stops waiting, its failure reported.   *)
LEMMA DelAsynReqKeeps ==
  ASSUME IInv, NEW p \in Proc, DelAsynReq(p)
  PROVE  IInv'
<1>1. /\ p \in Thread /\ thread[p].pc = "del"
      /\ pending' = pending \ {thread[p].req}
      /\ thread' = [thread EXCEPT ![p] = Idle]
      /\ UNCHANGED <<sock, opened, gone, sessions, ids, queue, req, fds, workers, groups,
                     made, stats, holder, inbox, torn, answers>>
  BY Threads DEF DelAsynReq, Reqs!DelAsynReq, At, Rest, kernVars, sessVars, mgtVars,
     objVars, wireVars
<1>2. PICK r \in Req : /\ r = thread[p].req
                       /\ \A q \in Proc : q # p => thread[q].req # r
  BY <1>1, InHand
<1>3. "sendfail" \in Kinds(r) /\ answers[r] # << >>
  <2>1. "sendfail" \in Kinds(r)
    BY <1>1, <1>2 DEF IInv, Handover, AtProcessor
  <2>. QED BY <2>1 DEF Kinds
<1>4. /\ thread'[p] = Idle /\ \A t \in Thread : t # p => thread'[t] = thread[t]
      /\ \A t \in Thread : thread'[t].req \in {thread[t].req, None}
  BY <1>1 DEF IInv, Typed, TypeOK, ThreadOK, Idle
<1>5. KernelOK' /\ SessionOK' /\ RequestOK' /\ ObjectOK'
  BY <1>1 DEF IInv, Typed, TypeOK, KernelOK, SessionOK, RequestOK, ObjectOK
<1>6. ThreadOK'
  BY <1>1 DEF IInv, Typed, TypeOK, ThreadOK, PC, Idle
<1>7. Registry'
  BY <1>1, RegistryFrame DEF IInv, Typed, TypeOK, Registry
<1>8. Held' /\ Sessions'
  BY <1>1, <1>4, Threads DEF IInv, Typed, Held, Sessions, Idle
<1>9. KnownRequests'
  BY <1>1, <1>4, RouterAssumption DEF IInv, Typed, KnownRequests, Sent
<1>10. OnTheWay'
  BY <1>1 DEF IInv, Handover, OnTheWay, Sent
<1>11. AtProcessor'
  <2>. SUFFICES ASSUME NEW q \in Proc, q # p
                PROVE  /\ Unsent(q) => /\ thread[q].req \notin pending'
                                       /\ ~Sent(thread[q].req)
                                       /\ thread["back"].req # thread[q].req
                       /\ thread[q].pc = "send" =>
                            thread[q].req \in pending' /\ ~Sent(thread[q].req)
                       /\ thread[q].pc = "del" => "sendfail" \in Kinds(thread[q].req)
    BY <1>1, <1>4, Threads DEF AtProcessor, Unsent, Sent, Kinds, Idle
  <2>. QED BY <1>1, <1>2 DEF IInv, Handover, AtProcessor
<1>12. OneHandler'
  <2>1. \A q \in Range(queue) : \A t \in Thread : thread'[t].req # q
    <3>1. Range(queue) \subseteq Req
      BY DEF IInv, Typed, TypeOK, RequestOK, Range
    <3>. QED BY <1>4, <3>1, RouterAssumption DEF IInv, Handover, OneHandler
  <2>. QED BY <1>1, <1>4, <2>1, Threads DEF IInv, Handover, OneHandler, Idle
<1>13. ReplyFindsPending'
  BY <1>1, <1>2, <1>3 DEF IInv, Handover, ReplyFindsPending, Kinds
<1>14. NothingVanishes'
  <2>. SUFFICES ASSUME NEW q \in Req, req[q] # None, answers[q] = << >>,
                       q \notin Range(queue) \cup pending',
                       \A t \in Thread : thread'[t].req # q
                PROVE  req[q].session \notin ids
    BY <1>1 DEF NothingVanishes
  <2>1. q # r
    BY <1>3
  <2>2. q \notin pending /\ \A t \in Thread : thread[t].req # q
    BY <1>1, <1>2, <1>4, <2>1
  <2>. QED BY <2>1, <2>2 DEF IInv, Handover, NothingVanishes
<1>. QED BY <1>5, <1>6, <1>7, <1>8, <1>9, <1>10, <1>11, <1>12, <1>13, <1>14
         DEF IInv, Typed, TypeOK, Registry, Handover

-----------------------------------------------------------------------------
(* To the worker and back.                                                 *)

(* What a send leaves in the tables: the counts, the wire to the worker,   *)
(* and the thread on its way to where the outcome takes it.                *)
LEMMA SendFacts ==
  ASSUME IInv, NEW t \in Thread, NEW out \in {Success, BadFd} \cup Failure, Send(t, out)
  PROVE  /\ UNCHANGED <<sock, opened, gone, sessions, ids, queue, pending, req, fds, workers,
                        groups, made, answers>>
         /\ stats' \in [Object -> [failed : Nat, timeout : Nat]]
         /\ holder' \in [Object -> Thread \cup {None}]
         /\ torn' \in [WConn -> BOOLEAN]
         /\ \/ UNCHANGED inbox
            \/ /\ thread[t].pc = "send"
               /\ \E d \in WConn : inbox' = [inbox EXCEPT ![d] = @ \cup {thread[t].req}]
         /\ \/ thread' = [thread EXCEPT ![t].pc = "unregister"]
            \/ t \in Proc /\ thread' = [thread EXCEPT ![t].pc = "fail", ![t].worker = None]
            \/ thread' = [thread EXCEPT ![t] = Idle]
<1> DEFINE w == thread[t].worker
           st == Counted(stats[w.obj], out)
           d == sock[w.fd]
<1>1. UNCHANGED <<sock, opened, gone, sessions, ids, queue, pending, req, fds, workers,
                  groups, made, answers>>
  BY DEF Send, kernVars, sessVars, reqVars, mgtVars
<1>2. thread[t].pc \in {"send", "rsp"} /\ w \in Worker /\ w.obj \in Object
  <2>1. thread[t].pc \in {"send", "rsp"}
    BY DEF Send
  <2>2. w \in Worker
    BY <2>1 DEF IInv, Typed, Held
  <2>. QED BY <2>1, <2>2, WorkerFields
<1>3. st \in [failed : Nat, timeout : Nat]
  <2>1. out.ret \in {"ok", "timeout", "error"}
    BY RouterAssumption DEF Success, BadFd, FailureType
  <2>2. stats[w.obj] \in [failed : Nat, timeout : Nat]
    BY <1>2 DEF IInv, Typed, TypeOK, ObjectOK
  <2>. HIDE DEF w
  <2>3. \A s \in [failed : Nat, timeout : Nat] : Counted(s, out) \in [failed : Nat, timeout : Nat]
    BY <2>1 DEF Counted
  <2>. QED BY <2>2, <2>3
<1>4. stats' \in [Object -> [failed : Nat, timeout : Nat]]
  <2>1. stats' = [stats EXCEPT ![w.obj] = st]
    BY DEF Send
  <2>. HIDE DEF w, st
  <2>. QED BY <1>3, <2>1 DEF IInv, Typed, TypeOK, ObjectOK
<1>5. holder' \in [Object -> Thread \cup {None}]
  <2>1. holder' = [holder EXCEPT ![w.obj] = t] \/ UNCHANGED holder
    BY DEF Send
  <2>. HIDE DEF w
  <2>. QED BY <2>1 DEF IInv, Typed, TypeOK, ObjectOK
<1>6. Transmit(t, out)
  BY DEF Send
<1>7. /\ torn' \in [WConn -> BOOLEAN]
      /\ \/ UNCHANGED inbox
         \/ /\ thread[t].pc = "send"
            /\ \E c \in WConn : inbox' = [inbox EXCEPT ![c] = @ \cup {thread[t].req}]
  <2>1. CASE d \notin WConn
    BY <1>6, <2>1 DEF Transmit, wireVars, IInv, Typed, TypeOK, RequestOK
  <2>2. CASE d \in WConn
    <3> DEFINE whole == Complete(thread[t].pc, out)
               cut == ~whole /\ (torn[d] \/ out.sent # "nothing")
               arrives == whole /\ thread[t].pc = "send" /\ ~torn[d] /\ d \notin gone
    <3>1. /\ torn' = [torn EXCEPT ![d] = cut]
          /\ inbox' = [inbox EXCEPT ![d] = IF arrives THEN @ \cup {thread[t].req} ELSE @]
      BY <1>6, <2>2 DEF Transmit
    <3>2. cut \in BOOLEAN /\ (arrives => thread[t].pc = "send")
      OBVIOUS
    <3>. HIDE DEF cut, arrives, d, w
    <3>3. torn' \in [WConn -> BOOLEAN]
      BY <3>1, <3>2 DEF IInv, Typed, TypeOK, RequestOK
    <3>4. CASE arrives
      BY <2>2, <3>1, <3>2, <3>3, <3>4
    <3>5. CASE ~arrives
      <4>1. UNCHANGED inbox
        BY <3>1, <3>5 DEF IInv, Typed, TypeOK, RequestOK
      <4>. QED BY <3>3, <4>1
    <3>. QED BY <3>4, <3>5
  <2>. QED BY <2>1, <2>2
<1>8. \/ thread' = [thread EXCEPT ![t].pc = "unregister"]
      \/ t \in Proc /\ thread' = [thread EXCEPT ![t].pc = "fail", ![t].worker = None]
      \/ thread' = [thread EXCEPT ![t] = Idle]
  BY DEF Send, Goto, AfterSend, Rest
<1>. QED BY <1>1, <1>4, <1>5, <1>7, <1>8

(* A request that has arrived is among the waiting ones already; an answer *)
(* to a registration moves no request.                                     *)
LEMMA SendKeeps ==
  ASSUME IInv, NEW t \in Thread, NEW out \in {Success, BadFd} \cup Failure, Send(t, out)
  PROVE  IInv'
<1>1. /\ UNCHANGED <<sock, opened, gone, sessions, ids, queue, pending, req, fds, workers,
                     groups, made, answers>>
      /\ stats' \in [Object -> [failed : Nat, timeout : Nat]]
      /\ holder' \in [Object -> Thread \cup {None}]
      /\ torn' \in [WConn -> BOOLEAN]
  BY SendFacts
<1>2. \/ thread[t].pc = "send" /\ t \in Proc
      \/ thread[t].pc = "rsp" /\ t = "back" /\ thread[t].req = None
  BY DEF Send, IInv, Typed, Held, Thread
<1>3. thread[t].worker \in Worker
  BY <1>2 DEF IInv, Typed, Held
<1>4. /\ thread'[t] \in [pc : PC, req : Req \cup {None},
                         worker : Worker \cup {None}, fd : Fd \cup {None}]
      /\ \A u \in Thread : u # t => thread'[u] = thread[u]
      /\ thread' = [thread EXCEPT ![t] = thread'[t]]
      /\ \/ thread'[t] = Idle
         \/ /\ thread'[t].pc = "unregister" /\ thread'[t].worker \in Worker
            /\ thread'[t].req = thread[t].req
         \/ t \in Proc /\ thread'[t].pc = "fail" /\ thread'[t].req = thread[t].req
  <2>1. thread \in [Thread -> [pc : PC, req : Req \cup {None},
                               worker : Worker \cup {None}, fd : Fd \cup {None}]]
    BY DEF IInv, Typed, TypeOK, ThreadOK
  <2>2. CASE thread' = [thread EXCEPT ![t].pc = "unregister"]
    BY <1>3, <2>1, <2>2 DEF PC
  <2>3. CASE t \in Proc /\ thread' = [thread EXCEPT ![t].pc = "fail", ![t].worker = None]
    BY <2>1, <2>3 DEF PC
  <2>4. CASE thread' = [thread EXCEPT ![t] = Idle]
    BY <2>1, <2>4 DEF PC, Idle
  <2>. QED BY SendFacts, <2>2, <2>3, <2>4
<1>5. ThreadOK'
  BY <1>4 DEF IInv, Typed, TypeOK, ThreadOK
<1>6. /\ \A u \in Thread : thread'[u].req \in {thread[u].req, None}
      /\ thread'[t].pc \in {"idle", "unregister", "fail"}
  BY <1>4 DEF Idle
<1>7. KernelOK' /\ SessionOK' /\ ObjectOK'
  BY <1>1 DEF IInv, Typed, TypeOK, KernelOK, SessionOK, ObjectOK
<1>8. Registry'
  BY <1>1, RegistryFrame DEF IInv, Typed, TypeOK, Registry
<1>9. Held'
  BY <1>2, <1>4, Threads DEF IInv, Typed, Held, Idle
<1>10. Sessions'
  <2>1. thread'["front"] = thread["front"]
    BY <1>2, <1>4, Threads
  <2>. QED BY <1>1, <2>1 DEF IInv, Typed, Sessions
<1>11. CASE thread[t].pc = "rsp"
  <2>1. UNCHANGED inbox /\ \A u \in Thread : thread'[u].req = thread[u].req
    <3>1. UNCHANGED inbox
      BY <1>11, SendFacts
    <3>2. thread'[t].req = thread[t].req
      BY <1>2, <1>4, <1>11 DEF Idle
    <3>. QED BY <1>4, <3>1, <3>2
  <2>2. RequestOK'
    BY <1>1, <2>1 DEF IInv, Typed, TypeOK, RequestOK
  <2>3. KnownRequests'
    BY <1>1, <2>1, KnownFrame, RouterAssumption DEF IInv, Typed
  <2>4. \A p \in Proc : \/ thread'[p].pc = thread[p].pc
                        \/ thread'[p].pc \in {"unregister", "close", "fail", "idle"}
    BY <1>4, <1>6, Threads
  <2>5. Handover'
    BY <1>1, <2>1, <2>4, HandoverFrame DEF IInv, Typed
  <2>. QED BY <1>1, <1>5, <1>7, <1>8, <1>9, <1>10, <2>2, <2>3, <2>5
           DEF IInv, Typed, TypeOK, Registry
<1>12. CASE thread[t].pc = "send"
  <2>1. PICK r \in Req : /\ r = thread[t].req /\ req[r] # None /\ r \notin Range(queue)
                         /\ \A q \in Proc : q # t => thread[q].req # r
    BY <1>2, <1>12, InHand
  <2>2. r \in pending /\ ~Sent(r)
    BY <1>2, <1>12, <2>1 DEF IInv, Handover, AtProcessor
  <2>3. /\ inbox' \in [WConn -> SUBSET Req]
        /\ \A c, d \in WConn : r \in inbox'[c] /\ r \in inbox'[d] => c = d
        /\ \A c \in WConn : inbox'[c] \subseteq inbox[c] \cup {r}
    <3>1. inbox \in [WConn -> SUBSET Req] /\ \A c \in WConn : r \notin inbox[c]
      BY <2>2 DEF IInv, Typed, TypeOK, RequestOK, Sent
    <3>2. CASE UNCHANGED inbox
      BY <3>1, <3>2
    <3>3. ASSUME NEW e \in WConn, inbox' = [inbox EXCEPT ![e] = @ \cup {r}]
          PROVE  <2>3!:
      BY <3>1, <3>3
    <3>. QED BY SendFacts, <2>1, <3>2, <3>3
  <2>4. \A q \in Req : Sent(q)' => Sent(q) \/ q = r
    BY <2>3 DEF Sent
  <2>5. RequestOK'
    BY <1>1, <2>3 DEF IInv, Typed, TypeOK, RequestOK
  <2>6. KnownRequests'
    BY <1>1, <1>6, <2>1, <2>4, RouterAssumption DEF IInv, Typed, KnownRequests
  <2>7. OnTheWay'
    <3>1. \A q \in Range(queue) : q \in Req
      BY DEF IInv, Typed, TypeOK, RequestOK, Range
    <3>2. \A q \in Range(queue') : q \notin pending' /\ ~Sent(q)'
      BY <1>1, <2>1, <2>4, <3>1 DEF IInv, Handover, OnTheWay
    <3>3. \A c, d \in WConn : inbox'[c] \cap inbox'[d] # {} => c = d
      BY <2>3 DEF IInv, Handover, OnTheWay
    <3>. QED BY <3>2, <3>3 DEF OnTheWay, Sent
  <2>8. AtProcessor'
    <3>. SUFFICES ASSUME NEW q \in Proc, thread'[q].pc # "idle"
                  PROVE  /\ Unsent(q)' => /\ thread'[q].req \notin pending
                                          /\ ~(\E c \in WConn : thread'[q].req \in inbox'[c])
                                          /\ thread'["back"].req # thread'[q].req
                         /\ thread'[q].pc = "send" =>
                              /\ thread'[q].req \in pending
                              /\ ~(\E c \in WConn : thread'[q].req \in inbox'[c])
                         /\ thread'[q].pc = "del" => "sendfail" \in Kinds(thread'[q].req)
      BY <1>1 DEF AtProcessor, Unsent, Sent, Kinds
    <3>1. CASE q = t
      BY <1>6, <3>1 DEF Unsent
    <3>2. CASE q # t
      <4>1. thread'[q] = thread[q] /\ thread'["back"] = thread["back"] /\ thread[q].req # r
        BY <1>2, <1>4, <1>12, <2>1, <3>2, Threads
      <4>2. \A c \in WConn : thread[q].req \in inbox'[c] => Sent(thread[q].req)
        BY <2>3, <4>1 DEF Sent
      <4>. QED BY <4>1, <4>2 DEF IInv, Handover, AtProcessor, Unsent
    <3>. QED BY <3>1, <3>2
  <2>9. OneHandler'
    <3>1. \A q \in Range(queue) : q # None
      BY RouterAssumption DEF IInv, Typed, TypeOK, RequestOK, Range
    <3>2. \A p, q \in Proc : thread'[p].req = thread'[q].req /\ p # q => thread'[p].req = None
      BY <1>6, Threads DEF IInv, Handover, OneHandler
    <3>. QED BY <1>1, <1>6, <3>1, <3>2 DEF IInv, Handover, OneHandler
  <2>10. ReplyFindsPending'
    BY <1>1, <2>2, <2>3 DEF IInv, Handover, ReplyFindsPending, Kinds
  <2>11. NothingVanishes'
    <3>. SUFFICES ASSUME NEW q \in Req, req[q] # None, answers[q] = << >>,
                         q \notin Range(queue) \cup pending,
                         \A u \in Thread : thread'[u].req # q
                  PROVE  req[q].session \notin ids
      BY <1>1 DEF NothingVanishes
    <3>1. \A u \in Thread : thread[u].req # q
      BY <1>4, <2>1, <2>2
    <3>. QED BY <3>1 DEF IInv, Handover, NothingVanishes
  <2>. QED BY <1>1, <1>5, <1>7, <1>8, <1>9, <1>10, <2>5, <2>6, <2>7, <2>8, <2>9, <2>10, <2>11
           DEF IInv, Typed, TypeOK, Registry, Handover
<1>. QED BY <1>2, <1>11, <1>12

(* A worker's answer takes its request from the waiting ones, and with it  *)
(* the reactor, if the session is still there; or it comes too late.       *)
LEMMA RecvReplyKeeps ==
  ASSUME IInv, NEW f \in Fd, NEW r \in Req, RecvReply(f, r)
  PROVE  IInv'
<1> DEFINE c == sock[f]
<1>1. /\ thread["back"] = Idle /\ c \in WConn /\ r \in inbox[c]
      /\ inbox' = [inbox EXCEPT ![c] = @ \ {r}]
      /\ pending' = pending \ {r}
      /\ UNCHANGED <<sock, opened, gone, sessions, ids, queue, req, fds, workers, groups,
                     made, stats, holder, torn, answers>>
  <2>1. thread["back"] = Idle
    BY Threads DEF RecvReply, At, IInv, Typed, Held
  <2>. QED BY <2>1 DEF RecvReply, Reqs!GetAsynReq, kernVars, sessVars, mgtVars, objVars
<1>2. \/ /\ r \in pending
         /\ thread' = [thread EXCEPT !["back"] = [Idle EXCEPT !.pc = "forward", !.req = r]]
      \/ UNCHANGED thread /\ (r \in pending => req[r].session \notin ids)
  BY DEF RecvReply, Reqs!GetAsynReq, Sess!IsValidSession
<1>3. Sent(r) /\ req[r] # None /\ r \notin Range(queue)
  BY <1>1 DEF Sent, IInv, Typed, KnownRequests, Handover, OnTheWay
<1>4. /\ inbox' \in [WConn -> SUBSET Req]
      /\ \A d \in WConn : inbox'[d] \subseteq inbox[d] /\ r \notin inbox'[d]
  <2>1. inbox \in [WConn -> SUBSET Req]
    BY DEF IInv, Typed, TypeOK, RequestOK
  <2>2. \A d \in WConn : d # c => r \notin inbox[d]
    BY <1>1 DEF IInv, Handover, OnTheWay
  <2>. HIDE DEF c
  <2>. QED BY <1>1, <2>1, <2>2
<1>5. /\ \A t \in Thread : t # "back" => thread'[t] = thread[t]
      /\ \/ thread'["back"] = Idle /\ (r \in pending => req[r].session \notin ids)
         \/ thread'["back"].pc = "forward" /\ thread'["back"].req = r
      /\ thread["back"].req = None
  <2>1. thread["back"].req = None
    BY <1>1 DEF Idle
  <2>2. CASE UNCHANGED thread /\ (r \in pending => req[r].session \notin ids)
    BY <1>1, <2>1, <2>2
  <2>3. CASE thread' = [thread EXCEPT !["back"] = [Idle EXCEPT !.pc = "forward", !.req = r]]
    BY <2>1, <2>3, Threads DEF IInv, Typed, TypeOK, ThreadOK, Idle
  <2>. QED BY <1>2, <2>2, <2>3
<1>. HIDE DEF c
<1>6. KernelOK' /\ SessionOK' /\ RequestOK' /\ ObjectOK'
  BY <1>1, <1>4 DEF IInv, Typed, TypeOK, KernelOK, SessionOK, RequestOK, ObjectOK
<1>7. ThreadOK'
  BY <1>2 DEF IInv, Typed, TypeOK, ThreadOK, PC, Idle
<1>8. Registry'
  BY <1>1, RegistryFrame DEF IInv, Typed, TypeOK, Registry
<1>9. Held' /\ Sessions'
  BY <1>1, <1>5, Threads DEF IInv, Typed, Held, Sessions, Idle
<1>10. KnownRequests'
  <2>1. \A q \in Req : \A t \in Thread : thread'[t].req = q => thread[t].req = q \/ q = r
    BY <1>5, RouterAssumption DEF Idle
  <2>. QED BY <1>1, <1>3, <1>4, <2>1 DEF IInv, Typed, KnownRequests, Sent
<1>11. OnTheWay'
  BY <1>1, <1>4 DEF IInv, Handover, OnTheWay, Sent
<1>12. AtProcessor'
  <2>. SUFFICES ASSUME NEW p \in Proc, thread[p].pc # "idle"
                PROVE  /\ Unsent(p) => /\ thread[p].req \notin pending'
                                       /\ ~(\E d \in WConn : thread[p].req \in inbox'[d])
                                       /\ thread'["back"].req # thread[p].req
                       /\ thread[p].pc = "send" =>
                            /\ thread[p].req \in pending'
                            /\ ~(\E d \in WConn : thread[p].req \in inbox'[d])
                       /\ thread[p].pc = "del" => "sendfail" \in Kinds(thread[p].req)
    BY <1>1, <1>5, Threads DEF AtProcessor, Unsent, Sent, Kinds
  <2>1. /\ \A d \in WConn : thread[p].req \in inbox'[d] => Sent(thread[p].req)
        /\ thread[p].req # None
    BY <1>4, RouterAssumption DEF Sent, IInv, Typed, Held
  <2>2. Unsent(p) \/ thread[p].pc = "send" => thread[p].req # r
    BY <1>3 DEF IInv, Handover, AtProcessor
  <2>. QED BY <1>1, <1>5, <2>1, <2>2 DEF IInv, Handover, AtProcessor, Idle
<1>13. OneHandler'
  <2>1. \A q \in Range(queue) : q # None
    BY RouterAssumption DEF IInv, Typed, TypeOK, RequestOK, Range
  <2>2. \A q \in Range(queue) : \A t \in Thread : thread'[t].req # q
    BY <1>3, <1>5, <2>1 DEF IInv, Handover, OneHandler, Idle
  <2>. QED BY <1>1, <1>5, <2>2, Threads DEF IInv, Handover, OneHandler
<1>14. ReplyFindsPending'
  BY <1>1, <1>4 DEF IInv, Handover, ReplyFindsPending, Kinds
<1>15. NothingVanishes'
  <2>. SUFFICES ASSUME NEW q \in Req, req[q] # None, answers[q] = << >>,
                       q \notin Range(queue) \cup pending',
                       \A t \in Thread : thread'[t].req # q
                PROVE  req[q].session \notin ids
    BY <1>1 DEF NothingVanishes
  <2>1. \A t \in Thread : thread[t].req # q
    BY <1>5, RouterAssumption
  <2>2. CASE q \in pending
    <3>1. q = r
      BY <1>1, <2>2
    <3>. QED BY <1>5, <2>2, <3>1, Threads
  <2>3. CASE q \notin pending
    BY <2>1, <2>3 DEF IInv, Handover, NothingVanishes
  <2>. QED BY <2>2, <2>3
<1>. QED BY <1>6, <1>7, <1>8, <1>9, <1>10, <1>11, <1>12, <1>13, <1>14, <1>15
         DEF IInv, Typed, TypeOK, Registry, Handover

-----------------------------------------------------------------------------
(* The theorems.                                                           *)

(* It holds of a router that has just started.                             *)
LEMMA InitIInv == Init => IInv
<1>. SUFFICES ASSUME Init PROVE IInv
  OBVIOUS
<1>1. /\ sock = [f \in Fd |-> None] /\ opened = {} /\ gone = {}
      /\ sessions = << >> /\ ids = {} /\ queue = << >> /\ pending = {}
      /\ fds = << >> /\ workers = {} /\ groups = << >>
      /\ req = [r \in Req |-> None] /\ made = [c \in WConn |-> 0]
      /\ stats = [o \in Object |-> [failed |-> 0, timeout |-> 0]]
      /\ holder = [o \in Object |-> None]
      /\ inbox = [c \in WConn |-> {}] /\ torn = [c \in WConn |-> FALSE]
      /\ thread = [t \in Thread |-> Idle] /\ answers = [r \in Req |-> << >>]
  BY DEF Init, Sess!Init, Reqs!Init, Mgt!Init
<1>2. KernelOK /\ SessionOK
  BY <1>1 DEF KernelOK, SessionOK
<1>3. RequestOK
  BY <1>1 DEF RequestOK
<1>4. ObjectOK
  BY <1>1, RouterAssumption DEF ObjectOK
<1>5. ThreadOK
  BY <1>1 DEF ThreadOK, PC, Idle
<1>6. Registry
  BY <1>1 DEF Registry, Mgt!TypeOK, Mgt!Consistent, Mgt!IdentityUnique, Mgt!IdsAreTheRegistered,
     Mgt!EveryWorkerIsReachable, Mgt!GroupsHoldTheRegistered, Mgt!NoEmptyGroup
<1>7. Held
  BY <1>1, Threads DEF Held, Idle
<1>8. Sessions
  BY <1>1, RouterAssumption DEF Sessions, Conn
<1>9. Range(queue) = {} /\ IsInjective(queue)
  BY <1>1 DEF Range, IsInjective
<1>10. KnownRequests
  BY <1>1, <1>9, RouterAssumption DEF KnownRequests, Sent, Idle
<1>11. Handover
  <2>1. \A p \in Proc : thread[p].pc = "idle" /\ thread[p].req = None
    BY <1>1, Threads DEF Idle
  <2>. QED BY <1>1, <1>9, <2>1 DEF Handover, OnTheWay, AtProcessor, OneHandler,
           ReplyFindsPending, NothingVanishes, Unsent, Sent
<1>. QED BY <1>2, <1>3, <1>4, <1>5, <1>6, <1>7, <1>8, <1>10, <1>11
         DEF IInv, Typed, TypeOK, Registry

(* Every step keeps it.                                                    *)
LEMMA NextIInv == IInv /\ [Next]_vars => IInv'
<1>. SUFFICES ASSUME IInv, [Next]_vars PROVE IInv'
  OBVIOUS
<1>1. CASE Environment
  BY <1>1, PeerClosesKeeps, AcceptAppKeeps, ReadReqKeeps, AcceptWorkerKeeps,
     RecvRegisterKeeps, RecvUnregisterKeeps DEF Environment
<1>2. CASE \E p \in Proc : Process(p)
  BY <1>2, GetReqKeeps, RouteKeeps, RefuseKeeps, PushAsynReqKeeps, ReplySendFailKeeps,
     DelAsynReqKeeps DEF Process
<1>3. CASE \E t \in Thread : Finish(t)
  BY <1>3, CloseHungUpKeeps, SendKeeps, UnregisterDeadKeeps, CloseDeadKeeps DEF Finish
<1>4. CASE \E f \in Fd : FrontHangup(f) \/ BackHangup(f) \/ \E r \in Req : RecvReply(f, r)
  BY <1>4, FrontHangupKeeps, BackHangupKeeps, RecvReplyKeeps
<1>5. CASE ForwardReply
  BY <1>5, ForwardReplyKeeps
<1>6. CASE UNCHANGED vars
  <2>1. UNCHANGED <<sock, opened, gone, sessions, ids, queue, pending, req, fds, workers,
                    groups, made, stats, holder, inbox, torn, thread, answers>>
    BY <1>6 DEF vars, kernVars, sessVars, reqVars, mgtVars, objVars, wireVars
  <2>2. KernelOK' /\ SessionOK' /\ RequestOK' /\ ObjectOK' /\ ThreadOK'
    BY <2>1 DEF IInv, Typed, TypeOK, KernelOK, SessionOK, RequestOK, ObjectOK, ThreadOK
  <2>3. Registry'
    BY <2>1, RegistryFrame DEF IInv, Typed, TypeOK, Registry
  <2>4. Held' /\ Sessions'
    BY <2>1 DEF IInv, Typed, Held, Sessions, Idle
  <2>5. KnownRequests'
    BY <2>1, KnownFrame, RouterAssumption DEF IInv, Typed
  <2>6. Handover'
    BY <2>1, HandoverFrame DEF IInv
  <2>. QED BY <2>2, <2>3, <2>4, <2>5, <2>6 DEF IInv, Typed, TypeOK, Registry
<1>. QED BY <1>1, <1>2, <1>3, <1>4, <1>5, <1>6 DEF Next

(* It always holds.                                                        *)
LEMMA AlwaysIInv == Spec => []IInv
BY InitIInv, NextIInv, PTL DEF Spec

(* The router's variables keep their types, and its registry its           *)
(* agreement, whoever registers, unregisters and chooses at the same time. *)
THEOREM RouterTyped == Spec => [](TypeOK /\ Mgt!Consistent)
<1>1. IInv => TypeOK /\ Mgt!Consistent
  BY DEF IInv, Typed
<1>. QED BY <1>1, AlwaysIInv, PTL

(* Each request is worked on by one processor and never again by another,  *)
(* while it waits in the queue it is nowhere else.                         *)
THEOREM OneHandlerEach == Spec => []OneHandler
<1>1. IInv => OneHandler
  BY DEF IInv, Handover
<1>. QED BY <1>1, AlwaysIInv, PTL

(* A worker's answer finds its request among the waiting ones, unless the  *)
(* front end was told ERR_SEND_FAIL: for the sender inserts the request    *)
(* before it sends it, and no two workers get the same one.                *)
THEOREM RepliesFindPending == Spec => []ReplyFindsPending
<1>1. IInv => ReplyFindsPending
  BY DEF IInv, Handover
<1>. QED BY <1>1, AlwaysIInv, PTL

(* No request that was read vanishes between the threads before it is      *)
(* answered or its session ends.                                           *)
THEOREM NoneVanishes == Spec => []NothingVanishes
<1>1. IInv => NothingVanishes
  BY DEF IInv, Handover
<1>. QED BY <1>1, AlwaysIInv, PTL
=============================================================================
