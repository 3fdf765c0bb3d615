----------------------- MODULE RouterService_proofs -----------------------
(***************************************************************************)
(* What the router promises a front end, and what its tables say of its    *)
(* connections.  However many processors work on whatever requests,        *)
(* however sends fail and descriptors are reused: each step of the router  *)
(* is a step of RequestService, or none of its business.                   *)
(***************************************************************************)
EXTENDS Router_proofs

-----------------------------------------------------------------------------
(* The inductive invariant: where a request is tells what can have been    *)
(* sent back for it.                                                       *)

(* The processor p has not sent its request, or has sent it and failed.    *)
Waiting(p) == Unsent(p) \/ thread[p].pc = "send"
Losing(p)  == thread[p].pc \in {"unregister", "close", "fail"}

Unanswered(r)   == answers[r] = << >>
OnlySendFail(r) == Len(answers[r]) = 1 /\ answers[r][1].kind = "sendfail"

Promise ==
  /\ \A r \in Req : req[r] = None \/ r \in Range(queue) => Unanswered(r)
  /\ \A p \in Proc : Waiting(p) => Unanswered(thread[p].req)
  /\ \A p \in Proc : Losing(p) => "sendfail" \notin Kinds(thread[p].req)
  /\ \A r \in Req : r \in pending \/ thread["back"].req = r
                      => Unanswered(r) \/ OnlySendFail(r)
  /\ thread["back"].req \notin pending

(* The router as RequestService sees it.                                   *)
InDoubt(r) == \/ "sendfail" \in Kinds(r)
              \/ \E p \in Proc : thread[p].req = r /\ Losing(p)

Asks    == {r \in Req : req[r] # None}
Doubts  == {r \in Req : InDoubt(r)}
Outcomes == [r \in Req |-> [i \in DOMAIN answers[r] |-> answers[r][i].kind]]

-----------------------------------------------------------------------------
(* The steps of RequestService, said of the router.                        *)

LEMMA ServiceVars ==
  /\ Service!vars = <<Asks, Doubts, Outcomes>>
  /\ Service!vars' = <<Asks', Doubts', Outcomes'>>
BY DEF Service!vars, Asks, Doubts, Outcomes, InDoubt, Losing

Refusal == Kind \ {"sendfail", "reply"}

LEMMA ServiceSteps ==
  ASSUME NEW r \in Req,
         \/ r \notin Asks /\ Asks' = Asks \cup {r} /\ UNCHANGED <<Doubts, Outcomes>>
         \/ \E k \in Refusal :
              /\ r \notin Asks /\ Asks' = Asks \cup {r} /\ Doubts' = Doubts
              /\ Outcomes' = [Outcomes EXCEPT ![r] = Append(@, k)]
         \/ \E k \in Refusal :
              /\ r \in Asks \ Doubts /\ Outcomes[r] = << >>
              /\ Outcomes' = [Outcomes EXCEPT ![r] = Append(@, k)]
              /\ UNCHANGED <<Asks, Doubts>>
         \/ /\ r \in Asks \ Doubts /\ Outcomes[r] = << >>
            /\ Doubts' = Doubts \cup {r} /\ UNCHANGED <<Asks, Outcomes>>
         \/ /\ r \in Doubts /\ "sendfail" \notin Range(Outcomes[r])
            /\ Outcomes' = [Outcomes EXCEPT ![r] = Append(@, "sendfail")]
            /\ UNCHANGED <<Asks, Doubts>>
         \/ /\ r \in Asks
            /\ Outcomes[r] = << >> \/ (r \in Doubts /\ Outcomes[r] = <<"sendfail">>)
            /\ Outcomes' = [Outcomes EXCEPT ![r] = Append(@, "reply")]
            /\ UNCHANGED <<Asks, Doubts>>
  PROVE  Service!Next
BY DEF Service!Next, Service!Ask, Service!AskInVain, Service!Refuse, Service!LoseTrack,
   Service!SayFailed, Service!SayReply, Service!Give, Service!Range, Range,
   Asks, Doubts, Outcomes, InDoubt, Losing, Refusal

(* What was sent back for a request, as the front end hears it.            *)
AnswerRec == [kind : Kind, to : Conn \cup {None}]

LEMMA OutcomeFacts ==
  ASSUME IInv, NEW r \in Req
  PROVE  /\ answers[r] \in Seq(AnswerRec)
         /\ Unanswered(r) => Outcomes[r] = << >> /\ Kinds(r) = {}
         /\ OnlySendFail(r) => Outcomes[r] = <<"sendfail">> /\ "sendfail" \in Kinds(r)
         /\ Range(Outcomes[r]) = Kinds(r)
<1>1. answers[r] \in Seq(AnswerRec)
  BY DEF IInv, Typed, TypeOK, RequestOK, AnswerRec
<1>2. Outcomes[r] = [i \in DOMAIN answers[r] |-> answers[r][i].kind]
  BY DEF Outcomes
<1>3. Range(Outcomes[r]) = Kinds(r)
  BY <1>2 DEF Range, Kinds
<1>4. DOMAIN answers[r] = 1 .. Len(answers[r])
  BY <1>1
<1>5. ASSUME Unanswered(r) PROVE Outcomes[r] = << >> /\ Kinds(r) = {}
  <2>1. Len(answers[r]) = 0
    BY <1>5 DEF Unanswered
  <2>2. DOMAIN answers[r] = {}
    BY <1>4, <2>1
  <2>. QED BY <1>2, <2>2 DEF Kinds
<1>6. ASSUME OnlySendFail(r) PROVE Outcomes[r] = <<"sendfail">> /\ "sendfail" \in Kinds(r)
  <2>1. DOMAIN answers[r] = 1 .. 1 /\ answers[r][1].kind = "sendfail"
    BY <1>4, <1>6 DEF OnlySendFail
  <2>2. Outcomes[r] = [i \in 1 .. 1 |-> "sendfail"]
    BY <1>2, <2>1
  <2>. QED BY <2>1, <2>2 DEF Kinds
<1>. QED BY <1>1, <1>3, <1>5, <1>6

(* One answer more.                                                        *)
LEMMA AnswerGives ==
  ASSUME IInv, NEW r \in Req, NEW kind \in Kind, NEW to \in Conn \cup {None},
         answers' = [answers EXCEPT ![r] = Append(@, [kind |-> kind, to |-> to])]
  PROVE  /\ Outcomes' = [Outcomes EXCEPT ![r] = Append(@, kind)]
         /\ Kinds(r)' = Kinds(r) \cup {kind}
         /\ \A q \in Req \ {r} : answers'[q] = answers[q] /\ Kinds(q)' = Kinds(q)
         /\ Unanswered(r) => Len(answers'[r]) = 1 /\ answers'[r][1].kind = kind
<1>. DEFINE x == [kind |-> kind, to |-> to]
            s == answers[r]
<1>1. s \in Seq(AnswerRec) /\ x \in AnswerRec /\ x.kind = kind
  BY OutcomeFacts DEF AnswerRec
<1>2. /\ answers'[r] = Append(s, x)
      /\ \A q \in Req \ {r} : answers'[q] = answers[q]
  BY DEF IInv, Typed, TypeOK, RequestOK
<1>. HIDE DEF x
<1>3. /\ Len(s) \in Nat /\ DOMAIN s = 1 .. Len(s)
      /\ DOMAIN Append(s, x) = 1 .. (Len(s) + 1) /\ Len(Append(s, x)) = Len(s) + 1
      /\ \A i \in 1 .. Len(s) : Append(s, x)[i] = s[i]
      /\ Append(s, x)[Len(s) + 1] = x
  BY <1>1
<1>. HIDE DEF s
<1>4. Kinds(r)' = Kinds(r) \cup {kind}
  <2>1. Kinds(r) = {s[i].kind : i \in 1 .. Len(s)}
    BY <1>3 DEF Kinds, s
  <2>2. Kinds(r)' = {Append(s, x)[i].kind : i \in 1 .. (Len(s) + 1)}
    BY <1>2, <1>3 DEF Kinds
  <2>3. \A i \in 1 .. (Len(s) + 1) : i \in 1 .. Len(s) \/ i = Len(s) + 1
    BY <1>3
  <2>4. 1 .. Len(s) \subseteq 1 .. (Len(s) + 1) /\ Len(s) + 1 \in 1 .. (Len(s) + 1)
    BY <1>3
  <2>. QED BY <1>1, <1>3, <2>1, <2>2, <2>3, <2>4
<1>5. \A q \in Req \ {r} : Kinds(q)' = Kinds(q)
  BY <1>2 DEF Kinds
<1>6. Outcomes'[r] = Append(Outcomes[r], kind)
  <2>1. Outcomes[r] = [i \in 1 .. Len(s) |-> s[i].kind]
    BY <1>3 DEF Outcomes, s
  <2>2. Outcomes'[r] = [i \in 1 .. (Len(s) + 1) |-> Append(s, x)[i].kind]
    BY <1>2, <1>3 DEF Outcomes
  <2>3. \A i \in 1 .. Len(s) : s[i].kind \in Kind
    <3>1. \A i \in 1 .. Len(s) : s[i] \in AnswerRec
      BY <1>1
    <3>. QED BY <3>1 DEF AnswerRec
  <2>4. Outcomes[r] \in Seq(Kind) /\ Len(Outcomes[r]) = Len(s)
    BY <1>3, <2>1, <2>3
  <2>5. /\ DOMAIN Append(Outcomes[r], kind) = 1 .. (Len(s) + 1)
        /\ \A i \in 1 .. Len(s) : Append(Outcomes[r], kind)[i] = s[i].kind
        /\ Append(Outcomes[r], kind)[Len(s) + 1] = kind
        /\ Append(Outcomes[r], kind) \in Seq(Kind)
    BY <1>3, <2>1, <2>4
  <2>6. \A i \in 1 .. (Len(s) + 1) : Append(Outcomes[r], kind)[i] = Append(s, x)[i].kind
    <3>1. \A i \in 1 .. (Len(s) + 1) : i \in 1 .. Len(s) \/ i = Len(s) + 1
      BY <1>3
    <3>. QED BY <1>1, <1>3, <2>5, <3>1
  <2>7. Append(Outcomes[r], kind) = [i \in 1 .. (Len(s) + 1) |-> Append(Outcomes[r], kind)[i]]
    BY <2>5
  <2>. QED BY <2>2, <2>6, <2>7
<1>7. Outcomes' = [Outcomes EXCEPT ![r] = Append(@, kind)]
  <2>1. \A q \in Req \ {r} : Outcomes'[q] = Outcomes[q]
    BY <1>2 DEF Outcomes
  <2>2. /\ Outcomes' = [q \in Req |-> Outcomes'[q]]
        /\ DOMAIN Outcomes = Req
    BY DEF Outcomes
  <2>. QED BY <1>6, <2>1, <2>2
<1>8. Unanswered(r) => Len(answers'[r]) = 1 /\ answers'[r][1].kind = kind
  <2>. SUFFICES ASSUME Unanswered(r) PROVE Len(answers'[r]) = 1 /\ answers'[r][1].kind = kind
    OBVIOUS
  <2>1. Len(s) = 0
    BY DEF Unanswered, s
  <2>. QED BY <1>1, <1>2, <1>3, <2>1
<1>. QED BY <1>2, <1>4, <1>5, <1>7, <1>8

-----------------------------------------------------------------------------
(* Steps that are none of the front ends' business.                        *)

Stutters == UNCHANGED <<Asks, Doubts, Outcomes>>

(* Nothing is asked or answered, and no processor enters or leaves the     *)
(* part of its way after a failed send with its request.                   *)
LEMMA QuietStutters ==
  ASSUME UNCHANGED <<req, answers>>,
         \A p \in Proc : Losing(p)' <=> Losing(p),
         \A p \in Proc : Losing(p) => thread'[p].req = thread[p].req
  PROVE  Stutters
<1>1. UNCHANGED <<Asks, Outcomes>> /\ \A r \in Req : Kinds(r)' = Kinds(r)
  BY DEF Asks, Outcomes, Kinds
<1>2. \A r \in Req : InDoubt(r)' <=> InDoubt(r)
  BY <1>1 DEF InDoubt
<1>. QED BY <1>1, <1>2 DEF Doubts, Stutters

(* Requests may be taken out of the waiting ones and out of hands.         *)
LEMMA QuietKeeps ==
  ASSUME IInv, Promise, UNCHANGED <<req, answers, queue>>, pending' \subseteq pending,
         thread'["back"].req \in {thread["back"].req, None},
         \A p \in Proc : Waiting(p)' => Waiting(p) /\ thread'[p].req = thread[p].req,
         \A p \in Proc : Losing(p)' => Losing(p) /\ thread'[p].req = thread[p].req
  PROVE  Promise'
<1>1. None \notin Req /\ pending \subseteq Req
  BY RouterAssumption DEF IInv, Typed, TypeOK, RequestOK
<1>2. \A r : Unanswered(r)' = Unanswered(r) /\ OnlySendFail(r)' = OnlySendFail(r)
              /\ Kinds(r)' = Kinds(r)
  BY DEF Unanswered, OnlySendFail, Kinds
<1>3. \A p \in Proc : Waiting(p)' => \E r : r = thread'[p].req /\ Unanswered(r)'
  BY <1>2 DEF Promise
<1>4. \A p \in Proc : Losing(p)' => \E r : r = thread'[p].req /\ "sendfail" \notin Kinds(r)'
  BY <1>2 DEF Promise
<1>5. \A r \in Req : r \in pending' \/ thread'["back"].req = r
                      => Unanswered(r)' \/ OnlySendFail(r)'
  BY <1>1, <1>2 DEF Promise
<1>6. \A r \in Req : req'[r] = None \/ r \in Range(queue') => Unanswered(r)'
  BY <1>2 DEF Promise
<1>7. thread'["back"].req \notin pending'
  BY <1>1 DEF Promise
<1>. QED BY <1>3, <1>4, <1>5, <1>6, <1>7 DEF Promise, Unanswered, Kinds

(* The peers, the connections and the registry.                            *)
LEMMA PortsQuiet ==
  ASSUME IInv, Promise,
         \/ \E c \in Conn : PeerCloses(c)
         \/ \E f \in Fd : \/ \E a \in App : AcceptApp(a, f)
                          \/ \E c \in WConn : AcceptWorker(c, f)
                          \/ RecvRegister(f) \/ RecvUnregister(f)
                          \/ FrontHangup(f) \/ BackHangup(f)
         \/ \E t \in Thread : CloseHungUp(t)
  PROVE  Promise' /\ Stutters
<1>1. UNCHANGED <<req, answers, queue, pending>>
  BY DEF PeerCloses, AcceptApp, AcceptWorker, RecvRegister, RecvUnregister, FrontHangup,
         BackHangup, CloseHungUp, reqVars
<1>2. \/ UNCHANGED thread
      \/ \E t \in {"front", "back"} : \E new :
           thread' = [thread EXCEPT ![t] = new] /\ new.req = None
  <2>1. Idle.req = None
    BY DEF Idle
  <2>2. ASSUME NEW pc, NEW x
        PROVE  /\ [Idle EXCEPT !.pc = pc, !.fd = x].req = None
               /\ [Idle EXCEPT !.pc = pc, !.worker = x].req = None
    BY DEF Idle
  <2>3. ASSUME NEW c, PeerCloses(c) PROVE UNCHANGED thread
    BY <2>3 DEF PeerCloses
  <2>4. ASSUME NEW f, NEW c, AcceptApp(c, f) \/ AcceptWorker(c, f) \/ RecvUnregister(f)
        PROVE  UNCHANGED thread
    BY <2>4 DEF AcceptApp, AcceptWorker, RecvUnregister
  <2>5. ASSUME NEW f, RecvRegister(f)
        PROVE  \E new : thread' = [thread EXCEPT !["back"] = new] /\ new.req = None
    <3>1. PICK w : thread' = [thread EXCEPT !["back"] = [Idle EXCEPT !.pc = "rsp", !.worker = w]]
      BY <2>5 DEF RecvRegister
    <3>2. [Idle EXCEPT !.pc = "rsp", !.worker = w].req = None
      BY DEF Idle
    <3>. QED BY <3>1, <3>2
  <2>6. ASSUME NEW f, FrontHangup(f)
        PROVE  \E new : thread' = [thread EXCEPT !["front"] = new] /\ new.req = None
    BY <2>2, <2>6 DEF FrontHangup
  <2>7. ASSUME NEW f, BackHangup(f)
        PROVE  \E new : thread' = [thread EXCEPT !["back"] = new] /\ new.req = None
    BY <2>2, <2>7 DEF BackHangup
  <2>8. ASSUME NEW t, CloseHungUp(t)
        PROVE  t \in {"front", "back"} /\ thread' = [thread EXCEPT ![t] = Idle]
    BY <2>8 DEF CloseHungUp, Rest
  <2>. QED BY <2>1, <2>3, <2>4, <2>5, <2>6, <2>7, <2>8
<1>3. /\ \A p \in Proc : thread'[p] = thread[p]
      /\ thread'["back"].req \in {thread["back"].req, None}
  BY <1>2, Threads DEF IInv, Typed, TypeOK, ThreadOK
<1>4. \A p \in Proc : (Losing(p)' <=> Losing(p)) /\ (Waiting(p)' <=> Waiting(p))
  BY <1>3 DEF Losing, Waiting, Unsent
<1>. QED BY <1>1, <1>3, <1>4, QuietKeeps, QuietStutters

(* A thread on its own way, where no answer is due.                        *)
LEMMA OneThreadQuiet ==
  ASSUME IInv, Promise, NEW t \in Thread, UNCHANGED <<req, answers, queue>>,
         pending' \subseteq pending,
         \A u \in Thread : u # t => thread'[u] = thread[u],
         t \in Proc => /\ Waiting(t)' => Waiting(t)
                       /\ Losing(t)' <=> Losing(t)
                       /\ Waiting(t)' \/ Losing(t)' => thread'[t].req = thread[t].req,
         t = "back" => thread'[t].req \in {thread[t].req, None}
  PROVE  Promise' /\ Stutters
<1>1. thread'["back"].req \in {thread["back"].req, None}
  BY Threads
<1>2. ASSUME NEW p \in Proc
      PROVE  /\ Waiting(p)' => Waiting(p) /\ thread'[p].req = thread[p].req
             /\ Losing(p)' <=> Losing(p)
             /\ Losing(p) => thread'[p].req = thread[p].req
  <2>1. CASE p = t
    BY <2>1 DEF Losing, Waiting, Unsent
  <2>2. CASE p # t
    <3>1. thread'[p] = thread[p]
      BY <2>2, Threads
    <3>. QED BY <3>1 DEF Losing, Waiting, Unsent
  <2>. QED BY <2>1, <2>2
<1>. QED BY <1>1, <1>2, QuietKeeps, QuietStutters

Serves == Service!Next \/ Stutters

(* What a thread is.                                                       *)
ThreadRec == [pc : PC, req : Req \cup {None}, worker : Worker \cup {None}, fd : Fd \cup {None}]

LEMMA ThreadTyped == ASSUME IInv PROVE thread \in [Thread -> ThreadRec]
BY DEF IInv, Typed, TypeOK, ThreadOK, ThreadRec

(* A change of one thread's place, with or without its worker.             *)
LEMMA Moves ==
  ASSUME IInv, NEW t \in Thread, NEW pc, NEW w,
         \/ thread' = [thread EXCEPT ![t].pc = pc]
         \/ thread' = [thread EXCEPT ![t].pc = pc, ![t].worker = w]
  PROVE  /\ \A u \in Thread : u # t => thread'[u] = thread[u]
         /\ thread'[t].pc = pc /\ thread'[t].req = thread[t].req
<1>1. thread \in [Thread -> ThreadRec]
  BY ThreadTyped
<1>2. CASE thread' = [thread EXCEPT ![t].pc = pc]
  BY <1>1, <1>2 DEF ThreadRec
<1>3. CASE thread' = [thread EXCEPT ![t].pc = pc, ![t].worker = w]
  BY <1>1, <1>3 DEF ThreadRec
<1>. QED BY <1>2, <1>3

LEMMA Rests ==
  ASSUME IInv, NEW t \in Thread, thread' = [thread EXCEPT ![t] = Idle]
  PROVE  /\ \A u \in Thread : u # t => thread'[u] = thread[u]
         /\ thread'[t] = Idle /\ thread'[t].pc = "idle" /\ thread'[t].req = None
BY ThreadTyped DEF Idle

(* A processor chooses a worker, or finds that it has to refuse.           *)
LEMMA RouteServes ==
  ASSUME IInv, Promise, NEW p \in Proc, Route(p) PROVE Promise' /\ Serves
<1>1. p \in Thread /\ thread[p].pc = "route" /\ UNCHANGED <<req, answers, queue, pending>>
  BY Threads DEF Route, At, reqVars
<1>2. \/ \E pc \in {"invalid", "noworker"} : thread' = [thread EXCEPT ![p].pc = pc]
      \/ \E w : thread' = [thread EXCEPT ![p].pc = "push", ![p].worker = w]
  BY DEF Route, Goto
<1>3. /\ \A u \in Thread : u # p => thread'[u] = thread[u]
      /\ thread'[p].pc \in {"invalid", "noworker", "push"} /\ thread'[p].req = thread[p].req
  BY <1>1, <1>2, Moves
<1>4. Waiting(p) /\ ~Losing(p) /\ ~Losing(p)'
  BY <1>1, <1>3 DEF Waiting, Unsent, Losing
<1>. QED BY <1>1, <1>3, <1>4, Threads, OneThreadQuiet DEF Serves

(* After ERR_SEND_FAIL, the waiting ones forget the request.               *)
LEMMA DelAsynReqServes ==
  ASSUME IInv, Promise, NEW p \in Proc, DelAsynReq(p) PROVE Promise' /\ Serves
<1>1. /\ p \in Thread /\ thread[p].pc = "del" /\ UNCHANGED <<req, answers, queue>>
      /\ pending' \subseteq pending /\ thread' = [thread EXCEPT ![p] = Idle]
  BY Threads DEF DelAsynReq, Reqs!DelAsynReq, At, Rest
<1>2. /\ \A u \in Thread : u # p => thread'[u] = thread[u]
      /\ thread'[p].pc = "idle"
  BY <1>1, Rests
<1>3. ~Waiting(p)' /\ ~Losing(p) /\ ~Losing(p)'
  BY <1>1, <1>2 DEF Waiting, Unsent, Losing
<1>. QED BY <1>1, <1>2, <1>3, Threads, OneThreadQuiet DEF Serves

(* A Worker object at its limit is unregistered and its descriptor closed: *)
(* the processor's request stays one whose sending failed.                 *)
LEMMA LimitServes ==
  ASSUME IInv, Promise, NEW t \in Thread, UnregisterDead(t) \/ CloseDead(t)
  PROVE  Promise' /\ Serves
<1>1. /\ thread[t].pc \in {"unregister", "close"} /\ UNCHANGED <<req, answers, queue, pending>>
      /\ \/ thread' = [thread EXCEPT ![t].pc = "close"]
         \/ t \in Proc /\ thread' = [thread EXCEPT ![t].pc = "fail", ![t].worker = None]
         \/ t \notin Proc /\ thread' = [thread EXCEPT ![t] = Idle]
  BY DEF UnregisterDead, CloseDead, At, Goto, AfterSend, Rest, reqVars
<1>2. /\ \A u \in Thread : u # t => thread'[u] = thread[u]
      /\ \/ thread'[t].pc \in {"close", "fail"} /\ thread'[t].req = thread[t].req
         \/ t \notin Proc /\ thread'[t].req = None
  <2>1. CASE thread' = [thread EXCEPT ![t].pc = "close"]
    BY <2>1, Moves
  <2>2. CASE t \in Proc /\ thread' = [thread EXCEPT ![t].pc = "fail", ![t].worker = None]
    BY <2>2, Moves
  <2>3. CASE t \notin Proc /\ thread' = [thread EXCEPT ![t] = Idle]
    BY <2>3, Rests
  <2>. QED BY <1>1, <2>1, <2>2, <2>3
<1>3. t \in Proc => Losing(t) /\ Losing(t)' /\ ~Waiting(t)'
  BY <1>1, <1>2 DEF Waiting, Unsent, Losing
<1>. QED BY <1>1, <1>2, <1>3, OneThreadQuiet DEF Serves

(* A send: if it fails for a processor, the request has been given no      *)
(* answer so far and becomes one in doubt; nobody hears of it yet.         *)
LEMMA SendServes ==
  ASSUME IInv, Promise, NEW t \in Thread, NEW out \in {Success, BadFd} \cup Failure, Send(t, out)
  PROVE  Promise' /\ Serves
<1>1. /\ UNCHANGED <<req, answers, queue, pending>>
      /\ \/ thread' = [thread EXCEPT ![t].pc = "unregister"]
         \/ t \in Proc /\ thread' = [thread EXCEPT ![t].pc = "fail", ![t].worker = None]
         \/ thread' = [thread EXCEPT ![t] = Idle]
  BY SendFacts
<1>2. thread[t].pc \in {"send", "rsp"}
  BY DEF Send
<1>3. /\ \A u \in Thread : u # t => thread'[u] = thread[u]
      /\ \/ /\ thread'[t].pc = "unregister" \/ (t \in Proc /\ thread'[t].pc = "fail")
            /\ thread'[t].req = thread[t].req
         \/ thread'[t].pc = "idle" /\ thread'[t].req = None
  <2>1. CASE thread' = [thread EXCEPT ![t].pc = "unregister"]
    BY <2>1, Moves
  <2>2. CASE t \in Proc /\ thread' = [thread EXCEPT ![t].pc = "fail", ![t].worker = None]
    BY <2>2, Moves
  <2>3. CASE thread' = [thread EXCEPT ![t] = Idle]
    BY <2>3, Rests
  <2>. QED BY <1>1, <2>1, <2>2, <2>3
<1>4. CASE t \notin Proc \/ thread'[t].pc = "idle"
  <2>1. t \in Proc => ~Waiting(t)' /\ ~Losing(t) /\ ~Losing(t)'
    BY <1>2, <1>4 DEF Waiting, Unsent, Losing
  <2>. QED BY <1>1, <1>3, <2>1, OneThreadQuiet DEF Serves
<1>5. CASE t \in Proc /\ thread'[t].pc # "idle"
  <2>. DEFINE r == thread[t].req
  <2>1. /\ Waiting(t) /\ ~Losing(t) /\ Losing(t)' /\ ~Waiting(t)' /\ thread'[t].req = r
    BY <1>2, <1>3, <1>5 DEF Waiting, Unsent, Losing, IInv, Typed, Held
  <2>2. /\ r \in Req /\ req[r] # None /\ \A q \in Proc : q # t => thread[q].req # r
    BY <1>2, <1>5, InHand
  <2>3. Unanswered(r) /\ Outcomes[r] = << >> /\ Kinds(r) = {}
    <3>1. Unanswered(r)
      BY <1>5, <2>1 DEF Promise
    <3>. QED BY <2>2, <3>1, OutcomeFacts
  <2>. HIDE DEF r
  <2>4. \A q : Unanswered(q)' = Unanswered(q) /\ OnlySendFail(q)' = OnlySendFail(q)
               /\ Kinds(q)' = Kinds(q)
    BY <1>1 DEF Unanswered, OnlySendFail, Kinds
  <2>5. \A q \in Proc : q # t => /\ thread'[q] = thread[q]
                                 /\ Losing(q)' = Losing(q) /\ Waiting(q)' = Waiting(q)
    BY <1>3, Threads DEF Losing, Waiting, Unsent
  <2>6. thread'["back"] = thread["back"]
    BY <1>3, <1>5, Threads
  <2>7. Promise'
    <3>1. \A q \in Proc : Waiting(q)' => \E x : x = thread'[q].req /\ Unanswered(x)'
      BY <2>1, <2>4, <2>5 DEF Promise
    <3>2. \A q \in Proc : Losing(q)' => \E x : x = thread'[q].req /\ "sendfail" \notin Kinds(x)'
      BY <2>1, <2>3, <2>4, <2>5 DEF Promise
    <3>3. \A x \in Req : /\ (x \in pending \/ thread'["back"].req = x
                              => Unanswered(x)' \/ OnlySendFail(x)')
                         /\ (req[x] = None \/ x \in Range(queue) => Unanswered(x)')
      BY <2>4, <2>6 DEF Promise
    <3>. QED BY <1>1, <2>6, <3>1, <3>2, <3>3 DEF Promise, Unanswered, Kinds
  <2>8. r \in Asks \ Doubts
    BY <2>1, <2>2, <2>3, <1>5 DEF Asks, Doubts, InDoubt
  <2>9. UNCHANGED <<Asks, Outcomes>>
    BY <1>1 DEF Asks, Outcomes
  <2>10. Doubts' = Doubts \cup {r}
    <3>1. \A x \in Req : InDoubt(x)' <=> InDoubt(x) \/ x = r
      BY <1>5, <2>1, <2>4, <2>5 DEF InDoubt
    <3>. QED BY <2>2, <3>1 DEF Doubts
  <2>11. Service!Next
    BY <2>2, <2>3, <2>8, <2>9, <2>10, ServiceSteps
  <2>. QED BY <2>7, <2>11 DEF Serves
<1>. QED BY <1>4, <1>5

-----------------------------------------------------------------------------
(* Steps that answer a request or take it on.                              *)

(* An answer for r: what waits for its answer still has none, and what a   *)
(* worker may yet answer has been given ERR_SEND_FAIL at most.             *)
LEMMA AnswerKeeps ==
  ASSUME IInv, Promise, NEW r \in Req, NEW kind \in Kind, NEW to \in Conn \cup {None},
         answers' = [answers EXCEPT ![r] = Append(@, [kind |-> kind, to |-> to])],
         UNCHANGED <<queue, pending>>,
         req'[r] # None, r \notin Range(queue),
         \A q \in Req : req'[q] = None => req[q] = None,
         thread'["back"].req \in {thread["back"].req, None},
         r \in pending \/ thread'["back"].req = r => Unanswered(r) /\ kind = "sendfail",
         \A p \in Proc : Waiting(p)' => /\ Waiting(p) /\ thread[p].req # r
                                        /\ thread'[p].req = thread[p].req,
         \A p \in Proc : Losing(p)' => Losing(p) /\ thread'[p].req = thread[p].req,
         kind = "sendfail" => \A p \in Proc : Losing(p)' => thread[p].req # r
  PROVE  Promise'
<1>1. None \notin Req
  BY RouterAssumption
<1>2. /\ Kinds(r)' = Kinds(r) \cup {kind}
      /\ \A q \in Req \ {r} : answers'[q] = answers[q] /\ Kinds(q)' = Kinds(q)
      /\ Unanswered(r) => Len(answers'[r]) = 1 /\ answers'[r][1].kind = kind
  BY AnswerGives
<1>3. \A q \in Req \ {r} : /\ Unanswered(q)' <=> Unanswered(q)
                           /\ OnlySendFail(q)' <=> OnlySendFail(q)
  BY <1>2 DEF Unanswered, OnlySendFail
<1>4. \A p \in Proc : Waiting(p) \/ Losing(p) => thread[p].req \in Req
  BY DEF Waiting, Losing, Unsent, IInv, Typed, Held
<1>5. \A p \in Proc : Waiting(p)' => \E q : q = thread'[p].req /\ Unanswered(q)'
  BY <1>3, <1>4 DEF Promise
<1>6. \A p \in Proc : Losing(p)' => \E q : q = thread'[p].req /\ "sendfail" \notin Kinds(q)'
  <2>. SUFFICES ASSUME NEW p \in Proc, Losing(p)'
                PROVE  \E q : q = thread'[p].req /\ "sendfail" \notin Kinds(q)'
    OBVIOUS
  <2>1. /\ thread[p].req \in Req /\ thread'[p].req = thread[p].req
        /\ "sendfail" \notin Kinds(thread[p].req)
    BY <1>4 DEF Promise
  <2>2. CASE thread[p].req = r
    BY <1>2, <2>1, <2>2
  <2>3. CASE thread[p].req # r
    BY <1>2, <2>1, <2>3
  <2>. QED BY <2>2, <2>3
<1>7. \A q \in Req : q \in pending \/ thread'["back"].req = q => Unanswered(q)' \/ OnlySendFail(q)'
  <2>. SUFFICES ASSUME NEW q \in Req, q \in pending \/ thread'["back"].req = q
                PROVE  Unanswered(q)' \/ OnlySendFail(q)'
    OBVIOUS
  <2>1. CASE q = r
    BY <1>2, <2>1 DEF OnlySendFail
  <2>2. CASE q # r
    BY <1>1, <1>3, <2>2 DEF Promise
  <2>. QED BY <2>1, <2>2
<1>8. \A q \in Req : req'[q] = None \/ q \in Range(queue) => Unanswered(q)'
  BY <1>3 DEF Promise
<1>9. thread'["back"].req \notin pending
  <2>1. None \notin pending
    BY <1>1 DEF IInv, Typed, TypeOK, RequestOK
  <2>. QED BY <2>1 DEF Promise
<1>. QED BY <1>5, <1>6, <1>7, <1>8, <1>9 DEF Promise, Unanswered, Kinds

(* A request is read: it was not asked before, so nothing was sent back    *)
(* for it and nobody has it.                                               *)
LEMMA ReadReqServes ==
  ASSUME IInv, Promise, NEW f \in Fd, NEW r \in Req, NEW g \in Content, ReadReq(f, r, g)
  PROVE  Promise' /\ Serves
<1>1. /\ req[r] = None /\ UNCHANGED <<pending, thread>> /\ sock[f] \in Conn \cup {None}
      /\ \E new : req' = [req EXCEPT ![r] = new] /\ new # None
  <2>. DEFINE new == [fd |-> f, session |-> Sess!SessionOf(f), content |-> g, from |-> sock[f]]
  <2>1. /\ sock[f] \in App /\ req[r] = None /\ UNCHANGED <<pending, thread>>
        /\ req' = [req EXCEPT ![r] = new]
    BY DEF ReadReq, Reqs!PushReq
  <2>2. thread["front"].fd # f
    BY Threads, RouterAssumption DEF ReadReq, At, IInv, Typed, Held, Idle
  <2>3. f \in DOMAIN sessions /\ sessions[f] \in App
    BY <2>1, <2>2 DEF IInv, Typed, Sessions, TypeOK, SessionOK
  <2>4. new \in Request
    BY <2>1, <2>3 DEF Sess!SessionOf, Request
  <2>5. new # None
    BY <2>4, RouterAssumption
  <2>. QED BY <2>1, <2>5 DEF Conn
<1>2. \/ queue' = Append(queue, r) /\ UNCHANGED answers
      \/ /\ UNCHANGED queue
         /\ \E kind \in Refusal :
              answers' = [answers EXCEPT ![r] = Append(@, [kind |-> kind, to |-> sock[f]])]
  <2>1. TooLong \in Refusal /\ "full" \in Refusal
    BY DEF Kind, Refusal, TooLong
  <2>. QED BY <2>1 DEF ReadReq, Reqs!PushReq
<1>3. /\ r \notin Range(queue) /\ r \notin pending
      /\ \A t \in Thread : thread[t].req # r
  BY <1>1 DEF IInv, Typed, KnownRequests
<1>4. req'[r] # None /\ \A q \in Req \ {r} : req'[q] = req[q]
  BY <1>1 DEF IInv, Typed, TypeOK, RequestOK
<1>5. r \notin Asks /\ Asks' = Asks \cup {r}
  BY <1>1, <1>4 DEF Asks
<1>6. Unanswered(r)
  BY <1>1 DEF Promise
<1>7. \A p \in Proc : /\ thread[p].req # r
                      /\ (Waiting(p)' <=> Waiting(p)) /\ (Losing(p)' <=> Losing(p))
  BY <1>1, <1>3, Threads DEF Waiting, Losing, Unsent
<1>8. CASE queue' = Append(queue, r) /\ UNCHANGED answers
  <2>1. Range(queue') = Range(queue) \cup {r}
    BY <1>8, AppendFacts DEF IInv, Typed, TypeOK, RequestOK
  <2>2. \A q : Unanswered(q)' = Unanswered(q) /\ OnlySendFail(q)' = OnlySendFail(q)
               /\ Kinds(q)' = Kinds(q)
    BY <1>8 DEF Unanswered, OnlySendFail, Kinds
  <2>3. Promise'
    <3>1. \A q \in Req : /\ req'[q] = None \/ q \in Range(queue') => Unanswered(q)'
                         /\ q \in pending' \/ thread'["back"].req = q
                              => Unanswered(q)' \/ OnlySendFail(q)'
      BY <1>1, <1>4, <1>6, <2>1, <2>2 DEF Promise
    <3>2. \A p \in Proc : /\ Waiting(p)' => \E q : q = thread'[p].req /\ Unanswered(q)'
                          /\ Losing(p)' => \E q : q = thread'[p].req /\ "sendfail" \notin Kinds(q)'
      BY <1>1, <1>7, <2>2 DEF Promise
    <3>3. thread'["back"].req \notin pending'
      BY <1>1 DEF Promise
    <3>. QED BY <3>1, <3>2, <3>3 DEF Promise, Unanswered, Kinds
  <2>4. UNCHANGED <<Doubts, Outcomes>>
    <3>1. \A q \in Req : InDoubt(q)' <=> InDoubt(q)
      BY <1>1, <1>7, <2>2 DEF InDoubt
    <3>. QED BY <1>8, <3>1 DEF Doubts, Outcomes
  <2>. QED BY <1>5, <2>3, <2>4, ServiceSteps DEF Serves
<1>9. ASSUME UNCHANGED queue, NEW kind \in Refusal,
             answers' = [answers EXCEPT ![r] = Append(@, [kind |-> kind, to |-> sock[f]])]
      PROVE  Promise' /\ Serves
  <2>1. kind \in Kind /\ kind # "sendfail"
    BY DEF Refusal
  <2>2. Promise'
    BY <1>1, <1>3, <1>4, <1>7, <1>9, <2>1, Threads, AnswerKeeps
  <2>3. /\ Outcomes' = [Outcomes EXCEPT ![r] = Append(@, kind)]
        /\ \A q \in Req : "sendfail" \in Kinds(q)' <=> "sendfail" \in Kinds(q)
    <3>1. /\ Outcomes' = [Outcomes EXCEPT ![r] = Append(@, kind)]
          /\ Kinds(r)' = Kinds(r) \cup {kind}
          /\ \A q \in Req \ {r} : Kinds(q)' = Kinds(q)
      BY <1>1, <1>9, <2>1, AnswerGives
    <3>2. ASSUME NEW q \in Req PROVE "sendfail" \in Kinds(q)' <=> "sendfail" \in Kinds(q)
      BY <2>1, <3>1
    <3>. QED BY <3>1, <3>2
  <2>4. Doubts' = Doubts
    <3>1. \A q \in Req : InDoubt(q)' <=> InDoubt(q)
      BY <1>1, <1>7, <2>3 DEF InDoubt
    <3>. QED BY <3>1 DEF Doubts
  <2>. QED BY <1>5, <2>2, <2>3, <2>4, ServiceSteps DEF Serves
<1>. QED BY <1>2, <1>8, <1>9

(* The request at the front of the queue goes to a processor: unanswered,  *)
(* like every one in the queue.                                            *)
LEMMA GetReqServes ==
  ASSUME IInv, Promise, NEW p \in Proc, NEW r \in Req, GetReq(p, r)
  PROVE  Promise' /\ Serves
<1>1. /\ p \in Thread /\ thread[p].pc = "idle"
      /\ queue # << >> /\ r = Head(queue) /\ queue' = Tail(queue)
      /\ thread' = [thread EXCEPT ![p] = [Idle EXCEPT !.pc = "route", !.req = r]]
      /\ UNCHANGED <<pending, req, answers>>
  BY Threads DEF GetReq, At, Reqs!GetReq
<1>2. Range(queue) = Range(queue') \cup {r}
  BY <1>1, TailFacts DEF IInv, Typed, TypeOK, RequestOK
<1>3. /\ thread'[p].pc = "route" /\ thread'[p].req = r
      /\ \A t \in Thread : t # p => thread'[t] = thread[t]
  BY <1>1 DEF IInv, Typed, TypeOK, ThreadOK, Idle
<1>4. Unanswered(r)
  BY <1>2 DEF Promise
<1>5. \A q : Unanswered(q)' = Unanswered(q) /\ OnlySendFail(q)' = OnlySendFail(q)
             /\ Kinds(q)' = Kinds(q)
  BY <1>1 DEF Unanswered, OnlySendFail, Kinds
<1>6. /\ ~Losing(p) /\ ~Losing(p)'
      /\ \A q \in Proc : q # p => /\ thread'[q] = thread[q]
                                  /\ Waiting(q)' = Waiting(q) /\ Losing(q)' = Losing(q)
      /\ thread'["back"] = thread["back"]
  BY <1>1, <1>3, Threads DEF Waiting, Losing, Unsent
<1>7. Promise'
  <2>1. \A q \in Proc : /\ Waiting(q)' => \E x : x = thread'[q].req /\ Unanswered(x)'
                        /\ Losing(q)' => \E x : x = thread'[q].req /\ "sendfail" \notin Kinds(x)'
    BY <1>3, <1>4, <1>5, <1>6 DEF Promise
  <2>2. \A x \in Req : /\ req'[x] = None \/ x \in Range(queue') => Unanswered(x)'
                       /\ x \in pending' \/ thread'["back"].req = x
                            => Unanswered(x)' \/ OnlySendFail(x)'
    BY <1>1, <1>2, <1>5, <1>6 DEF Promise
  <2>3. thread'["back"].req \notin pending'
    <3>1. thread["back"].req \notin pending
      BY DEF Promise
    <3>2. thread'["back"] = thread["back"] /\ pending' = pending
      BY <1>1, <1>3, Threads
    <3>. QED BY <3>1, <3>2
  <2>. QED BY <2>1, <2>2, <2>3 DEF Promise, Unanswered, Kinds
<1>8. Stutters
  <2>1. \A q \in Proc : /\ Losing(q)' <=> Losing(q)
                        /\ Losing(q) => thread'[q].req = thread[q].req
    BY <1>6
  <2>. QED BY <1>1, <2>1, QuietStutters
<1>. QED BY <1>7, <1>8 DEF Serves

(* A request is refused: nothing was sent back for it, and neither is it   *)
(* among the waiting ones nor with the reactor.                            *)
LEMMA RefuseServes ==
  ASSUME IInv, Promise, NEW p \in Proc, Refuse(p)
  PROVE  Promise' /\ Serves
<1>1. /\ p \in Thread /\ thread[p].pc \in {"invalid", "noworker"}
      /\ thread' = [thread EXCEPT ![p] = Idle]
      /\ UNCHANGED <<queue, pending, req>>
  BY Threads DEF Refuse, Rest, reqVars
<1>2. PICK r \in Req : /\ r = thread[p].req /\ req[r] # None /\ r \notin Range(queue)
                       /\ sock[req[r].fd] \in Conn \cup {None}
                       /\ \A q \in Proc : q # p => thread[q].req # r
  BY <1>1, InHand
<1>3. PICK kind \in Refusal :
        answers' = [answers EXCEPT ![r] = Append(@, [kind |-> kind, to |-> sock[req[r].fd]])]
  BY <1>1, <1>2 DEF Refuse, Answer, Refusal, Kind, Invalid, TooLong
<1>4. kind \in Kind /\ kind # "sendfail"
  BY DEF Refusal
<1>5. Waiting(p) /\ Unsent(p) /\ ~Losing(p)
  BY <1>1 DEF Waiting, Unsent, Losing
<1>6. Unanswered(r) /\ Kinds(r) = {} /\ Outcomes[r] = << >>
  <2>1. Unanswered(r)
    BY <1>2, <1>5 DEF Promise
  <2>. QED BY <2>1, OutcomeFacts
<1>7. r \notin pending /\ thread["back"].req # r /\ r # None
  BY <1>2, <1>5, RouterAssumption DEF IInv, Handover, AtProcessor
<1>8. /\ thread'[p].pc = "idle" /\ thread'[p].req = None
      /\ \A t \in Thread : t # p => thread'[t] = thread[t]
  BY <1>1, Rests
<1>9. /\ ~Waiting(p)' /\ ~Losing(p)'
      /\ thread'["back"] = thread["back"]
      /\ \A q \in Proc : q # p => /\ thread'[q] = thread[q]
                                  /\ Waiting(q)' = Waiting(q) /\ Losing(q)' = Losing(q)
  BY <1>8, Threads DEF Waiting, Losing, Unsent
<1>10. Promise'
  <2>1. \A q \in Proc : Waiting(q)' => Waiting(q) /\ thread[q].req # r /\ thread'[q].req = thread[q].req
    BY <1>2, <1>9
  <2>2. \A q \in Proc : Losing(q)' => Losing(q) /\ thread[q].req # r /\ thread'[q].req = thread[q].req
    BY <1>2, <1>9
  <2>3. ~(r \in pending \/ thread'["back"].req = r)
    BY <1>7, <1>9
  <2>4. /\ UNCHANGED <<queue, pending>> /\ req'[r] # None
        /\ \A q \in Req : req'[q] = None => req[q] = None
        /\ thread'["back"].req \in {thread["back"].req, None}
    BY <1>1, <1>2, <1>9
  <2>. QED BY <1>2, <1>3, <1>4, <2>1, <2>2, <2>3, <2>4, AnswerKeeps
<1>11. /\ Outcomes' = [Outcomes EXCEPT ![r] = Append(@, kind)]
       /\ Kinds(r)' = Kinds(r) \cup {kind}
       /\ \A q \in Req \ {r} : Kinds(q)' = Kinds(q)
  BY <1>2, <1>3, <1>4, AnswerGives
<1>12. Doubts' = Doubts
  <2>1. ASSUME NEW q \in Req PROVE "sendfail" \in Kinds(q)' <=> "sendfail" \in Kinds(q)
    BY <1>4, <1>11
  <2>2. \A q \in Req : InDoubt(q)' <=> InDoubt(q)
    BY <1>5, <1>9, <2>1 DEF InDoubt
  <2>. QED BY <2>2 DEF Doubts
<1>13. r \in Asks \ Doubts /\ Asks' = Asks
  BY <1>1, <1>2, <1>5, <1>6 DEF Asks, Doubts, InDoubt
<1>. QED BY <1>6, <1>10, <1>11, <1>12, <1>13, ServiceSteps DEF Serves

(* The request joins the waiting ones, unanswered, and it is not the one   *)
(* the reactor has.                                                        *)
LEMMA PushAsynReqServes ==
  ASSUME IInv, Promise, NEW p \in Proc, PushAsynReq(p)
  PROVE  Promise' /\ Serves
<1>1. /\ p \in Thread /\ thread[p].pc = "push"
      /\ pending' = pending \cup {thread[p].req}
      /\ thread' = [thread EXCEPT ![p].pc = "send"]
      /\ UNCHANGED <<queue, req, answers>>
  BY Threads DEF PushAsynReq, Reqs!PushAsynReq, At, Goto
<1>2. Waiting(p) /\ Unsent(p) /\ ~Losing(p)
  BY <1>1 DEF Waiting, Unsent, Losing
<1>3. PICK r \in Req : r = thread[p].req /\ thread["back"].req # r
  BY <1>1, <1>2, InHand DEF IInv, Handover, AtProcessor
<1>4. Unanswered(r)
  BY <1>2, <1>3 DEF Promise
<1>5. /\ thread'[p].pc = "send" /\ thread'[p].req = r
      /\ \A t \in Thread : t # p => thread'[t] = thread[t]
  BY <1>1, <1>3, Moves
<1>6. /\ Waiting(p)' /\ ~Losing(p)'
      /\ thread'["back"] = thread["back"]
      /\ \A q \in Proc : q # p => /\ thread'[q] = thread[q]
                                  /\ Waiting(q)' = Waiting(q) /\ Losing(q)' = Losing(q)
  BY <1>5, Threads DEF Waiting, Losing, Unsent
<1>7. \A q : Unanswered(q)' = Unanswered(q) /\ OnlySendFail(q)' = OnlySendFail(q)
             /\ Kinds(q)' = Kinds(q)
  BY <1>1 DEF Unanswered, OnlySendFail, Kinds
<1>8. Promise'
  <2>1. \A q \in Proc : /\ Waiting(q)' => \E x : x = thread'[q].req /\ Unanswered(x)'
                        /\ Losing(q)' => \E x : x = thread'[q].req /\ "sendfail" \notin Kinds(x)'
    BY <1>4, <1>5, <1>6, <1>7 DEF Promise
  <2>2. \A x \in Req : /\ req'[x] = None \/ x \in Range(queue') => Unanswered(x)'
                       /\ x \in pending' \/ thread'["back"].req = x
                            => Unanswered(x)' \/ OnlySendFail(x)'
    BY <1>1, <1>3, <1>4, <1>6, <1>7 DEF Promise
  <2>3. thread'["back"].req \notin pending'
    BY <1>1, <1>3, <1>6 DEF Promise
  <2>. QED BY <2>1, <2>2, <2>3 DEF Promise, Unanswered, Kinds
<1>9. Stutters
  <2>1. \A q \in Proc : /\ Losing(q)' <=> Losing(q)
                        /\ Losing(q) => thread'[q].req = thread[q].req
    BY <1>2, <1>6
  <2>. QED BY <1>1, <2>1, QuietStutters
<1>. QED BY <1>8, <1>9 DEF Serves

(* ERR_SEND_FAIL: the request was in doubt already, and this answer was    *)
(* not given for it before.                                                *)
LEMMA ReplySendFailServes ==
  ASSUME IInv, Promise, NEW p \in Proc, ReplySendFail(p)
  PROVE  Promise' /\ Serves
<1>1. /\ p \in Thread /\ thread[p].pc = "fail"
      /\ thread' = [thread EXCEPT ![p].pc = "del"]
      /\ UNCHANGED <<queue, pending, req>>
  BY Threads DEF ReplySendFail, At, Goto, reqVars
<1>2. PICK r \in Req : /\ r = thread[p].req /\ req[r] # None /\ r \notin Range(queue)
                       /\ sock[req[r].fd] \in Conn \cup {None}
                       /\ \A q \in Proc : q # p => thread[q].req # r
  BY <1>1, InHand
<1>3. /\ "sendfail" \in Kind
      /\ answers' = [answers EXCEPT ![r] =
                       Append(@, [kind |-> "sendfail", to |-> sock[req[r].fd]])]
  BY <1>2 DEF ReplySendFail, Answer, Kind
<1>4. ~Waiting(p) /\ Losing(p)
  BY <1>1 DEF Waiting, Unsent, Losing
<1>5. "sendfail" \notin Kinds(r)
  BY <1>2, <1>4 DEF Promise
<1>6. /\ thread'[p].pc = "del" /\ thread'[p].req = r
      /\ \A t \in Thread : t # p => thread'[t] = thread[t]
  BY <1>1, <1>2, Moves
<1>7. /\ ~Waiting(p)' /\ ~Losing(p)'
      /\ thread'["back"] = thread["back"]
      /\ \A q \in Proc : q # p => /\ thread'[q] = thread[q]
                                  /\ Waiting(q)' = Waiting(q) /\ Losing(q)' = Losing(q)
  BY <1>6, Threads DEF Waiting, Losing, Unsent
<1>8. Promise'
  <2>1. \A q \in Proc : Waiting(q)' => Waiting(q) /\ thread[q].req # r /\ thread'[q].req = thread[q].req
    BY <1>2, <1>7
  <2>2. \A q \in Proc : Losing(q)' => Losing(q) /\ thread[q].req # r /\ thread'[q].req = thread[q].req
    BY <1>2, <1>7
  <2>3. r \in pending \/ thread["back"].req = r => Unanswered(r)
    <3>1. OnlySendFail(r) => "sendfail" \in Kinds(r)
      BY OutcomeFacts
    <3>. QED BY <1>5, <3>1 DEF Promise
  <2>4. /\ UNCHANGED <<queue, pending>> /\ req'[r] # None
        /\ \A q \in Req : req'[q] = None => req[q] = None
        /\ thread'["back"].req \in {thread["back"].req, None}
        /\ r \in pending \/ thread'["back"].req = r => Unanswered(r)
    BY <1>1, <1>2, <1>7, <2>3
  <2>. QED BY <1>2, <1>3, <2>1, <2>2, <2>4, AnswerKeeps
<1>9. /\ Outcomes' = [Outcomes EXCEPT ![r] = Append(@, "sendfail")]
      /\ Kinds(r)' = Kinds(r) \cup {"sendfail"}
      /\ \A q \in Req \ {r} : Kinds(q)' = Kinds(q)
  BY <1>2, <1>3, AnswerGives
<1>10. r \in Asks /\ Asks' = Asks /\ r \in Doubts /\ "sendfail" \notin Range(Outcomes[r])
  BY <1>1, <1>2, <1>4, <1>5, OutcomeFacts DEF Asks, Doubts, InDoubt
<1>11. Doubts' = Doubts
  <2>1. InDoubt(r)'
    BY <1>9 DEF InDoubt
  <2>2. ASSUME NEW q \in Req, q # r PROVE InDoubt(q)' <=> InDoubt(q)
    BY <1>2, <1>7, <1>9, <2>2 DEF InDoubt
  <2>. QED BY <1>10, <2>1, <2>2 DEF Doubts
<1>. QED BY <1>8, <1>9, <1>10, <1>11, ServiceSteps DEF Serves

(* A worker's answer takes its request from the waiting ones to the        *)
(* reactor, or nowhere: what may have been sent back stays the same.       *)
LEMMA RecvReplyServes ==
  ASSUME IInv, Promise, NEW f \in Fd, NEW r \in Req, RecvReply(f, r)
  PROVE  Promise' /\ Serves
<1>1. /\ thread["back"] = Idle /\ pending' = pending \ {r}
      /\ UNCHANGED <<req, answers, queue>>
      /\ \/ /\ r \in pending
            /\ thread' = [thread EXCEPT !["back"] = [Idle EXCEPT !.pc = "forward", !.req = r]]
         \/ UNCHANGED thread
  <2>1. thread["back"] = Idle
    BY Threads DEF RecvReply, At, IInv, Typed, Held
  <2>. QED BY <2>1 DEF RecvReply, Reqs!GetAsynReq
<1>2. CASE UNCHANGED thread
  <2>1. \A p \in Proc : (Waiting(p)' <=> Waiting(p)) /\ (Losing(p)' <=> Losing(p))
    BY <1>2 DEF Waiting, Losing, Unsent
  <2>. QED BY <1>1, <1>2, <2>1, QuietKeeps, QuietStutters DEF Serves
<1>3. CASE /\ r \in pending
           /\ thread' = [thread EXCEPT !["back"] = [Idle EXCEPT !.pc = "forward", !.req = r]]
  <2>1. /\ thread'["back"].req = r
        /\ \A p \in Proc : /\ thread'[p] = thread[p]
                           /\ Waiting(p)' = Waiting(p) /\ Losing(p)' = Losing(p)
    <3>1. /\ thread'["back"] = [Idle EXCEPT !.pc = "forward", !.req = r]
          /\ \A p \in Proc : thread'[p] = thread[p]
      BY <1>3, Threads DEF IInv, Typed, TypeOK, ThreadOK
    <3>. QED BY <3>1 DEF Idle, Waiting, Losing, Unsent
  <2>2. \A q : Unanswered(q)' = Unanswered(q) /\ OnlySendFail(q)' = OnlySendFail(q)
               /\ Kinds(q)' = Kinds(q)
    BY <1>1 DEF Unanswered, OnlySendFail, Kinds
  <2>3. Promise'
    <3>1. \A q \in Proc : /\ Waiting(q)' => \E x : x = thread'[q].req /\ Unanswered(x)'
                          /\ Losing(q)' => \E x : x = thread'[q].req /\ "sendfail" \notin Kinds(x)'
      BY <2>1, <2>2 DEF Promise
    <3>2. \A x \in Req : /\ req'[x] = None \/ x \in Range(queue') => Unanswered(x)'
                         /\ x \in pending' \/ thread'["back"].req = x
                              => Unanswered(x)' \/ OnlySendFail(x)'
      BY <1>1, <1>3, <2>1, <2>2 DEF Promise
    <3>3. thread'["back"].req \notin pending'
      BY <1>1, <2>1
    <3>. QED BY <3>1, <3>2, <3>3 DEF Promise, Unanswered, Kinds
  <2>4. Stutters
    BY <1>1, <2>1, QuietStutters
  <2>. QED BY <2>3, <2>4 DEF Serves
<1>. QED BY <1>1, <1>2, <1>3

(* A worker's answer is forwarded: the first answer, or the second one     *)
(* after ERR_SEND_FAIL.                                                    *)
LEMMA ForwardReplyServes ==
  ASSUME IInv, Promise, ForwardReply
  PROVE  Promise' /\ Serves
<1>1. /\ "back" \in Thread /\ thread["back"].pc = "forward"
      /\ thread' = [thread EXCEPT !["back"] = Idle]
      /\ UNCHANGED <<queue, pending, req>>
  BY Threads DEF ForwardReply, At, Rest, reqVars
<1>2. PICK r \in Req : /\ r = thread["back"].req /\ req[r] # None /\ r \notin Range(queue)
                       /\ sock[req[r].fd] \in Conn \cup {None}
  BY <1>1, InHand
<1>3. PICK kind \in Kind :
        /\ kind = "reply"
        /\ answers' = [answers EXCEPT ![r] = Append(@, [kind |-> kind, to |-> sock[req[r].fd]])]
  BY <1>2 DEF ForwardReply, Answer, Kind
<1>4. r \notin pending /\ r # None /\ (Unanswered(r) \/ OnlySendFail(r))
  BY <1>2, RouterAssumption DEF Promise
<1>5. \A p \in Proc : Waiting(p) => thread[p].req # r
  <2>. SUFFICES ASSUME NEW p \in Proc, Waiting(p) PROVE thread[p].req # r
    OBVIOUS
  <2>1. CASE Unsent(p)
    BY <1>2, <2>1 DEF IInv, Handover, AtProcessor
  <2>2. CASE thread[p].pc = "send"
    BY <1>4, <2>2 DEF IInv, Handover, AtProcessor
  <2>. QED BY <2>1, <2>2 DEF Waiting
<1>6. /\ thread'["back"].req = None
      /\ \A p \in Proc : /\ thread'[p] = thread[p]
                         /\ Waiting(p)' = Waiting(p) /\ Losing(p)' = Losing(p)
  <2>1. thread'["back"].req = None /\ \A p \in Proc : thread'[p] = thread[p]
    BY <1>1, Rests, Threads
  <2>. QED BY <2>1 DEF Waiting, Losing, Unsent
<1>7. Promise'
  <2>1. PICK to \in Conn \cup {None} :
          answers' = [answers EXCEPT ![r] = Append(@, [kind |-> kind, to |-> to])]
    BY <1>2, <1>3
  <2>2. \A p \in Proc : /\ Waiting(p)' => /\ Waiting(p) /\ thread[p].req # r
                                         /\ thread'[p].req = thread[p].req
                        /\ Losing(p)' => Losing(p) /\ thread'[p].req = thread[p].req
    BY <1>5, <1>6
  <2>3. /\ UNCHANGED <<queue, pending>> /\ req'[r] # None /\ r \notin Range(queue)
        /\ \A q \in Req : req'[q] = None => req[q] = None
        /\ thread'["back"].req \in {thread["back"].req, None}
    BY <1>1, <1>2, <1>6
  <2>4. /\ r \in pending \/ thread'["back"].req = r => Unanswered(r) /\ kind = "sendfail"
        /\ kind = "sendfail" => \A p \in Proc : Losing(p)' => thread[p].req # r
    BY <1>3, <1>4, <1>6
  <2>. QED BY <2>1, <2>2, <2>3, <2>4, AnswerKeeps
<1>8. /\ kind = "reply" /\ Outcomes' = [Outcomes EXCEPT ![r] = Append(@, "reply")]
      /\ Kinds(r)' = Kinds(r) \cup {"reply"}
      /\ \A q \in Req \ {r} : Kinds(q)' = Kinds(q)
  BY <1>2, <1>3, AnswerGives
<1>9. Doubts' = Doubts
  <2>1. ASSUME NEW q \in Req PROVE "sendfail" \in Kinds(q)' <=> "sendfail" \in Kinds(q)
    BY <1>8
  <2>2. \A q \in Req : InDoubt(q)' <=> InDoubt(q)
    BY <1>6, <2>1 DEF InDoubt
  <2>. QED BY <2>2 DEF Doubts
<1>10. /\ r \in Asks /\ Asks' = Asks
       /\ Outcomes[r] = << >> \/ (r \in Doubts /\ Outcomes[r] = <<"sendfail">>)
  BY <1>1, <1>2, <1>4, OutcomeFacts DEF Asks, Doubts, InDoubt
<1>. QED BY <1>7, <1>8, <1>9, <1>10, ServiceSteps DEF Serves

-----------------------------------------------------------------------------
(* The theorem.                                                            *)

LEMMA InitPromise == Init => Promise /\ Service!Init
<1>. SUFFICES ASSUME Init PROVE Promise /\ Service!Init
  OBVIOUS
<1>1. /\ queue = << >> /\ pending = {} /\ req = [r \in Req |-> None]
      /\ thread = [t \in Thread |-> Idle] /\ answers = [r \in Req |-> << >>]
  BY DEF Init, Reqs!Init
<1>2. \A p \in Proc : thread[p].pc = "idle" /\ ~Waiting(p) /\ ~Losing(p)
  BY <1>1, Threads DEF Idle, Waiting, Losing, Unsent
<1>3. Promise
  BY <1>1, <1>2, Threads, RouterAssumption DEF Promise, Unanswered, Idle
<1>4. \A r \in Req : Kinds(r) = {} /\ Outcomes[r] = << >>
  <2>. SUFFICES ASSUME NEW r \in Req PROVE Kinds(r) = {} /\ Outcomes[r] = << >>
    OBVIOUS
  <2>1. answers[r] = << >> /\ DOMAIN answers[r] = {}
    BY <1>1
  <2>. QED BY <2>1 DEF Kinds, Outcomes
<1>5. Asks = {} /\ Doubts = {} /\ Outcomes = [r \in Req |-> << >>]
  BY <1>1, <1>2, <1>4 DEF Asks, Doubts, InDoubt, Outcomes
<1>. QED BY <1>3, <1>5 DEF Service!Init, Asks, Doubts, InDoubt, Outcomes, Losing

LEMMA NextPromise == IInv /\ Promise /\ [Next]_vars => Promise' /\ Serves
<1>. SUFFICES ASSUME IInv, Promise, [Next]_vars PROVE Promise' /\ Serves
  OBVIOUS
<1>1. CASE Environment
  BY <1>1, PortsQuiet, ReadReqServes DEF Environment, Serves
<1>2. CASE \E p \in Proc : Process(p)
  BY <1>2, GetReqServes, RouteServes, RefuseServes, PushAsynReqServes, ReplySendFailServes,
     DelAsynReqServes DEF Process
<1>3. CASE \E t \in Thread : Finish(t)
  <2>. SUFFICES ASSUME NEW t \in Thread, Finish(t) PROVE Promise' /\ Serves
    BY <1>3
  <2>1. CASE CloseHungUp(t)
    BY <2>1, PortsQuiet DEF Serves
  <2>2. CASE \E out \in {Success, BadFd} \cup Failure : Send(t, out)
    BY <2>2, SendServes
  <2>3. CASE UnregisterDead(t) \/ CloseDead(t)
    BY <2>3, LimitServes
  <2>. QED BY <2>1, <2>2, <2>3 DEF Finish
<1>4. CASE \E f \in Fd : FrontHangup(f) \/ BackHangup(f) \/ \E r \in Req : RecvReply(f, r)
  BY <1>4, PortsQuiet, RecvReplyServes DEF Serves
<1>5. CASE ForwardReply
  BY <1>5, ForwardReplyServes
<1>6. CASE UNCHANGED vars
  <2>1. UNCHANGED <<req, answers, queue, pending, thread>>
    BY <1>6 DEF vars, reqVars
  <2>2. \A p \in Proc : (Waiting(p)' <=> Waiting(p)) /\ (Losing(p)' <=> Losing(p))
    BY <2>1 DEF Waiting, Losing, Unsent
  <2>. QED BY <2>1, <2>2, QuietKeeps, QuietStutters DEF Serves
<1>. QED BY <1>1, <1>2, <1>3, <1>4, <1>5, <1>6 DEF Next

(* The router, of however many threads, queues and descriptors, implements *)
(* RequestService: a request is answered once; only one whose sending      *)
(* failed may get two answers, ERR_SEND_FAIL and the worker's.             *)
THEOREM KeepsItsPromise == Spec => ImplementsService
<1>1. Init => IInv /\ Promise /\ Service!Init
  BY InitIInv, InitPromise
<1>2. IInv /\ Promise /\ [Next]_vars => IInv' /\ Promise' /\ [Service!Next]_(Service!vars)
  <2>1. Serves => Service!Next \/ UNCHANGED Service!vars
    BY ServiceVars DEF Serves, Stutters
  <2>. QED BY <2>1, NextIInv, NextPromise
<1>. QED BY <1>1, <1>2, PTL DEF Spec, ImplementsService, Service!Spec

-----------------------------------------------------------------------------
(* The tables and the descriptors, as long as only the reactors close      *)
(* connections.                                                            *)

(* No Worker object at its limit closes the descriptor it holds.           *)
NoneCloses        == \A t \in Thread : ~CloseDead(t)
OnlyReactorsClose == [][NoneCloses]_vars

(* A connection has one descriptor, and the tables name the connection     *)
(* that a descriptor denotes.                                              *)
Sockets ==
  /\ \A f, g \in Fd : sock[f] = sock[g] /\ sock[f] # None => f = g
  /\ \A f \in Fd : sock[f] # None => sock[f] \in opened
  /\ \A f \in DOMAIN fds : sock[f] = fds[f].obj[1]
  /\ \A f \in DOMAIN sessions : sessions[f] = sock[f]
  /\ ids = Range(sessions)

(* What a reactor is about to close is what it took from its table.        *)
Closing ==
  /\ thread["front"].pc = "hangup" =>
       LET f == thread["front"].fd IN f \in Fd /\ sock[f] \in App /\ f \notin DOMAIN sessions
  /\ thread["back"].pc = "hangup" =>
       LET f == thread["back"].fd IN f \in Fd /\ sock[f] \in WConn /\ f \notin DOMAIN fds

(* A request carries the session of its asker, and that has ended when the *)
(* descriptor is not the asker's any more.                                 *)
Askers ==
  \A r \in Req : req[r] # None =>
    /\ req[r].session = req[r].from
    /\ sock[req[r].fd] = req[r].from \/ req[r].session \notin ids

Follows == Sockets /\ Closing /\ Askers

(* Nothing is accepted or closed, no session begins or ends; workers may   *)
(* be unregistered, reactors may be done.                                  *)
LEMMA FollowsFrame ==
  ASSUME Follows, UNCHANGED <<sock, opened, sessions, ids, req>>,
         DOMAIN fds' \subseteq DOMAIN fds,
         \A f \in DOMAIN fds' : fds'[f] = fds[f],
         \A t \in {"front", "back"} : thread'[t].pc = "hangup" => thread'[t] = thread[t]
  PROVE  Follows'
<1>1. Sockets'
  BY DEF Follows, Sockets
<1>2. Closing'
  BY DEF Follows, Closing
<1>3. Askers'
  BY DEF Follows, Askers
<1>. QED BY <1>1, <1>2, <1>3 DEF Follows

(* A worker is unregistered: one descriptor less in the registry, or none. *)
LEMMA UnregisterForgets ==
  ASSUME NEW f, Mgt!UnregisterWorker(f)
  PROVE  /\ DOMAIN fds' \subseteq DOMAIN fds /\ f \notin DOMAIN fds'
         /\ \A g \in DOMAIN fds' : fds'[g] = fds[g]
BY DEF Mgt!UnregisterWorker, Mgt!vars, Mgt!Erase

(* A descriptor that denotes nothing is in no table.                       *)
LEMMA InNoTable ==
  ASSUME IInv, Follows, NEW f \in Fd, sock[f] = None
  PROVE  f \notin DOMAIN sessions /\ f \notin DOMAIN fds
<1>1. /\ sessions \in [DOMAIN sessions -> App] /\ fds \in [DOMAIN fds -> Worker]
      /\ None \notin App /\ None \notin WConn
  BY RouterAssumption DEF IInv, Typed, TypeOK, SessionOK, Mgt!TypeOK, Conn
<1>2. f \notin DOMAIN sessions
  BY <1>1 DEF Follows, Sockets
<1>3. ASSUME f \in DOMAIN fds PROVE FALSE
  <2>1. fds[f].obj \in Object /\ fds[f].obj[1] = None
    BY <1>1, <1>3, WorkerFields DEF Follows, Sockets
  <2>. QED BY <1>1, <2>1 DEF Object
<1>. QED BY <1>2, <1>3

(* A front end connects: its descriptor denoted nothing, so it was in no   *)
(* table, and no asker's session of that descriptor was valid any more.    *)
LEMMA AcceptAppFollows ==
  ASSUME IInv, Follows, NEW a \in App, NEW f \in Fd, AcceptApp(a, f)
  PROVE  Follows'
<1>1. /\ thread["front"].pc = "idle" /\ a \notin opened /\ opened' = opened \cup {a}
      /\ sock[f] = None /\ sock' = [sock EXCEPT ![f] = a]
      /\ sessions' = [x \in DOMAIN sessions \cup {f} |-> IF x = f THEN a ELSE sessions[x]]
      /\ ids' = ids \cup {a}
      /\ UNCHANGED <<req, fds, thread>>
  BY DEF AcceptApp, At, Sess!InsertSession, Sess!Insert, reqVars, mgtVars
<1>2. /\ sock \in [Fd -> Conn \cup {None}] /\ DOMAIN sessions \subseteq Fd /\ DOMAIN fds \subseteq Fd
      /\ sessions \in [DOMAIN sessions -> App] /\ fds \in [DOMAIN fds -> Worker]
      /\ a # None /\ a \notin WConn /\ \A x \in App : x # None
  BY RouterAssumption DEF IInv, Typed, TypeOK, KernelOK, SessionOK, Mgt!TypeOK, Conn
<1>3. f \notin DOMAIN sessions
  BY <1>1, InNoTable
<1>4. f \notin DOMAIN fds
  BY <1>1, InNoTable
<1>5. sock'[f] = a /\ \A g \in Fd : g # f => sock'[g] = sock[g]
  BY <1>1, <1>2
<1>6. Sockets'
  <2>1. \A g, h \in Fd : sock'[g] = sock'[h] /\ sock'[g] # None => g = h
    BY <1>1, <1>2, <1>5 DEF Follows, Sockets
  <2>2. \A g \in Fd : sock'[g] # None => sock'[g] \in opened'
    BY <1>1, <1>5 DEF Follows, Sockets
  <2>3. \A g \in DOMAIN fds' : sock'[g] = fds'[g].obj[1]
    BY <1>1, <1>2, <1>4, <1>5 DEF Follows, Sockets
  <2>4. \A g \in DOMAIN sessions' : sessions'[g] = sock'[g]
    BY <1>1, <1>2, <1>3, <1>5 DEF Follows, Sockets
  <2>5. ids' = Range(sessions')
    BY <1>1, <1>3 DEF Follows, Sockets, Range
  <2>. QED BY <2>1, <2>2, <2>3, <2>4, <2>5 DEF Sockets
<1>7. Closing'
  <2>1. \A g \in Fd : sock[g] \in WConn => sock'[g] = sock[g]
    BY <1>1, <1>2, <1>5, RouterAssumption DEF Conn
  <2>2. thread["front"].pc # "hangup"
    BY <1>1
  <2>. QED BY <1>1, <2>1, <2>2 DEF Follows, Closing
<1>8. Askers'
  <2>. SUFFICES ASSUME NEW r \in Req, req[r] # None
                PROVE  /\ req[r].session = req[r].from
                       /\ sock'[req[r].fd] = req[r].from \/ req[r].session \notin ids'
    BY <1>1 DEF Askers
  <2>1. /\ req[r].session = req[r].from /\ req[r].fd \in Fd /\ req[r].from # None
        /\ sock[req[r].fd] = req[r].from \/ req[r].session \notin ids
        /\ req[r].session # a
    BY <1>1, <1>2 DEF IInv, Typed, TypeOK, RequestOK, Request, Sessions, Follows, Askers
  <2>. QED BY <1>1, <1>5, <2>1
<1>. QED BY <1>6, <1>7, <1>8 DEF Follows

(* A worker connects.                                                      *)
LEMMA AcceptWorkerFollows ==
  ASSUME IInv, Follows, NEW c \in WConn, NEW f \in Fd, AcceptWorker(c, f)
  PROVE  Follows'
<1>1. /\ thread["back"].pc = "idle" /\ c \notin opened /\ opened' = opened \cup {c}
      /\ sock[f] = None /\ sock' = [sock EXCEPT ![f] = c]
      /\ UNCHANGED <<sessions, ids, req, fds, thread>>
  BY DEF AcceptWorker, At, sessVars, reqVars, mgtVars
<1>2. /\ sock \in [Fd -> Conn \cup {None}] /\ DOMAIN sessions \subseteq Fd /\ DOMAIN fds \subseteq Fd
      /\ sessions \in [DOMAIN sessions -> App] /\ fds \in [DOMAIN fds -> Worker]
      /\ c # None /\ c \notin App /\ \A x \in App : x # None
  BY RouterAssumption DEF IInv, Typed, TypeOK, KernelOK, SessionOK, Mgt!TypeOK, Conn
<1>3. f \notin DOMAIN sessions
  BY <1>1, InNoTable
<1>4. f \notin DOMAIN fds
  BY <1>1, InNoTable
<1>5. sock'[f] = c /\ \A g \in Fd : g # f => sock'[g] = sock[g]
  BY <1>1, <1>2
<1>6. Sockets'
  <2>1. \A g, h \in Fd : sock'[g] = sock'[h] /\ sock'[g] # None => g = h
    BY <1>1, <1>2, <1>5 DEF Follows, Sockets
  <2>2. \A g \in Fd : sock'[g] # None => sock'[g] \in opened'
    BY <1>1, <1>5 DEF Follows, Sockets
  <2>3. \A g \in DOMAIN fds' : sock'[g] = fds'[g].obj[1]
    BY <1>1, <1>2, <1>4, <1>5 DEF Follows, Sockets
  <2>4. \A g \in DOMAIN sessions' : sessions'[g] = sock'[g]
    BY <1>1, <1>2, <1>3, <1>5 DEF Follows, Sockets
  <2>. QED BY <1>1, <2>1, <2>2, <2>3, <2>4 DEF Follows, Sockets
<1>7. Closing'
  <2>1. \A g \in Fd : sock[g] \in App => sock'[g] = sock[g]
    BY <1>1, <1>2, <1>5
  <2>2. thread["back"].pc # "hangup"
    BY <1>1
  <2>. QED BY <1>1, <2>1, <2>2 DEF Follows, Closing
<1>8. Askers'
  <2>. SUFFICES ASSUME NEW r \in Req, req[r] # None
                PROVE  /\ req[r].session = req[r].from
                       /\ sock'[req[r].fd] = req[r].from \/ req[r].session \notin ids
    BY <1>1 DEF Askers
  <2>1. /\ req[r].session = req[r].from /\ req[r].fd \in Fd /\ req[r].from # None
        /\ sock[req[r].fd] = req[r].from \/ req[r].session \notin ids
    BY <1>2 DEF IInv, Typed, TypeOK, RequestOK, Request, Follows, Askers
  <2>. QED BY <1>1, <1>5, <2>1
<1>. QED BY <1>6, <1>7, <1>8 DEF Follows

(* A front end asks, by the descriptor it has.                             *)
LEMMA ReadReqFollows ==
  ASSUME IInv, Follows, NEW f \in Fd, NEW r \in Req, NEW g \in Content, ReadReq(f, r, g)
  PROVE  Follows' /\ sock[f] = req'[r].from
<1> DEFINE new == [fd |-> f, session |-> Sess!SessionOf(f), content |-> g, from |-> sock[f]]
<1>1. /\ sock[f] \in App /\ req' = [req EXCEPT ![r] = new]
      /\ UNCHANGED <<sock, opened, sessions, ids, fds, thread>>
  BY DEF ReadReq, kernVars, sessVars, mgtVars
<1>2. thread["front"].fd # f
  BY Threads, RouterAssumption DEF ReadReq, At, IInv, Typed, Held, Idle
<1>3. f \in DOMAIN sessions /\ sessions[f] = sock[f]
  BY <1>1, <1>2 DEF IInv, Typed, Sessions, Follows, Sockets
<1>4. new.fd = f /\ new.session = sock[f] /\ new.from = sock[f]
  BY <1>3 DEF Sess!SessionOf
<1>. HIDE DEF new
<1>5. req'[r] = new /\ \A q \in Req \ {r} : req'[q] = req[q]
  BY <1>1 DEF IInv, Typed, TypeOK, RequestOK
<1>6. Askers'
  BY <1>1, <1>4, <1>5 DEF Follows, Askers
<1>7. Sockets' /\ Closing'
  BY <1>1 DEF Follows, Sockets, Closing
<1>. QED BY <1>4, <1>5, <1>6, <1>7 DEF Follows

(* A front end's connection ended: its session, and no other, is over.     *)
LEMMA FrontHangupFollows ==
  ASSUME IInv, Follows, NEW f \in Fd, FrontHangup(f)
  PROVE  Follows'
<1>1. /\ sock[f] \in App /\ Sess!RemoveSession(f)
      /\ thread' = [thread EXCEPT !["front"] = [Idle EXCEPT !.pc = "hangup", !.fd = f]]
      /\ UNCHANGED <<sock, opened, req, fds>>
  BY DEF FrontHangup, kernVars, reqVars, mgtVars
<1>2. /\ f \notin DOMAIN sessions' /\ DOMAIN sessions' = DOMAIN sessions \ {f}
      /\ \A g \in DOMAIN sessions' : sessions'[g] = sessions[g]
      /\ ids' = IF f \in DOMAIN sessions THEN ids \ {sessions[f]} ELSE ids
  BY <1>1 DEF Sess!RemoveSession, Sess!Erase
<1>3. ids' = Range(sessions')
  <2>1. CASE f \in DOMAIN sessions
    <3>1. \A g \in DOMAIN sessions : g # f => sessions[g] # sessions[f]
      BY RouterAssumption, <2>1
         DEF Follows, Sockets, IInv, Typed, TypeOK, SessionOK, Conn
    <3>. QED BY <1>2, <2>1, <3>1 DEF Follows, Sockets, Range
  <2>2. CASE f \notin DOMAIN sessions
    BY <1>2, <2>2 DEF Follows, Sockets, Range
  <2>. QED BY <2>1, <2>2
<1>4. Sockets'
  BY <1>1, <1>2, <1>3 DEF Follows, Sockets
<1>5. Closing'
  <2>1. /\ thread'["front"].fd = f
        /\ thread'["back"] = thread["back"]
    BY <1>1, Threads DEF IInv, Typed, TypeOK, ThreadOK, Idle
  <2>. QED BY <1>1, <1>2, <2>1 DEF Follows, Closing
<1>6. Askers'
  BY <1>1, <1>2 DEF Follows, Askers
<1>. QED BY <1>4, <1>5, <1>6 DEF Follows

(* A reactor closes a descriptor: no table has it any more.                *)
LEMMA CloseHungUpFollows ==
  ASSUME IInv, Follows, NEW t \in Thread, CloseHungUp(t)
  PROVE  Follows'
<1> DEFINE d == thread[t].fd
<1>1. /\ t \in {"front", "back"} /\ thread[t].pc = "hangup"
      /\ sock' = [sock EXCEPT ![d] = None] /\ thread' = [thread EXCEPT ![t] = Idle]
      /\ UNCHANGED <<opened, sessions, ids, req, fds>>
  BY DEF CloseHungUp, At, Rest, sessVars, reqVars, mgtVars
<1>2. /\ d \in Fd
      /\ \/ t = "front" /\ sock[d] \in App /\ d \notin DOMAIN sessions
         \/ t = "back" /\ sock[d] \in WConn /\ d \notin DOMAIN fds
  BY <1>1 DEF Follows, Closing
<1>3. /\ sock \in [Fd -> Conn \cup {None}] /\ DOMAIN sessions \subseteq Fd /\ DOMAIN fds \subseteq Fd
      /\ sessions \in [DOMAIN sessions -> App] /\ fds \in [DOMAIN fds -> Worker]
      /\ None \notin App /\ None \notin WConn /\ App \cap WConn = {}
  BY RouterAssumption DEF IInv, Typed, TypeOK, KernelOK, SessionOK, Mgt!TypeOK, Conn
<1>4. /\ thread'[t] = Idle /\ thread'[t].pc = "idle"
      /\ \A u \in Thread : u # t => thread'[u] = thread[u]
  BY <1>1, Rests
<1>. HIDE DEF d
<1>5. sock'[d] = None /\ \A g \in Fd : g # d => sock'[g] = sock[g]
  BY <1>1, <1>2, <1>3
<1>6. d \notin DOMAIN sessions /\ d \notin DOMAIN fds
  <2>1. \A g \in DOMAIN sessions : sock[g] \in App
    BY <1>3 DEF Follows, Sockets
  <2>2. \A g \in DOMAIN fds : sock[g] \in WConn
    <3>1. \A g \in DOMAIN fds : fds[g].obj \in Object
      BY <1>3, WorkerFields
    <3>. QED BY <3>1 DEF Object, Follows, Sockets
  <2>. QED BY <1>2, <1>3, <2>1, <2>2
<1>7. Sockets'
  <2>1. \A g, h \in Fd : sock'[g] = sock'[h] /\ sock'[g] # None => g = h
    BY <1>5 DEF Follows, Sockets
  <2>2. \A g \in Fd : sock'[g] # None => sock'[g] \in opened'
    BY <1>1, <1>5 DEF Follows, Sockets
  <2>3. \A g \in DOMAIN fds' : sock'[g] = fds'[g].obj[1]
    BY <1>1, <1>3, <1>5, <1>6 DEF Follows, Sockets
  <2>4. \A g \in DOMAIN sessions' : sessions'[g] = sock'[g]
    BY <1>1, <1>3, <1>5, <1>6 DEF Follows, Sockets
  <2>. QED BY <1>1, <2>1, <2>2, <2>3, <2>4 DEF Follows, Sockets
<1>8. Closing'
  <2>. DEFINE other == IF t = "front" THEN "back" ELSE "front"
  <2>1. /\ thread'[other] = thread[other]
        /\ thread[other].pc = "hangup" => thread[other].fd # d
    BY <1>1, <1>2, <1>3, <1>4, Threads DEF Follows, Closing
  <2>2. thread'["front"].pc = "hangup" =>
          thread'["front"] = thread["front"] /\ thread["front"].fd # d
    BY <1>1, <1>4, <2>1
  <2>3. thread'["back"].pc = "hangup" =>
          thread'["back"] = thread["back"] /\ thread["back"].fd # d
    BY <1>1, <1>4, <2>1
  <2>. QED BY <1>1, <1>5, <2>2, <2>3 DEF Follows, Closing
<1>9. Askers'
  <2>. SUFFICES ASSUME NEW r \in Req, req[r] # None
                PROVE  /\ req[r].session = req[r].from
                       /\ sock'[req[r].fd] = req[r].from \/ req[r].session \notin ids
    BY <1>1 DEF Askers
  <2>1. /\ req[r].session = req[r].from /\ req[r].fd \in Fd /\ req[r].from \in App
        /\ sock[req[r].fd] = req[r].from \/ req[r].session \notin ids
    BY DEF IInv, Typed, TypeOK, RequestOK, Request, Follows, Askers
  <2>2. CASE req[r].fd # d
    BY <1>5, <2>1, <2>2
  <2>3. CASE req[r].fd = d /\ sock[d] = req[r].from
    <3>1. \A g \in DOMAIN sessions : sessions[g] # req[r].from
      BY <1>3, <1>6, <2>1, <2>3 DEF Follows, Sockets
    <3>. QED BY <2>1, <3>1 DEF Follows, Sockets, Range
  <2>. QED BY <2>1, <2>2, <2>3
<1>. QED BY <1>7, <1>8, <1>9 DEF Follows

(* A registration: a new Worker object is of the connection it came by.    *)
LEMMA RecvRegisterFollows ==
  ASSUME IInv, Follows, NEW f \in Fd, RecvRegister(f)
  PROVE  Follows'
<1>1. /\ thread["back"].pc = "idle"
      /\ UNCHANGED <<sock, opened, sessions, ids, req>>
  BY DEF RecvRegister, At, kernVars, sessVars, reqVars
<1>2. PICK w, n : /\ w = WorkerOn(sock[f], n, f)
                  /\ \E ret : Mgt!RegisterWorker(w, ret)
                  /\ thread' = [thread EXCEPT !["back"] = [Idle EXCEPT !.pc = "rsp", !.worker = w]]
  BY DEF RecvRegister
<1>3. w.fd = f /\ w.obj[1] = sock[f]
  BY <1>2 DEF WorkerOn
<1>4. \A g \in DOMAIN fds' : (g \in DOMAIN fds /\ fds'[g] = fds[g]) \/ (g = f /\ fds'[g] = w)
  BY <1>2, <1>3 DEF Mgt!RegisterWorker, Mgt!vars, Mgt!Insert
<1>5. /\ thread'["back"].pc # "hangup" /\ thread'["front"] = thread["front"]
  BY <1>2, Threads DEF IInv, Typed, TypeOK, ThreadOK, Idle
<1>6. Sockets'
  BY <1>1, <1>3, <1>4 DEF Follows, Sockets
<1>7. Closing'
  BY <1>1, <1>5 DEF Follows, Closing
<1>8. Askers'
  BY <1>1 DEF Follows, Askers
<1>. QED BY <1>6, <1>7, <1>8 DEF Follows

(* A worker's connection ended: whatever was registered by its descriptor  *)
(* is unregistered before the descriptor is closed.                        *)
LEMMA BackHangupFollows ==
  ASSUME IInv, Follows, NEW f \in Fd, BackHangup(f)
  PROVE  Follows'
<1>1. /\ sock[f] \in WConn /\ Mgt!UnregisterWorker(f)
      /\ thread' = [thread EXCEPT !["back"] = [Idle EXCEPT !.pc = "hangup", !.fd = f]]
      /\ UNCHANGED <<sock, opened, sessions, ids, req>>
  BY DEF BackHangup, kernVars, sessVars, reqVars
<1>2. /\ f \notin DOMAIN fds' /\ DOMAIN fds' \subseteq DOMAIN fds
      /\ \A g \in DOMAIN fds' : fds'[g] = fds[g]
  BY <1>1, UnregisterForgets
<1>3. thread'["back"].fd = f /\ thread'["front"] = thread["front"]
  BY <1>1, Threads DEF IInv, Typed, TypeOK, ThreadOK, Idle
<1>4. Sockets'
  BY <1>1, <1>2 DEF Follows, Sockets
<1>5. Closing'
  BY <1>1, <1>2, <1>3 DEF Follows, Closing
<1>6. Askers'
  BY <1>1 DEF Follows, Askers
<1>. QED BY <1>4, <1>5, <1>6 DEF Follows

(* The processors, the sends and the answers touch neither a descriptor    *)
(* nor a session; a Worker object at its limit is unregistered.            *)
LEMMA OthersFollow ==
  ASSUME IInv, Follows,
         \/ \E c \in Conn : PeerCloses(c)
         \/ \E f \in Fd : RecvUnregister(f) \/ \E r \in Req : RecvReply(f, r)
         \/ \E p \in Proc : Process(p)
         \/ \E t \in Thread : \/ UnregisterDead(t)
                              \/ \E out \in {Success, BadFd} \cup Failure : Send(t, out)
         \/ ForwardReply
  PROVE  Follows'
<1>1. /\ UNCHANGED <<sock, opened, sessions, ids>>
      /\ UNCHANGED req
  BY SendFacts DEF PeerCloses, RecvUnregister, RecvReply, Process, GetReq, Route, Refuse,
     PushAsynReq, ReplySendFail, DelAsynReq, UnregisterDead, ForwardReply,
     kernVars, sessVars, reqVars
<1>2. /\ DOMAIN fds' \subseteq DOMAIN fds
      /\ \A f \in DOMAIN fds' : fds'[f] = fds[f]
  <2>1. CASE \/ \E f \in Fd : RecvUnregister(f)
             \/ \E t \in Thread : UnregisterDead(t)
    BY <2>1, UnregisterForgets DEF RecvUnregister, UnregisterDead
  <2>2. CASE UNCHANGED fds
    BY <2>2
  <2>. QED BY <2>1, <2>2, SendFacts DEF PeerCloses, RecvReply, Process, GetReq, Route, Refuse,
           PushAsynReq, ReplySendFail, DelAsynReq, ForwardReply, Mgt!GetWorker, mgtVars
<1>3. \A t \in {"front", "back"} : thread'[t].pc = "hangup" => thread'[t] = thread[t]
  <2>1. ASSUME NEW p \in Proc, Process(p)
        PROVE  thread'["front"] = thread["front"] /\ thread'["back"] = thread["back"]
    <3>1. \E x : thread' = [thread EXCEPT ![p] = x]
      BY <2>1 DEF Process, GetReq, Route, Refuse, PushAsynReq, ReplySendFail, DelAsynReq, Goto, Rest
    <3>. QED BY <3>1, Threads, ThreadTyped
  <2>2. ASSUME NEW t \in Thread,
               UnregisterDead(t) \/ \E out \in {Success, BadFd} \cup Failure : Send(t, out)
        PROVE  /\ \A u \in Thread : u # t => thread'[u] = thread[u]
               /\ thread'[t].pc # "hangup"
    <3>1. \/ \E pc \in {"close", "unregister"} : thread' = [thread EXCEPT ![t].pc = pc]
          \/ thread' = [thread EXCEPT ![t].pc = "fail", ![t].worker = None]
          \/ thread' = [thread EXCEPT ![t] = Idle]
      BY <2>2, SendFacts DEF UnregisterDead, Goto
    <3>2. /\ \A u \in Thread : u # t => thread'[u] = thread[u]
          /\ thread'[t].pc \in {"close", "unregister", "fail", "idle"}
      <4>1. CASE \E pc \in {"close", "unregister"} : thread' = [thread EXCEPT ![t].pc = pc]
        BY <4>1, Moves
      <4>2. CASE thread' = [thread EXCEPT ![t].pc = "fail", ![t].worker = None]
        BY <4>2, Moves
      <4>3. CASE thread' = [thread EXCEPT ![t] = Idle]
        BY <4>3, Rests
      <4>. QED BY <3>1, <4>1, <4>2, <4>3
    <3>. QED BY <3>2
  <2>3. ASSUME NEW f \in Fd, NEW r \in Req, RecvReply(f, r)
        PROVE  /\ thread'["front"] = thread["front"]
               /\ thread'["back"].pc # "hangup" \/ UNCHANGED thread
    BY <2>3, Threads, ThreadTyped DEF RecvReply, Idle
  <2>4. ASSUME ForwardReply
        PROVE  thread'["front"] = thread["front"] /\ thread'["back"].pc # "hangup"
    BY <2>4, Threads, Rests DEF ForwardReply, Rest
  <2>5. ASSUME \/ \E c \in Conn : PeerCloses(c)
               \/ \E f \in Fd : RecvUnregister(f)
        PROVE  UNCHANGED thread
    BY <2>5 DEF PeerCloses, RecvUnregister
  <2>. QED BY <2>1, <2>2, <2>3, <2>4, <2>5, Threads
<1>. QED BY <1>1, <1>2, <1>3, FollowsFrame

LEMMA InitFollows == Init => Follows
<1>. SUFFICES ASSUME Init PROVE Follows
  OBVIOUS
<1>1. /\ sock = [f \in Fd |-> None] /\ sessions = << >> /\ ids = {} /\ fds = << >>
      /\ req = [r \in Req |-> None] /\ thread = [t \in Thread |-> Idle]
  BY DEF Init, Sess!Init, Reqs!Init, Mgt!Init
<1>2. Sockets
  BY <1>1 DEF Sockets, Range
<1>3. Closing
  BY <1>1, Threads DEF Closing, Idle
<1>4. Askers
  BY <1>1 DEF Askers
<1>. QED BY <1>2, <1>3, <1>4 DEF Follows

LEMMA NextFollows == IInv /\ Follows /\ [Next]_vars /\ [NoneCloses]_vars => Follows'
<1>. SUFFICES ASSUME IInv, Follows, [Next]_vars, [NoneCloses]_vars PROVE Follows'
  OBVIOUS
<1>1. CASE UNCHANGED vars
  BY <1>1, FollowsFrame DEF vars, kernVars, sessVars, reqVars, mgtVars
<1>2. CASE Environment
  BY <1>2, OthersFollow, AcceptAppFollows, ReadReqFollows, AcceptWorkerFollows,
     RecvRegisterFollows DEF Environment
<1>3. CASE \E p \in Proc : Process(p)
  BY <1>3, OthersFollow
<1>4. CASE NoneCloses /\ \E t \in Thread : Finish(t)
  BY <1>4, OthersFollow, CloseHungUpFollows DEF NoneCloses, Finish
<1>5. CASE \E f \in Fd : FrontHangup(f) \/ BackHangup(f) \/ \E r \in Req : RecvReply(f, r)
  BY <1>5, OthersFollow, FrontHangupFollows, BackHangupFollows
<1>6. CASE ForwardReply
  BY <1>6, OthersFollow
<1>. QED BY <1>1, <1>2, <1>3, <1>4, <1>5, <1>6 DEF Next

LEMMA AlwaysFollows == Spec /\ OnlyReactorsClose => []Follows
<1>1. Init => Follows
  BY InitFollows
<1>2. IInv /\ Follows /\ [Next]_vars /\ [NoneCloses]_vars => Follows'
  BY NextFollows
<1>. QED BY <1>1, <1>2, AlwaysIInv, PTL DEF Spec, OnlyReactorsClose

(* As long as only the reactors close connections, the registry and the    *)
(* session table are right about every descriptor, whichever connections   *)
(* it is given to in turn and whatever the other reactor does meanwhile.   *)
THEOREM TablesAreRight == Spec /\ OnlyReactorsClose => []TablesFollowSockets
<1>1. IInv /\ Follows => TablesFollowSockets
  BY DEF IInv, Typed, Sessions, Follows, Sockets, TablesFollowSockets
<1>. QED BY <1>1, AlwaysIInv, AlwaysFollows, PTL

(* The last answer for a request is the one just sent.                     *)
LEMMA LastAnswer ==
  ASSUME IInv, NEW r \in Req, NEW x \in AnswerRec,
         answers' = [answers EXCEPT ![r] = Append(@, x)]
  PROVE  /\ answers'[r][Len(answers'[r])] = x
         /\ \A q \in Req : q # r => answers'[q] = answers[q]
<1>1. answers[r] \in Seq(AnswerRec)
  BY OutcomeFacts
<1>2. /\ answers'[r] = Append(answers[r], x)
      /\ \A q \in Req : q # r => answers'[q] = answers[q]
  BY DEF IInv, Typed, TypeOK, RequestOK
<1>3. Append(answers[r], x)[Len(Append(answers[r], x))] = x
  BY <1>1
<1>. QED BY <1>2, <1>3

AnsweredAtHome ==
  \A r \in Req : answers'[r] # answers[r] =>
       \/ answers'[r][Len(answers'[r])].to = req'[r].from
       \/ req'[r].session \notin ids

LEMMA StepsAnswerAtHome == IInv /\ Follows /\ [Next]_vars => [AnsweredAtHome]_vars
<1>. SUFFICES ASSUME IInv, Follows, Next PROVE AnsweredAtHome
  OBVIOUS
<1>1. CASE UNCHANGED answers
  BY <1>1 DEF AnsweredAtHome
<1>2. ASSUME NEW r \in Req, NEW kind \in Kind, req[r] # None, Answer(r, kind), UNCHANGED req
      PROVE  AnsweredAtHome
  <2>1. sock[req[r].fd] \in Conn \cup {None}
    BY <1>2 DEF IInv, Typed, TypeOK, KernelOK, RequestOK, Request
  <2>2. /\ answers'[r][Len(answers'[r])].to = sock[req[r].fd]
        /\ \A q \in Req : q # r => answers'[q] = answers[q]
    <3>. DEFINE x == [kind |-> kind, to |-> sock[req[r].fd]]
    <3>1. x \in AnswerRec /\ x.to = sock[req[r].fd]
      BY <2>1 DEF AnswerRec
    <3>2. answers' = [answers EXCEPT ![r] = Append(@, x)]
      BY <1>2 DEF Answer
    <3>. HIDE DEF x
    <3>. QED BY <3>1, <3>2, LastAnswer
  <2>. QED BY <1>2, <2>2 DEF AnsweredAtHome, Follows, Askers
<1>3. ASSUME NEW f \in Fd, NEW r \in Req, NEW g \in Content, ReadReq(f, r, g)
      PROVE  AnsweredAtHome
  <2>1. sock[f] = req'[r].from /\ sock[f] \in Conn \cup {None}
    BY <1>3, ReadReqFollows DEF ReadReq, Conn
  <2>2. CASE ~UNCHANGED answers
    <3>1. \E x \in AnswerRec : /\ x.to = sock[f]
                               /\ answers' = [answers EXCEPT ![r] = Append(@, x)]
      <4>1. PICK kind \in Kind :
              answers' = [answers EXCEPT ![r] = Append(@, [kind |-> kind, to |-> sock[f]])]
        BY <1>3, <2>2 DEF ReadReq, Kind
      <4>2. [kind |-> kind, to |-> sock[f]] \in AnswerRec
        BY <2>1 DEF AnswerRec
      <4>. QED BY <4>1, <4>2
    <3>. QED BY <2>1, <3>1, LastAnswer DEF AnsweredAtHome
  <2>. QED BY <1>1, <2>2
<1>4. ASSUME NEW p \in Proc, Refuse(p) \/ ReplySendFail(p) PROVE AnsweredAtHome
  <2>1. thread[p].req \in Req /\ req[thread[p].req] # None
    BY <1>4, Threads, InHand DEF Refuse, ReplySendFail, At
  <2>2. \E kind \in Kind : Answer(thread[p].req, kind) /\ UNCHANGED req
    BY <1>4 DEF Refuse, ReplySendFail, Kind, Invalid, reqVars
  <2>. QED BY <1>2, <2>1, <2>2
<1>5. ASSUME ForwardReply PROVE AnsweredAtHome
  <2>1. thread["back"].req \in Req /\ req[thread["back"].req] # None
    BY <1>5, Threads, InHand DEF ForwardReply, At
  <2>2. \E kind \in Kind : Answer(thread["back"].req, kind) /\ UNCHANGED req
    BY <1>5 DEF ForwardReply, Kind, reqVars
  <2>. QED BY <1>2, <2>1, <2>2
<1>6. CASE Environment
  BY <1>1, <1>3, <1>6 DEF Environment, PeerCloses, AcceptApp, AcceptWorker, RecvRegister,
     RecvUnregister
<1>7. CASE \E p \in Proc : Process(p)
  BY <1>1, <1>4, <1>7 DEF Process, GetReq, Route, PushAsynReq, DelAsynReq
<1>8. CASE \E t \in Thread : Finish(t)
  BY <1>1, <1>8 DEF Finish, CloseHungUp, Send, UnregisterDead, CloseDead
<1>9. CASE \E f \in Fd : FrontHangup(f) \/ BackHangup(f) \/ \E r \in Req : RecvReply(f, r)
  BY <1>1, <1>9 DEF FrontHangup, BackHangup, RecvReply
<1>. QED BY <1>5, <1>6, <1>7, <1>8, <1>9 DEF Next

(* As long as only the reactors close connections, an answer goes to the   *)
(* front end that asked, or the session of the request has ended already.  *)
THEOREM ElsewhereTooLate == Spec /\ OnlyReactorsClose => ElsewhereOnlyAfterEnd
<1>1. IInv /\ Follows /\ [Next]_vars => [AnsweredAtHome]_vars
  BY StepsAnswerAtHome
<1>2. Spec => [][Next]_vars
  BY DEF Spec
<1>. QED BY <1>1, <1>2, AlwaysIInv, AlwaysFollows, PTL DEF ElsewhereOnlyAfterEnd, AnsweredAtHome
=============================================================================
