---------------------------- MODULE WorkerServer ----------------------------
(***************************************************************************)
(* A worker process that serves requests: the client thread that takes     *)
(* them from the router, the queue, the processors, the service they call  *)
(* (libservice: notification or standard), the timer that renews the       *)
(* address book, and the way of the answers back into the hands of the     *)
(* router.                                                                 *)
(*                                                                         *)
(* Outside are the front ends, the EQQ service, the mail host and the web  *)
(* services: each call may fail or answer what it likes.  The worker is    *)
(* registered; how that comes about, and lines that are cut on their way   *)
(* to it, are the subject of module Registration.  Every thread calls      *)
(* outside without holding a lock.                                         *)
(***************************************************************************)
EXTENDS Protocol

CONSTANTS Req,        \* requests; each stands for its msg_id
          Proc,
          Plugin,     \* what the worker may have loaded and configured
          Asked,      \* what front ends may ask: [text, size]
          Protocols,  \* the cfg of the standard service: cmd -> mode
          UserList,   \* the editions of the EQQ service's user list
          GroupList,  \* its list of departments
          Reply,      \* what it may answer to a broadcast
          Page,       \* what a web service may answer
          MaxLen,     \* MAX_MSG_LEN
          Growth,     \* what the msg_id adds to a request's length
          MaxQueue,   \* _max_queue_size; 0 is no limit
          Slow,       \* a send may stop half way
          Breaks,     \* bound: losses of the connection
          None

ERR_QUEUE_FULL == -199
CurlError == 7

(* What the service gives out are arrays.                                  *)
ASSUME WorkerServerAssumption ==
  /\ \A p \in Plugin : /\ p.service \in {"notification", "standard"}
                       /\ p.ways \subseteq {"notification_EQQ", "notification_mail"}
  /\ \A m \in Asked : GetReqHead(m.text).ret = 0 /\ m.size <= MaxLen
  /\ \A c \in DOMAIN Protocols : Protocols[c] \in {"http_get", "https_get"}
  /\ None \notin Req /\ None \notin Asked /\ None # [err |-> 0]
  /\ Len(UserList) \in Nat \ {0}
  /\ \A n \in 1 .. Len(UserList) : HasItems(UserList[n]) => DOMAIN Items(UserList[n]) \subseteq Nat
  /\ HasItems(GroupList) => DOMAIN Items(GroupList) \subseteq Nat
  /\ Slow \in BOOLEAN /\ Breaks \in Nat /\ MaxQueue \in Nat /\ Growth \in Nat

(* A request with its msg_id, and what the getters find in it.             *)
NewReq       == [m \in Asked |-> [r \in Req |-> SetNewReq(m.text, r)]]
AdminHead    == [m \in Asked |-> [r \in Req |-> GetAdminHead(NewReq[m][r])]]
Body         == [m \in Asked |-> [r \in Req |-> GetBody(NewReq[m][r])]]
Notification == [m \in Asked |-> [r \in Req |-> GetNotification(NewReq[m][r])]]

VARIABLES
  plugin,     \* the service of this process and the ways it is configured for
  openid, eqq_group_id,  \* EqqMgt
  timer,      \* the timer thread: where it is and what it has fetched
  edition,    \* which user list the EQQ service gives out
  up,         \* the connection
  breaks,     \* the times it was lost
  listed,     \* the router has the worker in its registry
  asked,      \* Req -> what the front end asked, None: not forwarded yet
  toWorker,   \* lines on the way to the worker
  queue,      \* the requests to be processed
  thread,     \* Proc -> where it is and what it holds
  toRouter,   \* lines on the way to the router
  held,       \* the router's line buffer: a text whose newline is not there
  told,       \* Req -> the answer the router can pass on
  replies,    \* Req -> history: answers given to the connection
  posts,      \* Req -> history: broadcasts and mails tried
  accepted,   \* history: the requests the outside has fulfilled
  foul        \* history: the connection broke or a line was not readable

bookVars  == <<openid, eqq_group_id>>
wireVars  == <<up, breaks, listed, toWorker, toRouter, held, told, foul>>
histVars  == <<posts, accepted>>
vars == <<plugin, bookVars, timer, edition, wireVars, asked, queue, thread, replies, histVars>>

Book == INSTANCE EqqMgt

AdminWords == {CMD_HB, CMD_REGISTER, CMD_UNREGISTER}

Idle == [pc |-> "idle", req |-> None, users |-> {}, depts |-> {},
         ret |-> 0, info |-> "", body |-> ""]

Init ==
  /\ plugin \in Plugin
  /\ IF "notification_EQQ" \in plugin.ways
     THEN Book!Init(UserList[1], GroupList) ELSE Book!Unused
  /\ timer = [pc |-> "idle", rsp |-> NotJson]
  /\ edition = 1
  /\ up = TRUE /\ breaks = 0 /\ listed = TRUE
  /\ asked = [r \in Req |-> None]
  /\ toWorker = << >> /\ toRouter = << >> /\ held = None
  /\ queue = << >>
  /\ thread = [p \in Proc |-> Idle]
  /\ told = [r \in Req |-> None]
  /\ replies = [r \in Req |-> 0] /\ posts = [r \in Req |-> 0]
  /\ accepted = {} /\ foul = FALSE

-----------------------------------------------------------------------------
(* The router.                                                             *)

(* A request it has accepted goes out with its msg_id in the head, to a    *)
(* worker that is registered.                                              *)
Forward(r) ==
  /\ up /\ listed /\ asked[r] = None
  /\ \E m \in Asked :
       /\ GetReqHead(m.text).service_id = plugin.group_id
       /\ asked' = [asked EXCEPT ![r] = m]
       /\ toWorker' = Append(toWorker, [text |-> NewReq[m][r],
                                        size |-> m.size + Growth])
  /\ UNCHANGED <<plugin, bookVars, timer, edition, up, breaks, listed, toRouter, held,
                 told, foul, queue, thread, replies, histVars>>

(* A line ends at a newline, whatever was begun before it; json-c takes    *)
(* the first JSON value of a text and does not mind the rest.              *)
LineRead(line) == IF held = None THEN line.text ELSE held

(* Worker_Event_Handler::handle_input.  Whatever carries a word of the     *)
(* registration protocol is taken for a message of that protocol, be it    *)
(* the answer to a request with this cmd: it is passed on to nobody, and   *)
(* the word dip_unregister takes the worker out of the registry.           *)
RouterReads ==
  /\ toRouter # << >>
  /\ toRouter' = Tail(toRouter)
  /\ LET line == Head(toRouter)
         head == GetAdminHead(LineRead(line))
     IN  IF line.newline
         THEN /\ held' = None
              /\ listed' = (listed /\ ~(head.ret = 0 /\ head.cmd = CMD_UNREGISTER))
              /\ told' = [r \in Req |->
                   IF /\ head.ret = 0 /\ head.cmd \notin AdminWords
                      /\ head.msg_id = r /\ told[r] = None
                   THEN [err |-> head.err] ELSE told[r]]
         ELSE held' = LineRead(line) /\ UNCHANGED <<told, listed>>
  /\ UNCHANGED <<plugin, bookVars, timer, edition, up, breaks, asked, toWorker, foul,
                 queue, thread, replies, histVars>>

(* The connection is lost, and with it what was under way; a new one is    *)
(* opened, and registered, after the router has read the old one to its    *)
(* end.                                                                    *)
Break ==
  /\ up /\ breaks < Breaks
  /\ up' = FALSE /\ breaks' = breaks + 1 /\ foul' = TRUE
  /\ toWorker' = << >>
  /\ \E n \in 0 .. Len(toRouter) : toRouter' = SubSeq(toRouter, 1, n)
  /\ UNCHANGED <<plugin, bookVars, timer, edition, listed, asked, held, told, queue,
                 thread, replies, histVars>>

Reconnect ==
  /\ ~up /\ toRouter = << >>
  /\ up' = TRUE /\ listed' = TRUE /\ held' = None
  /\ UNCHANGED <<plugin, bookVars, timer, edition, breaks, asked, toWorker, toRouter, told,
                 foul, queue, thread, replies, histVars>>

-----------------------------------------------------------------------------
(* The client thread.                                                      *)

(* Msg_Oper::send_msg: what becomes of the answer is not looked at.        *)
Respond(r, err, info, body) ==
  LET head == AdminHead[asked[r]][r]
      line == SetRspMsg(head.cmd, head.req_id, head.msg_id, err, info, body)
      Put(l) == toRouter' = Append(toRouter, l)
                /\ foul' = (foul \/ l.text = NotJson \/ ~l.newline)
  IN  /\ replies' = [replies EXCEPT ![r] = @ + 1]
      /\ \/ up /\ Put(line)
         \/ up /\ Slow /\ Put([text |-> NotJson, newline |-> FALSE])
         \/ (up => Slow) /\ foul' = TRUE /\ UNCHANGED toRouter

(* Mutant: the bound is noticed one request too late.                      *)
FullTooLate == MaxQueue # 0 /\ Len(queue) > MaxQueue

Full == MaxQueue # 0 /\ Len(queue) >= MaxQueue

(* Mutant: a full queue is answered for, and the request is queued.        *)
RefuseAndQueue(r) ==
  /\ queue' = Append(queue, r)
  /\ IF Full THEN Respond(r, ERR_QUEUE_FULL, "full", "")
     ELSE UNCHANGED <<toRouter, foul, replies>>

(* Mutant: a request that meets a full queue is dropped in silence.        *)
DropWhenFull(r) ==
  /\ queue' = IF Full THEN queue ELSE Append(queue, r)
  /\ UNCHANGED <<toRouter, foul, replies>>

TakeIn(r) ==
  IF Full
  THEN Respond(r, ERR_QUEUE_FULL, "full", "") /\ UNCHANGED queue
  ELSE queue' = Append(queue, r) /\ UNCHANGED <<toRouter, foul, replies>>

(* Req_Event_Handler::handle_input for a request.  A line too long is      *)
(* dropped without a word; one whose cmd is dip_register or dip_hb is      *)
(* taken for the router's answer to a message of the worker's own.         *)
HandleInput ==
  /\ toWorker # << >>
  /\ toWorker' = Tail(toWorker)
  /\ LET line == Head(toWorker)
         head == GetAdminHead(line.text)
     IN  IF line.size > MaxLen \/ head.cmd \in {CMD_REGISTER, CMD_HB}
         THEN UNCHANGED <<queue, toRouter, foul, replies>>
         ELSE TakeIn(head.msg_id)
  /\ UNCHANGED <<plugin, bookVars, timer, edition, up, breaks, listed, asked, held, told,
                 thread, histVars>>

-----------------------------------------------------------------------------
(* The processors.                                                         *)

Wanted(r) == Notification[asked[r]][r]

Doing(r, pc) == [Idle EXCEPT !.pc = pc, !.req = r]
Done(r, ret, info, body) ==
  [Idle EXCEPT !.pc = "answer", !.req = r, !.ret = ret, !.info = info, !.body = body]

(* notification_service::process up to the first look at shared state.     *)
Notify(r) ==
  LET n == Wanted(r) IN
  CASE n.ret # 0 -> Done(r, n.ret, n.info, "")
    [] n.ret = 0 /\ n.cmd \notin plugin.ways -> Done(r, -1, "invalid cmd", "")
    [] n.ret = 0 /\ n.cmd \in plugin.ways ->
         [Doing(r, IF n.cmd = "notification_mail" THEN "smtp"
                   ELSE IF n.receiver # << >> THEN "users" ELSE "depts")
            EXCEPT !.info = n.info]

(* standard_service::process up to the call of the web service.  Each of   *)
(* the modes conf_mgt.cpp:566 lets in is a get.                            *)
ModeOf(cmd) == IF cmd \in DOMAIN Protocols THEN Protocols[cmd]
               ELSE IF "others" \in DOMAIN Protocols THEN Protocols["others"] ELSE None

Dispatch(r) ==
  LET b == Body[asked[r]][r] IN
  IF b.ret # 0 \/ ModeOf(b.cmd) = None THEN Done(r, -1, "", "")
  ELSE Doing(r, "get")

(* Processor::svc takes the next request and calls the service.            *)
Take(p) ==
  /\ thread[p].pc = "idle" /\ queue # << >>
  /\ queue' = Tail(queue)
  /\ thread' = [thread EXCEPT ![p] = IF plugin.service = "standard"
                                     THEN Dispatch(Head(queue)) ELSE Notify(Head(queue))]
  /\ UNCHANGED <<plugin, bookVars, timer, edition, wireVars, asked, replies, histVars>>

Quietly == UNCHANGED <<plugin, bookVars, timer, edition, wireVars, asked, queue, replies>>

(* The two copies of the address book are taken one after the other.       *)
LookUpUsers(p) ==
  /\ thread[p].pc = "users"
  /\ LET users == Book!Recipients(Wanted(thread[p].req).receiver) IN
     thread' = [thread EXCEPT
                  ![p].users = users,
                  ![p].info = IF users = {} THEN "no recipients" ELSE @,
                  ![p].pc = IF Wanted(thread[p].req).groups # << >> THEN "depts" ELSE "post"]
  /\ UNCHANGED histVars /\ Quietly

LookUpDepts(p) ==
  /\ thread[p].pc = "depts"
  /\ LET depts == Book!Departments(Wanted(thread[p].req).groups) IN
     thread' = [thread EXCEPT
                  ![p].depts = depts,
                  ![p].info = IF depts = {} THEN "no departments" ELSE @,
                  ![p].pc = "post"]
  /\ UNCHANGED histVars /\ Quietly

Outcome(p, ret, info, body) ==
  thread' = [thread EXCEPT ![p] = Done(@.req, ret, info, body)]

(* Mutant: that the post went out is taken for success.                    *)
StatusOfPost(rsp, info) == [ret |-> 0, info |-> GetEqqRspStatus(rsp, info).info]

(* send_broadcast reads the service's status from its answer.              *)
Status(rsp, info) == GetEqqRspStatus(rsp, info)

(* It is called with empty lists, too.                                     *)
SendBroadcast(p) ==
  /\ thread[p].pc = "post"
  /\ posts' = [posts EXCEPT ![thread[p].req] = @ + 1]
  /\ \/ Outcome(p, CurlError, thread[p].info, "") /\ UNCHANGED accepted
     \/ \E rsp \in Reply :
          LET s == Status(rsp, thread[p].info) IN
          /\ Outcome(p, s.ret, s.info, "")
          /\ accepted' = IF GetOr(rsp, "ret", -1) = 0
                         THEN accepted \cup {thread[p].req} ELSE accepted
  /\ Quietly

SendMail(p) ==
  /\ thread[p].pc = "smtp"
  /\ posts' = [posts EXCEPT ![thread[p].req] = @ + 1]
  /\ \/ Outcome(p, CurlError, "smtp failed", "") /\ UNCHANGED accepted
     \/ Outcome(p, 0, thread[p].info, "") /\ accepted' = accepted \cup {thread[p].req}
  /\ Quietly

(* Without username, time and serverid in the body there is no URL, and no *)
(* page.                                                                   *)
HasUrl(r) == Body[asked[r]][r].body \cap {"username", "time", "serverid"} # {}

HttpGet(p) ==
  /\ thread[p].pc = "get"
  /\ \/ Outcome(p, CurlError, "failed", "") /\ UNCHANGED accepted
     \/ \E page \in Page :
          /\ HasUrl(thread[p].req)
          /\ Outcome(p, 0, "", page)
          /\ accepted' = accepted \cup {thread[p].req}
  /\ UNCHANGED posts /\ Quietly

Answer(p) ==
  /\ thread[p].pc = "answer"
  /\ Respond(thread[p].req, thread[p].ret, thread[p].info, thread[p].body)
  /\ thread' = [thread EXCEPT ![p] = Idle]
  /\ UNCHANGED <<plugin, bookVars, timer, edition, up, breaks, listed, asked, toWorker,
                 held, told, queue, histVars>>

Processor(p) == \/ Take(p) \/ LookUpUsers(p) \/ LookUpDepts(p) \/ SendBroadcast(p)
                \/ SendMail(p) \/ HttpGet(p) \/ Answer(p)

-----------------------------------------------------------------------------
(* The timer thread of the address book.                                   *)

Elsewhere == UNCHANGED <<plugin, edition, wireVars, asked, queue, thread, replies, histVars>>

(* An answer of the EQQ service: the list, or its refusal.                 *)
Fetched(list) == {list, Obj([ret |-> Int32(-5)])}

(* update_openid_list; when the request fails there is nothing to fill in. *)
FetchUsers ==
  /\ timer.pc = "idle" /\ "notification_EQQ" \in plugin.ways
  /\ \/ timer' = [pc |-> "half", rsp |-> NotJson]
     \/ \E rsp \in Fetched(UserList[edition]) : timer' = [pc |-> "users", rsp |-> rsp]
  /\ UNCHANGED bookVars /\ Elsewhere
FillUsers ==
  /\ timer.pc = "users"
  /\ Book!UpdateOpenid(timer.rsp)
  /\ timer' = [pc |-> "half", rsp |-> NotJson]
  /\ Elsewhere

(* update_eqq_group_list, whatever became of the users.                    *)
FetchGroups ==
  /\ timer.pc = "half"
  /\ \/ timer' = [pc |-> "idle", rsp |-> NotJson]
     \/ \E rsp \in Fetched(GroupList) : timer' = [pc |-> "groups", rsp |-> rsp]
  /\ UNCHANGED bookVars /\ Elsewhere
FillGroups ==
  /\ timer.pc = "groups"
  /\ Book!UpdateGroups(timer.rsp)
  /\ timer' = [pc |-> "idle", rsp |-> NotJson]
  /\ Elsewhere

(* The EQQ service edits its list of users.                                *)
Edit ==
  /\ edition < Len(UserList) /\ edition' = edition + 1
  /\ UNCHANGED <<plugin, bookVars, timer, wireVars, asked, queue, thread, replies, histVars>>

-----------------------------------------------------------------------------
Next ==
  \/ \E r \in Req : Forward(r)
  \/ HandleInput \/ RouterReads \/ Break \/ Reconnect
  \/ \E p \in Proc : Processor(p)
  \/ FetchUsers \/ FillUsers \/ FetchGroups \/ FillGroups \/ Edit

Spec == Init /\ [][Next]_vars

(* Both reactors run, and no processor stays in a call: curl has timeouts. *)
Fairness ==
  /\ WF_vars(HandleInput) /\ WF_vars(RouterReads)
  /\ \A p \in Proc : WF_vars(Processor(p))

FairSpec == Spec /\ Fairness

-----------------------------------------------------------------------------
(* Every variable holds a value of its type.                               *)
TypeOK ==
  /\ plugin \in Plugin
  /\ timer.pc \in {"idle", "users", "half", "groups"}
  /\ edition \in 1 .. Len(UserList)
  /\ up \in BOOLEAN /\ listed \in BOOLEAN /\ breaks \in 0 .. Breaks /\ foul \in BOOLEAN
  /\ asked \in [Req -> Asked \cup {None}]
  /\ Range(queue) \subseteq {r \in Req : asked[r] # None}
  /\ MaxQueue # 0 => Len(queue) <= MaxQueue
  /\ \A p \in Proc :
       /\ thread[p].pc \in {"idle", "users", "depts", "post", "smtp", "get", "answer"}
       /\ thread[p].req \in IF thread[p].pc = "idle" THEN {None} ELSE Req
  /\ replies \in [Req -> Nat] /\ posts \in [Req -> Nat] /\ accepted \subseteq Req

(* Whoever reads err 0 can rely on it: the service outside took the        *)
(* broadcast or the mail, or gave the page.                                *)
HonestSuccess == \A r \in Req : (told[r] = [err |-> 0]) => r \in accepted

(* A broadcast goes to nobody but the receivers and departments its        *)
(* request names, under an id that the EQQ service gave for that name,     *)
(* while the timer fills the book under the processors' feet.              *)
Says(items, name, id, n, v) ==
  \E item \in Range(items) :
    HasAll(item, {id, name}) /\ Get(item, name).val = n /\ Get(item, id).val = v

GivenFor(a, id) ==
  \E n \in 1 .. Len(UserList) : Says(Items(UserList[n]), "account", "open_id", a, id)
DeptGivenFor(d, id) == Says(Items(GroupList), "dept_name", "dept_id", d, id)

NoStrangers ==
  \A p \in Proc : thread[p].pc = "post" =>
    /\ \A id \in thread[p].users :
         \E a \in Range(Wanted(thread[p].req).receiver) : GivenFor(a, id)
    /\ \A id \in thread[p].depts :
         \E d \in Range(Wanted(thread[p].req).groups) : DeptGivenFor(d, id)

(* However the queue, the processors and the connection take turns, a      *)
(* request is answered once at most and posted once at most.               *)
OncePerRequest == \A r \in Req : replies[r] <= 1 /\ posts[r] <= 1

(* An account that was found once is found ever after: a failed or a       *)
(* partial answer of the EQQ service takes nobody out of the book.         *)
KnownStaysKnown ==
  [][DOMAIN openid \subseteq DOMAIN openid' /\ DOMAIN eqq_group_id \subseteq DOMAIN eqq_group_id']_vars

Fits(m) == m.size + Growth <= MaxLen
Own(m)  == GetReqHead(m.text).cmd \notin AdminWords

(* As long as the connection holds and every line on it is readable, a     *)
(* request is answered for, if it is not too long for the worker and its   *)
(* cmd is none of the words of the registration protocol: those are        *)
(* swallowed, by the worker as requests or by the router as answers.       *)
Served ==
  []~foul => \A r \in Req :
               (asked[r] # None /\ Fits(asked[r]) /\ Own(asked[r])) ~> (told[r] # None)

(* eqq_mgt.cpp:47: the timer is there to renew the list of open ids.  When *)
(* an answer has been filled in, the book agrees with it.                  *)
RefreshRenews ==
  [][(timer.pc = "users" /\ timer'.pc = "half" /\ timer.rsp = UserList[Len(UserList)])
       => \A item \in Range(Items(timer.rsp)) :
            openid'[Get(item, "account").val] = Get(item, "open_id").val]_vars
=============================================================================
