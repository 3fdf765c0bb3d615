---------------------------- MODULE Registration ----------------------------
(***************************************************************************)
(* How a worker gets into a router's registry, stays there and leaves it:  *)
(* the worker's connection manager (worker/conn_mgt.cpp, conn.cpp), its    *)
(* client thread (worker/req_event_handler.cpp), its way out (worker/      *)
(* admin.cpp), the two byte streams of each connection, and the router's   *)
(* reactor for workers with the registry WorkerMgt behind it.              *)
(*                                                                         *)
(* A worker process lives once; a restart is a new life with the same id.  *)
(* There is one router, which may crash and start again.  A connection is  *)
(* a name used once, <<life, number>>.  No request is sent here (module    *)
(* Router does that), so only the two reactors close connections.          *)
(***************************************************************************)
EXTENDS Integers, SequencesExt

CONSTANTS Life,           \* the lives of worker processes, in their order
          IdOf, GroupOf,  \* Life -> the id and the group of its cfg file
          WorkerId, GroupId, Fd,
          Mortal,         \* the lives that may be killed
          Sent,           \* how much of an answer may reach the wire
          RouterCrashes,  \* bound: crashes of the router
          MaxConn,        \* bound: connections a life opens
          MaxWire,        \* bound: frames on one wire
          None

Conn == Life \X (1 .. MaxConn)

(* Mutant: _fd is not filled in.                                           *)
WorkerWithoutFd(c, f) == [id |-> IdOf[c[1]], fd |-> None, group |-> GroupOf[c[1]], conn |-> c]

(* The Worker object of connection c, accepted on descriptor f.            *)
WorkerOf(c, f) == [id |-> IdOf[c[1]], fd |-> f, group |-> GroupOf[c[1]], conn |-> c]
Worker == {WorkerOf(c, f) : c \in Conn, f \in Fd}

ASSUME LivesInOrder == Life \subseteq Nat

ASSUME RegistrationAssumption ==
  /\ IdOf \in [Life -> WorkerId] /\ GroupOf \in [Life -> GroupId]
  /\ None \notin Conn /\ None \notin Worker
  /\ Mortal \subseteq Life
  /\ Sent \subseteq {"all", "part", "nothing"}
  /\ RouterCrashes \in Nat /\ MaxConn \in Nat /\ MaxWire \in Nat

VARIABLES
  life,        \* Life -> where the process is on its way
  link,        \* Life -> the number of XConn's present connection, 0: none yet
  registered,  \* Life -> XConn::_registered
  leftover,    \* Life -> Req_Event_Handler::_buf holds the start of a line
  begun,       \* Life -> what a line begun and not ended makes of the next
  ends,        \* Conn -> the ends that hold it open
  toRouter,    \* Conn -> the commands on the way to the router
  toWorker,    \* Conn -> the answers on the way to the worker
  running,     \* the router runs
  crashes,     \* the times it crashed
  sock,        \* Fd -> the connection a descriptor of the router denotes
  fds, workers, groups  \* WorkerMgt

procVars   == <<life, link, registered, leftover, begun>>
wireVars   == <<ends, toRouter, toWorker>>
mgtVars    == <<fds, workers, groups>>
routerVars == <<running, crashes, sock>>
vars == <<procVars, wireVars, routerVars, mgtVars>>

Mgt == INSTANCE WorkerMgt WITH NoWorker <- None

Present(l)  == <<l, link[l]>>
IsClosed(l) == link[l] > 0 => "worker" \notin ends[Present(l)]
Runs(l)     == life[l] \in {"up", "stopping", "unregistered", "unheard"}

(* The router closes nothing of its own accord: a connection breaks when   *)
(* an end dies, or in the network, which this bound keeps from using up    *)
(* the connections a life needs to outlive the crashes to come.            *)
MayBreak(l) == link[l] + RouterCrashes - crashes < MaxConn

Init ==
  /\ life = [l \in Life |-> "new"]
  /\ link = [l \in Life |-> 0]
  /\ registered = [l \in Life |-> FALSE]
  /\ leftover = [l \in Life |-> FALSE]
  /\ begun = [l \in Life |-> "none"]
  /\ ends = [c \in Conn |-> {}]
  /\ toRouter = [c \in Conn |-> << >>]
  /\ toWorker = [c \in Conn |-> << >>]
  /\ running = TRUE /\ crashes = 0
  /\ sock = [f \in Fd |-> None]
  /\ Mgt!Init

-----------------------------------------------------------------------------
(* The worker's connection manager.                                        *)

(* Mutant: the flag of the connection before is kept.                      *)
ConnectKeepingFlag(l) ==
  /\ \/ /\ running /\ link[l] < MaxConn
        /\ link' = [link EXCEPT ![l] = @ + 1]
        /\ ends' = [ends EXCEPT ![<<l, link[l] + 1>>] = {"worker", "router"}]
        /\ toWorker' = [c \in Conn |-> IF c[1] = l THEN << >> ELSE toWorker[c]]
     \/ ~running /\ UNCHANGED <<link, ends, toWorker>>
  /\ UNCHANGED <<registered, leftover, begun, toRouter, routerVars, mgtVars>>

(* XConn::connect on a closed client.  The line buffer belongs to the      *)
(* handler, which outlives the connection; what was received before and    *)
(* not looked at is lost.                                                  *)
Connect(l) ==
  /\ registered' = [registered EXCEPT ![l] = FALSE]
  /\ \/ /\ running /\ link[l] < MaxConn
        /\ link' = [link EXCEPT ![l] = @ + 1]
        /\ ends' = [ends EXCEPT ![<<l, link[l] + 1>>] = {"worker", "router"}]
        /\ toWorker' = [c \in Conn |-> IF c[1] = l THEN << >> ELSE toWorker[c]]
     \/ ~running /\ UNCHANGED <<link, ends, toWorker>>
  /\ UNCHANGED <<leftover, begun, toRouter, routerVars, mgtVars>>

(* XConn_Mgt::init: refresh connects, then the timer starts.  Two processes *)
(* with one id at a time would be a fault of their cfg files: a life       *)
(* follows the end of the one before.                                      *)
Alone(l) ==
  \A m \in Life \ {l} :
    IdOf[m] = IdOf[l] => life[m] = IF m < l THEN "exited" ELSE "new"

Start(l) ==
  /\ life[l] = "new" /\ Alone(l)
  /\ life' = [life EXCEPT ![l] = "up"]
  /\ Connect(l)

(* A send the kernel accepts.  With the router's end gone it leads nowhere *)
(* until the reset comes back.                                             *)
Put(c, cmd) ==
  IF "router" \in ends[c]
  THEN /\ Len(toRouter[c]) < MaxWire
       /\ toRouter' = [toRouter EXCEPT ![c] = Append(@, cmd)]
  ELSE UNCHANGED toRouter

(* A send that succeeds.  A line begun before swallows this one.           *)
SendLine(l, cmd) ==
  /\ Put(Present(l), IF begun[l] = "none" THEN cmd ELSE begun[l])
  /\ begun' = [begun EXCEPT ![l] = "none"]

(* A send that fails, on a connection nobody closes for it: nothing went   *)
(* out, or the start of the line, which spoils the next, or all but its    *)
(* end, which the router will find before the next and act upon.           *)
Ignored(l, cmd) ==
  /\ \E rest \in IF begun[l] = "none" THEN {"none", "null", cmd} ELSE {begun[l]} :
       begun' = [begun EXCEPT ![l] = rest]
  /\ UNCHANGED toRouter

(* The worker's end is closed: what was sent arrives up to some point, and *)
(* of what was received the first keep frames are still looked at.         *)
CloseEnd(c, keep) ==
  /\ begun' = [begun EXCEPT ![c[1]] = "none"]
  /\ ends' = [ends EXCEPT ![c] = @ \ {"worker"}]
  /\ \E n \in 0 .. Len(toRouter[c]) :
       toRouter' = [toRouter EXCEPT ![c] = SubSeq(@, 1, n)]
  /\ \E n \in 0 .. keep :
       /\ n <= Len(toWorker[c])
       /\ toWorker' = [toWorker EXCEPT ![c] = SubSeq(@, 1, n)]

(* XConn::close after a failed send.  The client thread may be busy with a *)
(* line, which it finishes before the next check opens a new connection.   *)
Close(l) ==
  /\ CloseEnd(Present(l), 1)
  /\ registered' = [registered EXCEPT ![l] = FALSE]
  /\ UNCHANGED <<link, leftover, routerVars, mgtVars>>

(* Mutant: the timer runs on after stop_check.                             *)
TimerNeverStops(l) == Runs(l)

TimerRuns(l) == life[l] = "up"

(* XConn_Mgt::check, every 5 seconds, whole under the manager's mutex.     *)
Check(l) ==
  /\ TimerRuns(l)
  /\ \/ IsClosed(l) /\ Connect(l)
     \/ /\ ~IsClosed(l)
        /\ SendLine(l, IF registered[l] THEN "hb" ELSE "register")
        /\ UNCHANGED <<link, registered, leftover, ends, toWorker, routerVars, mgtVars>>
     \/ /\ ~IsClosed(l)
        /\ "router" \notin ends[Present(l)] \/ MayBreak(l)
        /\ Close(l)
  /\ UNCHANGED life

-----------------------------------------------------------------------------
(* The worker's client thread.                                             *)

(* Mutant: the error code of the answer is not looked at.                  *)
FlagBlindly(l, err) == TRUE

(* What a readable answer to register makes of _registered.                *)
Flag(l, err) == registered[l] \/ err = Mgt!OK

(* Req_Event_Handler::handle_input.  The start of a line is kept; what     *)
(* comes next is glued to it, makes a line that has no admin head, and is  *)
(* answered with "null" for cmd and ids.  What becomes of that answer      *)
(* nobody asks: Msg_Oper::send_msg drops the result of the send.           *)
ClientInput(l) ==
  LET c == Present(l) IN
  /\ Runs(l) /\ link[l] > 0 /\ toWorker[c] # << >>
  /\ toWorker' = [toWorker EXCEPT ![c] = Tail(@)]
  /\ leftover' = [leftover EXCEPT ![l] = ~Head(toWorker[c]).whole]
  /\ IF leftover[l] \/ ~Head(toWorker[c]).whole
     THEN UNCHANGED registered
     ELSE registered' = [registered EXCEPT ![l] = Flag(l, Head(toWorker[c]).err)]
  /\ IF leftover[l] /\ Head(toWorker[c]).whole /\ ~IsClosed(l)
     THEN SendLine(l, "null") \/ Ignored(l, "null")
     ELSE UNCHANGED <<toRouter, begun>>
  /\ UNCHANGED <<life, link, ends, routerVars, mgtVars>>

(* handle_close finds its connection by the peer's address; when that can  *)
(* no longer be asked for, the flag stays.                                 *)
HandleClose(l) ==
  /\ Runs(l) /\ ~IsClosed(l)
  /\ CloseEnd(Present(l), 0)
  /\ \/ registered' = [registered EXCEPT ![l] = FALSE]
     \/ UNCHANGED registered
  /\ UNCHANGED <<life, link, leftover, routerVars, mgtVars>>

(* recv reports the end of the stream, or an error of the network.         *)
ClientEof(l) ==
  /\ link[l] > 0
  /\ "router" \notin ends[Present(l)] /\ toWorker[Present(l)] = << >>
  /\ HandleClose(l)
ClientError(l) == MayBreak(l) /\ HandleClose(l)

-----------------------------------------------------------------------------
(* The worker's Admin thread on SIGTERM, in three steps with pauses.       *)

(* stop_check.                                                             *)
Terminate(l) ==
  /\ life[l] = "up"
  /\ life' = [life EXCEPT ![l] = "stopping"]
  /\ UNCHANGED <<link, registered, leftover, begun, wireVars, routerVars, mgtVars>>

(* unregister_workers; the flag is neither asked nor changed, nor is the   *)
(* result of the send.  Whether the line goes out whole makes no           *)
(* difference to the worker: "unheard" tells it apart for the properties.  *)
Unregister(l) ==
  /\ life[l] = "stopping"
  /\ \/ /\ IsClosed(l)
        /\ life' = [life EXCEPT ![l] = "unregistered"]
        /\ UNCHANGED <<toRouter, begun>>
     \/ /\ ~IsClosed(l) /\ begun[l] = "none"
        /\ life' = [life EXCEPT ![l] = "unregistered"]
        /\ SendLine(l, "unregister")
     \/ /\ ~IsClosed(l)
        /\ life' = [life EXCEPT ![l] = "unheard"]
        /\ \/ begun[l] # "none" /\ SendLine(l, "unregister")
           \/ Ignored(l, "unregister")
  /\ UNCHANGED <<link, registered, leftover, ends, toWorker, routerVars, mgtVars>>

(* The process ends, its memory is gone and the kernel closes its sockets. *)
Leave(l) ==
  /\ life' = [life EXCEPT ![l] = "exited"]
  /\ registered' = [registered EXCEPT ![l] = FALSE]
  /\ leftover' = [leftover EXCEPT ![l] = FALSE]
  /\ IF IsClosed(l) THEN UNCHANGED <<wireVars, begun>> ELSE CloseEnd(Present(l), 0)
  /\ UNCHANGED <<link, routerVars, mgtVars>>

Exit(l)  == life[l] \in {"unregistered", "unheard"} /\ Leave(l)
Crash(l) == (l \in Mortal /\ Runs(l)) /\ Leave(l)

-----------------------------------------------------------------------------
(* The router's reactor for workers.                                       *)

(* handle_accept takes note of nothing; the kernel chooses the descriptor. *)
Accept(f, c) ==
  /\ running /\ sock[f] = None
  /\ "router" \in ends[c] /\ \A g \in Fd : sock[g] # c
  /\ sock' = [sock EXCEPT ![f] = c]
  /\ UNCHANGED <<procVars, wireVars, running, crashes, mgtVars>>

(* handle_input takes the next line of connection c, read on f.            *)
Reads(f, c, cmd) ==
  /\ c = sock[f] /\ c # None
  /\ toRouter[c] # << >> /\ Head(toRouter[c]) = cmd
  /\ toRouter' = [toRouter EXCEPT ![c] = Tail(@)]

(* Worker::send_rsp on a connection whose worker may be gone or not read.  *)
(* A new Worker answers once, which reaches no limit on failed sends.      *)
Answer(c, err) ==
  \E sent \in Sent :
    IF sent = "nothing" \/ "worker" \notin ends[c] \/ Len(toWorker[c]) = MaxWire
    THEN UNCHANGED toWorker
    ELSE toWorker' = [toWorker EXCEPT ![c] =
                        Append(@, [err |-> err, whole |-> sent = "all"])]

(* The peer's address can be asked for as long as the worker has its end.  *)
(* A configured worker's register lacks nothing.                           *)
RecvRegister(f, c) ==
  /\ Reads(f, c, "register")
  /\ \/ \E ret \in {Mgt!OK, Mgt!ERR_WORKER_REGISTERED, Mgt!ERR_FD_EXISTS} :
          Mgt!RegisterWorker(WorkerOf(c, f), ret) /\ Answer(c, ret)
     \/ "worker" \notin ends[c] /\ UNCHANGED <<toWorker, mgtVars>>
  /\ UNCHANGED <<procVars, ends, routerVars>>

(* The worker registered on the descriptor goes, whatever id the line has. *)
RecvUnregister(f, c) ==
  /\ Reads(f, c, "unregister")
  /\ Mgt!UnregisterWorker(f)
  /\ UNCHANGED <<procVars, ends, toWorker, routerVars>>

(* A heartbeat is not answered and nothing is noted of it; "null" is taken *)
(* for the answer to a request nobody made.                                *)
RecvOther(f, c) ==
  /\ Reads(f, c, "hb") \/ Reads(f, c, "null")
  /\ UNCHANGED <<procVars, ends, toWorker, routerVars, mgtVars>>

(* Mutant: handle_close leaves the registry alone.                         *)
HangupLeavingEntry(f, c) ==
  /\ c = sock[f] /\ c # None
  /\ "worker" \notin ends[c] /\ toRouter[c] = << >>
  /\ sock' = [sock EXCEPT ![f] = None]
  /\ ends' = [ends EXCEPT ![c] = @ \ {"router"}]
  /\ UNCHANGED <<procVars, toRouter, toWorker, running, crashes, mgtVars>>

(* recv reports the end: handle_close unregisters, the reactor closes.     *)
Hangup(f, c) ==
  /\ c = sock[f] /\ c # None
  /\ "worker" \notin ends[c] /\ toRouter[c] = << >>
  /\ Mgt!UnregisterWorker(f)
  /\ sock' = [sock EXCEPT ![f] = None]
  /\ ends' = [ends EXCEPT ![c] = @ \ {"router"}]
  /\ UNCHANGED <<procVars, toRouter, toWorker, running, crashes>>

Reactor(f) == \E c \in Conn : \/ RecvRegister(f, c) \/ RecvUnregister(f, c)
                              \/ RecvOther(f, c) \/ Hangup(f, c)

(* The router dies with its registry.  Its workers get what it had sent,   *)
(* unless the reset overtakes it.                                          *)
RouterCrash ==
  /\ running /\ crashes < RouterCrashes
  /\ running' = FALSE /\ crashes' = crashes + 1
  /\ sock' = [f \in Fd |-> None]
  /\ fds' = << >> /\ workers' = {} /\ groups' = << >>
  /\ ends' = [c \in Conn |-> ends[c] \ {"router"}]
  /\ toRouter' = [c \in Conn |-> << >>]
  /\ \/ UNCHANGED toWorker
     \/ toWorker' = [c \in Conn |-> << >>]
  /\ UNCHANGED procVars

RouterStart ==
  /\ ~running /\ running' = TRUE
  /\ UNCHANGED <<procVars, wireVars, crashes, sock, mgtVars>>

-----------------------------------------------------------------------------
Next ==
  \/ \E l \in Life : \/ Start(l) \/ Check(l) \/ Terminate(l) \/ Unregister(l)
                     \/ Exit(l) \/ Crash(l)
                     \/ ClientInput(l) \/ ClientEof(l) \/ ClientError(l)
  \/ \E f \in Fd, c \in Conn : Accept(f, c)
  \/ \E f \in Fd : Reactor(f)
  \/ RouterCrash \/ RouterStart

Spec == Init /\ [][Next]_vars

(* The timer ticks, the threads run and the kernel wakes them; nothing is  *)
(* assumed of starts, signals, crashes and the network.                    *)
Fairness ==
  /\ \A l \in Life : /\ WF_vars(Check(l))
                     /\ WF_vars(ClientInput(l) \/ ClientEof(l))
                     /\ WF_vars(Unregister(l)) /\ WF_vars(Exit(l))
  /\ WF_vars(\E f \in Fd, c \in Conn : Accept(f, c))
  /\ \A f \in Fd : WF_vars(Reactor(f))

FairSpec == Spec /\ Fairness

-----------------------------------------------------------------------------
(* Every variable holds a value of its type.                               *)
TypeOK ==
  /\ life \in [Life -> {"new", "up", "stopping", "unregistered", "unheard", "exited"}]
  /\ link \in [Life -> 0 .. MaxConn]
  /\ registered \in [Life -> BOOLEAN]
  /\ leftover \in [Life -> BOOLEAN]
  /\ begun \in [Life -> {"none", "null", "unregister"}]
  /\ ends \in [Conn -> SUBSET {"worker", "router"}]
  /\ toRouter \in [Conn -> Seq({"register", "hb", "null", "unregister"})]
  /\ toWorker \in [Conn -> Seq([err : Int, whole : BOOLEAN])]
  /\ running \in BOOLEAN /\ crashes \in 0 .. RouterCrashes
  /\ sock \in [Fd -> Conn \cup {None}]
  /\ Mgt!TypeOK

(* The registry lists connection c under the descriptor that denotes it.   *)
Entry(c) == \E f \in DOMAIN fds : sock[f] = c /\ fds[f].conn = c

Registered(l) == \E f \in DOMAIN fds : fds[f].conn[1] = l

(* XConn::_registered tells the truth: while it is set, the connection is  *)
(* whole and the process has not unregistered, the router can choose this  *)
(* worker.  A worker that believed so wrongly would send heartbeats, which *)
(* the router ignores, and never register again.                           *)
FlagMeansEntry ==
  \A l \in Life :
    (/\ life[l] \in {"up", "stopping"} /\ registered[l]
     /\ link[l] > 0 /\ ends[Present(l)] = {"worker", "router"})
    => Entry(Present(l))

(* Once the router has read all that a worker sent it that got its whole   *)
(* unregister out, that worker is in the registry no more: no check comes  *)
(* after unregister to put it back (worker/admin.cpp:118), and no answer   *)
(* begun and cut before spoils the line.                                   *)
DrainedIsGone ==
  \A l \in Life :
    (/\ life[l] = "unregistered" /\ link[l] > 0
     /\ ends[Present(l)] = {"worker", "router"} /\ toRouter[Present(l)] = << >>)
    => ~Entry(Present(l))

(* What worker/admin.cpp:123 says of SIGTERM, all workers are unregistered *)
(* before the pause: once the router has read all there is, a worker past  *)
(* unregister_workers is in the registry no more.  It fails: the send may  *)
(* fail, and conn_mgt.cpp:211 goes on without a look at its result.        *)
UnregisteredIsGone ==
  \A l \in Life :
    (/\ life[l] \in {"unregistered", "unheard"} /\ link[l] > 0
     /\ ends[Present(l)] = {"worker", "router"} /\ toRouter[Present(l)] = << >>)
    => ~Entry(Present(l))

(* A worker that runs for good beside a router that runs for good is in    *)
(* the registry for good: whatever was refused, lost or broken before, by  *)
(* it or by the life it replaces, is made up for.                          *)
ServiceRecovers ==
  \A l \in Life : <>[](life[l] = "up" /\ running) => <>[]Registered(l)

(* A process that has ended drops out of the registry.                     *)
TheDeadAreForgotten ==
  \A l \in Life : (life[l] = "exited") ~> ~Registered(l)

(* The registry as its users see it.  Whoever is gone for good has left no *)
(* entry, and no register that the router may still read.                  *)
Gone(l) ==
  /\ life[l] \in {"unregistered", "unheard", "exited"}
  /\ ~Registered(l)
  /\ \A n \in 1 .. MaxConn : "register" \notin Range(toRouter[<<l, n>>])

M == INSTANCE Membership WITH
       members  <- {l \in Life : Registered(l)},
       departed <- {l \in Life : Gone(l)}

(* The threads, wires and crashes together keep the promise of Membership. *)
ImplementsMembership == M!Spec
=============================================================================
