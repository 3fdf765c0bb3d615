------------------------------ MODULE Processes ------------------------------
(***************************************************************************)
(* The life of a process, router or worker: main brings its parts up one   *)
(* by one from the files an operator writes, the Admin thread waits for    *)
(* SIGUSR2, on which it reads the files again, and for SIGTERM, on which   *)
(* it lets the queue run empty and exits.  Meanwhile the reactors queue    *)
(* requests, the processors take them, and what is taken is answered for   *)
(* some time later: by the processor, or in a router by a worker.          *)
(*                                                                         *)
(* Both signals are blocked from the first lines of main on: one that      *)
(* comes before the Admin thread is there stays pending, and two of a kind *)
(* are one.  Sleeps are left out: between any two steps time may pass.     *)
(***************************************************************************)
EXTENDS ConfMgt

CONSTANTS Main, Side,  \* role -> contents its two files may have
          Ip,
          Loops,       \* 10, the turns of the wait for an empty queue
          Edits,       \* bound: edits of a file by the operator
          Refreshes,   \* bound: SIGUSR2 sent
          Backlog,     \* bound: requests queued; max_queue_size is more
          Hands,       \* bound: requests taken and not yet answered for
          None

ASSUME ProcessesAssumption ==
  /\ Loops \in Nat \ {0} /\ Edits \in Nat /\ Refreshes \in Nat
  /\ Backlog \in Nat /\ Hands \in Nat
  /\ DOMAIN Main = {"router", "worker"} /\ DOMAIN Side = {"router", "worker"}
  /\ \A r \in {"router", "worker"} : \A f \in Main[r] \cup Side[r] : FileTyped(f)
  /\ \A f \in Main["router"] : f.root # "white_list"
  /\ None \notin {"wait", "protocol", "routers", "logsys", "white", "debugger",
                  "unregister", "count", "leave", "force"}

VARIABLES
  role,
  disk,       \* path -> the file there
  edits,      \* edits made
  stage,      \* what main does next, "running", or how the process ended
  signals,    \* pending signals
  sent,       \* SIGUSR2 sent
  admin,      \* where the Admin thread is
  loop,       \* turns it has waited
  debugger,   \* where g_debugger sends to
  queue,      \* addresses of the requests queued
  owed,       \* history: those still queued of the ones that SIGTERM met
  busy,       \* requests taken from the queue and not yet answered for
  guarded,    \* history: the process started with a white list
  passed      \* history: the addresses it has let in then

worldVars == <<role, disk, edits>>
adminVars == <<signals, sent, admin, loop>>
reqVars   == <<queue, owed, busy, passed>>
vars == <<worldVars, conf, stage, adminVars, debugger, reqVars, guarded>>

File(path) == IF path \in DOMAIN disk THEN disk[path] ELSE NoFile

Ended == stage \in {"drained", "forced", "failed", "died"}

ProcessesInit ==
  /\ Init
  /\ role \in {"router", "worker"}
  /\ \E m \in Main[role], s \in Side[role] : disk = [main |-> m, side |-> s]
  /\ edits = 0 /\ stage = "conf"
  /\ signals = {} /\ sent = 0 /\ admin = None /\ loop = 0
  /\ debugger = None /\ queue = << >> /\ owed = 0 /\ busy = 0
  /\ guarded = FALSE /\ passed = {}

-----------------------------------------------------------------------------
(* main.                                                                   *)

Unmoved == UNCHANGED <<worldVars, adminVars, reqVars>>

(* Any part may refuse to come up; then main returns.                      *)
Fail ==
  /\ stage \notin {"conf", "running"} /\ ~Ended
  /\ stage' = "failed"
  /\ UNCHANGED <<conf, debugger, guarded>> /\ Unmoved

StartConf ==
  /\ stage = "conf"
  /\ \/ /\ \E stale \in BOOLEAN :
             \/ role = "router"
                /\ InitRouter("main", File("main"),
                              IF "white_list" \in DOMAIN File("main")
                              THEN File(File("main").white_list) ELSE NoFile, stale)
             \/ role = "worker" /\ InitWorker("main", File("main"), stale)
        /\ stage' = "logger"
     \/ /\ ~(IF role = "router" THEN RouterFileOk(File("main"))
             ELSE WorkerFileOk(File("main")))
        /\ stage' = "failed" /\ UNCHANGED conf
  /\ guarded' = (conf'.white_list # {})
  /\ UNCHANGED <<debugger>> /\ Unmoved

(* What the debugger is told of the configuration.                         *)
Logsys == [svr |-> conf.logsys, category |-> conf.category, regional |-> conf.regional]

StartLogger ==
  /\ stage = "logger"
  /\ debugger' = IF conf.logsys # << >> THEN Logsys ELSE debugger
  /\ stage' = IF role = "router" THEN "processors" ELSE "service"
  /\ UNCHANGED <<conf, guarded>> /\ Unmoved

(* The service object of the plug-in reads its own file.                   *)
StartService ==
  /\ stage = "service" /\ conf.conf # ""
  /\ \/ conf.plug_in = "standard" /\ InitServiceProtocol(conf.conf, File(conf.conf))
     \/ conf.plug_in = "notification" /\ InitNotificationCfg(File(conf.conf))
  /\ stage' = "processors"
  /\ UNCHANGED <<debugger, guarded>> /\ Unmoved

StartProcessors ==
  /\ stage = "processors" /\ stage' = "admin"
  /\ UNCHANGED <<conf, debugger, guarded>> /\ Unmoved

StartAdmin ==
  /\ stage = "admin"
  /\ admin' = "wait" /\ stage' = IF role = "router" THEN "front" ELSE "conns"
  /\ UNCHANGED <<worldVars, conf, signals, sent, loop, debugger, reqVars, guarded>>

(* The reactor for front ends is there before it listens.                  *)
MakeFront ==
  /\ stage = "front" /\ stage' = "listen"
  /\ UNCHANGED <<conf, debugger, guarded>> /\ Unmoved
StartFront ==
  /\ stage = "listen" /\ stage' = "back"
  /\ UNCHANGED <<conf, debugger, guarded>> /\ Unmoved

(* In a worker, the connections to the routers are opened, and the timer   *)
(* that looks after them is there before it runs.                          *)
MakeTimer ==
  /\ stage = "conns" /\ stage' = "timer"
  /\ UNCHANGED <<conf, debugger, guarded>> /\ Unmoved

(* The reactor for workers; in a worker, the timer's thread.               *)
StartBack ==
  /\ stage \in {"back", "timer"} /\ stage' = "running"
  /\ UNCHANGED <<conf, debugger, guarded>> /\ Unmoved

MainThread == \/ StartConf \/ StartLogger \/ StartService \/ StartProcessors
              \/ StartAdmin \/ MakeFront \/ StartFront \/ MakeTimer
              \/ StartBack \/ Fail

-----------------------------------------------------------------------------
(* The Admin thread.                                                       *)

Refreshing == UNCHANGED <<worldVars, stage, signals, sent, loop, reqVars, guarded>>

TakeUsr2 ==
  /\ admin = "wait" /\ "USR2" \in signals /\ ~Ended
  /\ signals' = signals \ {"USR2"}
  /\ admin' = IF role = "router" THEN "logsys" ELSE "protocol"
  /\ UNCHANGED <<worldVars, conf, stage, sent, loop, debugger, reqVars, guarded>>

AdminProtocol ==
  /\ admin = "protocol" /\ ~Ended
  /\ RefreshServiceProtocol(File(conf.cfg_service_protocol))
  /\ admin' = "routers" /\ UNCHANGED debugger /\ Refreshing

(* Nobody tells the connections of the new list.                           *)
AdminRouters ==
  /\ admin = "routers" /\ ~Ended
  /\ RefreshRouters(File(conf.cfg_worker))
  /\ admin' = "logsys" /\ UNCHANGED debugger /\ Refreshing

AdminLogsys ==
  /\ admin = "logsys" /\ ~Ended
  /\ RefreshLogsys(File(conf.cfg_router), "dip_" \o role)
  /\ admin' = IF role = "router" THEN "white" ELSE "debugger"
  /\ UNCHANGED debugger /\ Refreshing

AdminWhiteList ==
  /\ admin = "white" /\ ~Ended
  /\ RefreshWhiteList(File(conf.cfg_white_list))
  /\ admin' = "debugger" /\ UNCHANGED debugger /\ Refreshing

(* It may be refused, and is without effect then.                          *)
AdminDebugger ==
  /\ admin = "debugger" /\ ~Ended
  /\ debugger' \in {debugger, IF conf.logsys # << >> THEN Logsys ELSE debugger}
  /\ admin' = "wait" /\ UNCHANGED conf /\ Refreshing

(* SIGTERM.  A router stops to listen, if its reactor is there: before,    *)
(* main.cpp:28 has left NULL; while it is about to listen, there is        *)
(* nothing to stop.  A worker stops the timer that init creates, which     *)
(* takes no notice while it is not running yet.                            *)
TakeTerm ==
  /\ admin = "wait" /\ "TERM" \in signals /\ ~Ended
  /\ signals' = signals \ {"TERM"}
  /\ IF stage \in {"front", "conns"}
     THEN stage' = "died" /\ UNCHANGED <<admin, owed>>
     ELSE /\ admin' = IF role = "router" THEN "count" ELSE "unregister"
          /\ owed' = Len(queue)
          /\ UNCHANGED stage
  /\ UNCHANGED <<worldVars, conf, sent, loop, debugger, queue, busy, passed, guarded>>

Leaving == UNCHANGED <<worldVars, conf, signals, sent, debugger, reqVars, guarded>>

(* unregister_workers; what becomes of it is told in Registration.         *)
UnregisterWorkers ==
  /\ admin = "unregister" /\ ~Ended
  /\ admin' = "count" /\ UNCHANGED <<loop, stage>> /\ Leaving

(* Mutant: one request left counts as none.                                *)
AlmostEmpty == Len(queue) <= 1

QueueEmpty == queue = << >>

(* Mutant: one turn too many.                                              *)
OneTurnMore == loop <= Loops

TurnsLeft == loop < Loops

(* Mutant: the turns are not counted.                                      *)
WaitOn == loop' = loop

Turn == loop' = loop + 1

(* count() is looked at once in a turn, and not again before the exit.     *)
CountRequests ==
  /\ admin = "count" /\ ~Ended
  /\ \/ TurnsLeft /\ QueueEmpty /\ admin' = "leave" /\ Turn
     \/ TurnsLeft /\ ~QueueEmpty /\ Turn /\ UNCHANGED admin
     \/ ~TurnsLeft /\ admin' = "force" /\ UNCHANGED loop
  /\ UNCHANGED stage /\ Leaving

Exit ==
  /\ admin \in {"leave", "force"} /\ ~Ended
  /\ stage' = IF admin = "leave" THEN "drained" ELSE "forced"
  /\ UNCHANGED <<admin, loop>> /\ Leaving

AdminThread ==
  \/ TakeUsr2 \/ AdminProtocol \/ AdminRouters \/ AdminLogsys \/ AdminWhiteList
  \/ AdminDebugger \/ TakeTerm \/ UnregisterWorkers \/ CountRequests \/ Exit

-----------------------------------------------------------------------------
(* The reactors and the processors.                                        *)

Serving == UNCHANGED <<worldVars, conf, stage, adminVars, debugger, guarded>>

(* What a front end or, in a worker, a router sends.  Front ends have      *)
(* connected while the port was open; SIGTERM closes the port and leaves   *)
(* their connections, so that requests go on coming.                       *)
Asker == IF role = "router" THEN Ip ELSE {"router"}

Arrives(ip) ==
  /\ stage \in {"back", "conns", "timer", "running"} /\ Len(queue) < Backlog
  /\ queue' = Append(queue, ip)
  /\ UNCHANGED <<owed, busy, passed>> /\ Serving

LetIn(ip) == conf.white_list = {} \/ ip \in conf.white_list

(* Processor::svc takes a request, and a router looks at the white list.   *)
(* Without threads nobody comes; a thread of a worker is held until it has *)
(* answered, one of a router not by the requests that wait for a worker.   *)
Take ==
  /\ ~Ended /\ queue # << >> /\ conf.thr_num # 0
  /\ busy < Hands /\ (role = "worker" => busy < conf.thr_num)
  /\ queue' = Tail(queue)
  /\ busy' = busy + 1
  /\ owed' = IF owed > 0 THEN owed - 1 ELSE 0
  /\ passed' = IF guarded /\ LetIn(Head(queue)) THEN passed \cup {Head(queue)} ELSE passed
  /\ Serving

(* One that was taken is answered for, in any order; nobody sees to it     *)
(* that it ever is.                                                        *)
Finish ==
  /\ ~Ended /\ busy > 0
  /\ busy' = busy - 1
  /\ UNCHANGED <<queue, owed, passed>> /\ Serving

-----------------------------------------------------------------------------
(* The operator.                                                           *)
Signal(s) ==
  /\ ~Ended /\ (s = "USR2" => sent < Refreshes)
  /\ signals' = signals \cup {s}
  /\ sent' = IF s = "USR2" THEN sent + 1 ELSE sent
  /\ UNCHANGED <<worldVars, conf, stage, admin, loop, debugger, reqVars, guarded>>

Edit ==
  /\ ~Ended /\ edits < Edits /\ edits' = edits + 1
  /\ \/ \E m \in Main[role] : disk' = [disk EXCEPT !.main = m]
     \/ \E s \in Side[role] : disk' = [disk EXCEPT !.side = s]
  /\ UNCHANGED <<role, conf, stage, adminVars, debugger, reqVars, guarded>>

Next ==
  \/ MainThread \/ AdminThread
  \/ \E ip \in Asker : Arrives(ip)
  \/ Take \/ Finish
  \/ \E s \in {"USR2", "TERM"} : Signal(s)
  \/ Edit

(* No part takes for ever to come up, and the Admin thread gets its turns. *)
FairSpec == ProcessesInit /\ [][Next]_vars /\ WF_vars(MainThread) /\ WF_vars(AdminThread)

-----------------------------------------------------------------------------
(* Every variable holds a value of its type.                               *)
TypeOK ==
  /\ stage \in {"conf", "logger", "service", "processors", "admin", "front", "listen",
                "back", "conns", "timer", "running", "drained", "forced", "failed", "died"}
  /\ signals \subseteq {"USR2", "TERM"} /\ sent \in 0 .. Refreshes /\ loop \in 0 .. Loops
  /\ admin \in {None, "wait", "protocol", "routers", "logsys", "white", "debugger",
                "unregister", "count", "leave", "force"}
  /\ passed \subseteq Ip /\ queue \in Seq(Asker) /\ owed \in 0 .. Len(queue)
  /\ busy \in 0 .. Hands

(* What belongs together in a file is in force together: servers, category *)
(* and region of the log system, in the configuration and in the debugger, *)
(* and the key and the protocols of the service come from one file, which  *)
(* was good, however many bad editions the refreshes have met.             *)
SameLogsys(l, f) ==
  /\ l.category = f.logsys.category
  /\ l.regional = OrIfEmpty(f.logsys.regional, "LOCAL") /\ l.svr = f.logsys.svr

OneVersion ==
  /\ conf.id # "" => \E f \in Main[role] : LogsysOk(f) /\ SameLogsys(Logsys, f)
  /\ debugger # None => \E f \in Main[role] : LogsysOk(f) /\ SameLogsys(debugger, f)
  /\ conf.protocols # << >> =>
       \E f \in Main[role] \cup Side[role] :
         /\ ProtocolsOk(f, GlobalKey(f)) /\ conf.key = GlobalKey(f)
         /\ conf.protocols = ProtocolMap(f, conf.key)

(* A router that was given a white list lets nobody in whom no edition of  *)
(* the list names: no refresh that fails half way opens the door.          *)
OnlyListed ==
  guarded => passed \subseteq UNION {Listed(w) : w \in Side["router"]}

(* Whatever elements a file lacks and whatever refreshes find, a process   *)
(* past its configuration has what the rest of the code takes for granted: *)
(* a router gives no worker up before its first failure and queues         *)
(* requests; a worker has a router, a protocol for what it gets, and a key *)
(* to sign with.                                                           *)
RunningIsConfigured ==
  stage \notin {"conf", "failed"} =>
    /\ conf.id # "" /\ conf.category # "" /\ conf.max_queue_size >= MinQueue
    /\ role = "router" =>
         /\ conf.req_port # 0
         /\ conf.unregister_failed_num > 0 /\ conf.unregister_timeout_num > 0
    /\ role = "worker" =>
         /\ conf.group_id # "" /\ conf.service_id # ""
         /\ conf.routers # << >> /\ ServersOk(conf.routers)
         /\ (conf.plug_in = "standard" /\ stage \notin {"logger", "service"}) =>
              /\ conf.protocols # << >>
              /\ \A c \in DOMAIN conf.protocols : conf.protocols[c].key # ""

(* Who leaves because the queue is empty has left none of the requests     *)
(* queued that were queued when SIGTERM came, whatever has come since: the *)
(* processors have taken them all.  Whether they have been answered nobody *)
(* looks: the exit comes however busy the processors are.                  *)
OrderlyDrain == stage = "drained" => owed = 0

(* SIGTERM ends the process, whenever it comes: while main still starts,   *)
(* during a refresh, and with requests that keep coming.                   *)
TermEnds == "TERM" \in signals ~> Ended
=============================================================================
