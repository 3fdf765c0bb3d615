-------------------------- MODULE Processes_proofs --------------------------
(***************************************************************************)
(* Whatever files the operator writes, and however many refreshes read     *)
(* them: a router that was given a white list lets nobody in whom no       *)
(* edition of the list names.  However many requests keep coming, and      *)
(* however long the wait is: a process that leaves because the queue is    *)
(* empty leaves nothing queued of what SIGTERM met there.                  *)
(***************************************************************************)
EXTENDS Processes, SequenceTheorems, WellFoundedInduction, TLAPS

(* Who is named by some edition of the white list.                         *)
Named == UNION {Listed(w) : w \in Side["router"]}

(* The files of a router are a router's.                                   *)
Files ==
  /\ role \in {"router", "worker"}
  /\ DOMAIN disk = {"main", "side"}
  /\ disk["main"] \in Main[role] /\ disk["side"] \in Side[role]

(* The list in force names only whom an edition names.  Only a router has  *)
(* one, and who started with one has one ever after.                       *)
Lists ==
  /\ "white_list" \in DOMAIN conf
  /\ conf.white_list \subseteq Named
  /\ role = "worker" => conf.white_list = {}
  /\ guarded \in BOOLEAN
  /\ guarded => conf.white_list # {}
  /\ passed \subseteq Named
  /\ admin = "white" => role = "router"

(* What SIGTERM met is at the head of the queue, and nothing of it is left *)
(* once the Admin thread has seen the queue empty.                         *)
Drains ==
  /\ admin = "leave" => owed = 0
  /\ stage = "drained" => owed = 0

IInv == Files /\ TypeOK /\ Lists /\ Drains

-----------------------------------------------------------------------------
(* Helpers.                                                                *)

(* Whatever path is read, what it lists is named by an edition of the      *)
(* white list.                                                             *)
LEMMA ReadLists ==
  ASSUME Files, role = "router", NEW path
  PROVE  Listed(File(path)) \subseteq Named
<1>1. CASE path = "side"
  BY <1>1 DEF File, Files, Named
<1>2. CASE path = "main"
  <2>1. File(path) \in Main["router"]
    BY <1>2 DEF File, Files
  <2>. QED BY <2>1, ProcessesAssumption DEF Listed
<1>3. CASE path \notin {"main", "side"}
  BY <1>3 DEF File, Files, NoFile, Listed
<1>. QED BY <1>1, <1>2, <1>3

LEMMA NothingListed == Listed(NoFile) = {}
  BY DEF Listed, NoFile

-----------------------------------------------------------------------------
(* The steps of main.                                                      *)

LEMMA InitIInv == ProcessesInit => IInv
<1>. SUFFICES ASSUME ProcessesInit PROVE IInv
  OBVIOUS
<1>. USE DEF ProcessesInit, Init
<1>1. Files
  <2>1. PICK m \in Main[role], s \in Side[role] : disk = [main |-> m, side |-> s]
    OBVIOUS
  <2>2. DOMAIN disk = {"main", "side"} /\ disk["main"] = m /\ disk["side"] = s
    BY <2>1
  <2>. QED BY <2>2 DEF Files
<1>2. TypeOK
  <2>1. /\ stage = "conf" /\ signals = {} /\ sent = 0 /\ admin = None /\ loop = 0
        /\ queue = << >> /\ owed = 0 /\ busy = 0 /\ passed = {}
    OBVIOUS
  <2>. HIDE DEF ProcessesInit, Init
  <2>2. queue \in Seq(Asker) /\ Len(queue) = 0
    BY <2>1
  <2>. QED BY <2>1, <2>2, ProcessesAssumption DEF TypeOK
<1>3. Lists /\ Drains
  BY ProcessesAssumption DEF Lists, Drains
<1>. QED BY <1>1, <1>2, <1>3 DEF IInv

(* A start changes the list only where a router's file names one.          *)
LEMMA StartLists ==
  ASSUME IInv, StartConf
  PROVE  /\ "white_list" \in DOMAIN conf'
         /\ conf'.white_list \subseteq Named
         /\ role = "worker" => conf'.white_list = {}
<1>. USE DEF IInv, Lists
<1>1. CASE UNCHANGED conf
  BY <1>1
<1>2. ASSUME NEW stale \in BOOLEAN, role = "worker", InitWorker("main", File("main"), stale)
      PROVE  conf'.white_list = conf.white_list /\ "white_list" \in DOMAIN conf'
  BY <1>2 DEF InitWorker
<1>3. ASSUME NEW stale \in BOOLEAN, role = "router", NEW w, Listed(w) \subseteq Named,
             InitRouter("main", File("main"), w, stale)
      PROVE  conf'.white_list \subseteq Named /\ "white_list" \in DOMAIN conf'
  <2>1. "white_list" \in DOMAIN conf'
    BY <1>3 DEF InitRouter
  <2>2. conf'.white_list \in {Listed(w), conf.white_list}
    BY <1>3 DEF InitRouter
  <2>. QED BY <2>1, <2>2, <1>3
<1>4. Files
  OBVIOUS
<1>5. \/ UNCHANGED conf
      \/ \E stale \in BOOLEAN :
           \/ /\ role = "router"
              /\ InitRouter("main", File("main"),
                            IF "white_list" \in DOMAIN File("main")
                            THEN File(File("main").white_list) ELSE NoFile, stale)
           \/ role = "worker" /\ InitWorker("main", File("main"), stale)
  BY DEF StartConf
<1>6. role = "router" =>
        Listed(IF "white_list" \in DOMAIN File("main")
               THEN File(File("main").white_list) ELSE NoFile) \subseteq Named
  <2>1. role = "router" => Listed(File(File("main").white_list)) \subseteq Named
    BY <1>4, ReadLists
  <2>. QED BY <2>1, NothingListed
<1>7. CASE \E stale \in BOOLEAN :
             role = "worker" /\ InitWorker("main", File("main"), stale)
  BY <1>7, <1>2
<1>8. CASE \E stale \in BOOLEAN :
             /\ role = "router"
             /\ InitRouter("main", File("main"),
                           IF "white_list" \in DOMAIN File("main")
                           THEN File(File("main").white_list) ELSE NoFile, stale)
  BY <1>8, <1>3, <1>6
<1>. QED BY <1>1, <1>5, <1>7, <1>8

(* The part of the state that tells only of the disk and the queue.        *)
LEMMA StillFiles == ASSUME Files, UNCHANGED <<role, disk>> PROVE Files'
  BY DEF Files

LEMMA StartConfKeeps == ASSUME IInv, StartConf PROVE IInv'
<1>. USE DEF StartConf, Unmoved, worldVars, adminVars, reqVars
<1>1. Files'
  BY StillFiles DEF IInv
<1>2. TypeOK'
  BY DEF IInv, TypeOK, Asker
<1>3. Lists'
  <2>1. guarded' \in BOOLEAN /\ (guarded' => conf'.white_list # {})
    OBVIOUS
  <2>. QED BY <2>1, StartLists DEF IInv, Lists, Named
<1>4. Drains'
  BY DEF IInv, Drains
<1>. QED BY <1>1, <1>2, <1>3, <1>4 DEF IInv

(* The service's file has no white list.                                   *)
LEMMA ServiceLists ==
  ASSUME NEW p, NEW f, "white_list" \in DOMAIN conf,
         \/ InitServiceProtocol(p, f) \/ InitNotificationCfg(f)
         \/ RefreshServiceProtocol(f) \/ RefreshRouters(f)
         \/ \E tag : RefreshLogsys(f, tag)
  PROVE  conf'.white_list = conf.white_list /\ "white_list" \in DOMAIN conf'
<1>1. CASE InitServiceProtocol(p, f)
  BY <1>1 DEF InitServiceProtocol
<1>2. CASE InitNotificationCfg(f)
  BY <1>2 DEF InitNotificationCfg
<1>3. CASE RefreshServiceProtocol(f)
  BY <1>3 DEF RefreshServiceProtocol
<1>4. CASE RefreshRouters(f)
  BY <1>4 DEF RefreshRouters
<1>5. CASE \E tag : RefreshLogsys(f, tag)
  BY <1>5 DEF RefreshLogsys
<1>. QED BY <1>1, <1>2, <1>3, <1>4, <1>5

(* The rest of main leaves the list, the queue and the Admin thread alone  *)
(* but for starting that.                                                  *)
LEMMA MainKeeps == ASSUME IInv, MainThread PROVE IInv'
<1>1. CASE StartConf
  BY <1>1, StartConfKeeps
<1>2. ASSUME MainThread, ~StartConf
      PROVE  /\ UNCHANGED <<worldVars, signals, sent, loop, reqVars, guarded>>
             /\ admin' \in {admin, "wait"}
             /\ stage' \in {"logger", "service", "processors", "admin", "front", "listen",
                            "back", "conns", "timer", "running", "failed"}
  BY <1>2 DEF MainThread, StartLogger, StartService, StartProcessors, StartAdmin,
              MakeFront, StartFront, MakeTimer, StartBack, Fail, Unmoved, adminVars
<1>3. ASSUME MainThread, ~StartConf
      PROVE  conf'.white_list = conf.white_list /\ "white_list" \in DOMAIN conf'
  <2>1. CASE UNCHANGED conf
    BY <2>1 DEF IInv, Lists
  <2>2. CASE StartService
    BY <2>2, ServiceLists DEF StartService, IInv, Lists
  <2>. QED BY <1>3, <2>1, <2>2 DEF MainThread, StartLogger, StartProcessors, StartAdmin,
              MakeFront, StartFront, MakeTimer, StartBack, Fail
<1>4. ASSUME MainThread, ~StartConf PROVE IInv'
  <2>. USE <1>2, <1>4, ProcessesAssumption DEF worldVars, reqVars
  <2>1. Files'
    BY StillFiles DEF IInv
  <2>2. TypeOK'
    BY DEF IInv, TypeOK, Asker
  <2>3. Lists'
    BY <1>3 DEF IInv, Lists, Named
  <2>4. Drains'
    BY DEF IInv, Drains
  <2>. QED BY <2>1, <2>2, <2>3, <2>4 DEF IInv
<1>. QED BY <1>1, <1>4

-----------------------------------------------------------------------------
(* The Admin thread.                                                       *)

(* A refresh of the white list replaces it by one that names somebody.     *)
LEMMA WhiteListKeeps == ASSUME IInv, AdminWhiteList PROVE IInv'
<1>. USE DEF AdminWhiteList, Refreshing, worldVars, reqVars
<1>1. Files'
  BY StillFiles DEF IInv
<1>2. TypeOK'
  BY DEF IInv, TypeOK, Asker
<1>3. Listed(File(conf.cfg_white_list)) \subseteq Named
  BY ReadLists DEF IInv, Lists
<1>4. /\ "white_list" \in DOMAIN conf'
      /\ \/ conf'.white_list = conf.white_list
         \/ conf'.white_list = Listed(File(conf.cfg_white_list)) /\ conf'.white_list # {}
  BY DEF RefreshWhiteList, IInv, Lists
<1>5. Lists'
  BY <1>3, <1>4, ProcessesAssumption DEF IInv, Lists, Named
<1>6. Drains'
  BY ProcessesAssumption DEF IInv, Drains
<1>. QED BY <1>1, <1>2, <1>5, <1>6 DEF IInv

(* The rest of a refresh.                                                  *)
LEMMA RefreshKeeps ==
  ASSUME IInv, AdminProtocol \/ AdminRouters \/ AdminLogsys \/ AdminDebugger \/ TakeUsr2
  PROVE  IInv'
<1>. USE DEF AdminProtocol, AdminRouters, AdminLogsys, AdminDebugger, TakeUsr2,
             Refreshing, worldVars, reqVars
<1>1. UNCHANGED <<role, disk, stage, sent, loop, reqVars, guarded>>
  OBVIOUS
<1>2. /\ signals' \subseteq signals
      /\ admin' \in {"protocol", "routers", "logsys", "white", "debugger", "wait"}
      /\ admin' = "white" => role = "router"
  OBVIOUS
<1>3. conf'.white_list = conf.white_list /\ "white_list" \in DOMAIN conf'
  <2>1. CASE UNCHANGED conf
    BY <2>1 DEF IInv, Lists
  <2>2. CASE AdminProtocol
    BY <2>2, ServiceLists DEF IInv, Lists
  <2>3. CASE AdminRouters
    BY <2>3, ServiceLists DEF IInv, Lists
  <2>4. CASE AdminLogsys
    BY <2>4, ServiceLists DEF IInv, Lists
  <2>. QED BY <2>1, <2>2, <2>3, <2>4
<1>. HIDE DEF AdminProtocol, AdminRouters, AdminLogsys, AdminDebugger, TakeUsr2, Refreshing
<1>4. Files'
  BY <1>1, StillFiles DEF IInv
<1>5. TypeOK'
  BY <1>1, <1>2 DEF IInv, TypeOK, Asker
<1>6. Lists'
  BY <1>1, <1>2, <1>3 DEF IInv, Lists, Named
<1>7. Drains'
  BY <1>1, <1>2 DEF IInv, Drains
<1>. QED BY <1>4, <1>5, <1>6, <1>7 DEF IInv

(* The way out: what is owed is counted when SIGTERM is taken, and what    *)
(* is counted is 0 when the queue is seen empty.                           *)
LEMMA LeavingKeeps ==
  ASSUME IInv, TakeTerm \/ UnregisterWorkers \/ CountRequests \/ Exit
  PROVE  IInv'
<1>. USE DEF TakeTerm, UnregisterWorkers, CountRequests, Exit, Leaving, worldVars, reqVars
<1>1. UNCHANGED <<role, disk, conf, sent, queue, busy, passed, guarded>>
  OBVIOUS
<1>2. Files'
  BY <1>1, StillFiles DEF IInv
<1>3. TypeOK'
  <2>1. queue \in Seq(Asker) /\ owed \in 0 .. Len(queue)
    BY DEF IInv, TypeOK
  <2>2. owed' \in 0 .. Len(queue)
    <3>1. Len(queue) \in Nat
      BY <2>1, LenProperties
    <3>. QED BY <2>1, <3>1 DEF IInv, TypeOK
  <2>3. loop' \in 0 .. Loops
    BY ProcessesAssumption DEF IInv, TypeOK, Turn, TurnsLeft
  <2>4. /\ stage' \in {stage, "died", "drained", "forced"}
        /\ admin' \in {admin, "count", "unregister", "leave", "force"}
        /\ signals' \subseteq signals
    OBVIOUS
  <2>. HIDE DEF TakeTerm, UnregisterWorkers, CountRequests, Exit, Leaving
  <2>. QED BY <1>1, <2>1, <2>2, <2>3, <2>4 DEF IInv, TypeOK, Asker
<1>4. Lists'
  <2>1. admin' = "white" => admin = "white"
    OBVIOUS
  <2>. QED BY <1>1, <2>1 DEF IInv, Lists, Named
<1>5. Drains'
  <2>1. CASE TakeTerm
    BY <2>1 DEF IInv, Drains, Ended
  <2>2. CASE UnregisterWorkers
    BY <2>2 DEF IInv, Drains
  <2>3. CASE CountRequests
    <3>1. owed \in 0 .. Len(queue)
      BY DEF IInv, TypeOK
    <3>2. QueueEmpty => owed = 0
      BY <3>1 DEF QueueEmpty
    <3>3. (admin' = "leave" => QueueEmpty) /\ UNCHANGED <<stage, owed>>
      BY <2>3
    <3>. QED BY <3>2, <3>3 DEF IInv, Drains
  <2>4. CASE Exit
    BY <2>4 DEF IInv, Drains
  <2>. QED BY <2>1, <2>2, <2>3, <2>4
<1>. QED BY <1>2, <1>3, <1>4, <1>5 DEF IInv

-----------------------------------------------------------------------------
(* The requests, the operator, and all of it.                              *)

LEMMA ArrivesKeeps == ASSUME IInv, NEW ip \in Asker, Arrives(ip) PROVE IInv'
<1>. USE DEF Arrives, Serving, worldVars, adminVars
<1>1. Files'
  BY StillFiles DEF IInv
<1>2. TypeOK'
  <2>1. queue \in Seq(Asker) /\ owed \in 0 .. Len(queue)
    BY DEF IInv, TypeOK
  <2>2. queue' \in Seq(Asker) /\ Len(queue') = Len(queue) + 1
    BY <2>1, AppendProperties
  <2>3. owed' \in 0 .. Len(queue')
    BY <2>1, <2>2, LenProperties
  <2>. QED BY <2>2, <2>3 DEF IInv, TypeOK, Asker
<1>3. Lists' /\ Drains'
  BY DEF IInv, Lists, Drains, Named
<1>. QED BY <1>1, <1>2, <1>3 DEF IInv

(* Who is let in while a list is in force is on it.                        *)
LEMMA TakeKeeps == ASSUME IInv, Take PROVE IInv'
<1>. USE DEF Take, Serving, worldVars, adminVars
<1>1. Files'
  BY StillFiles DEF IInv
<1>2. /\ queue \in Seq(Asker) /\ queue # << >> /\ owed \in 0 .. Len(queue)
      /\ Head(queue) \in Asker
      /\ queue' \in Seq(Asker) /\ Len(queue') = Len(queue) - 1
      /\ Len(queue) \in Nat
  BY HeadTailProperties, LenProperties DEF IInv, TypeOK
<1>3. owed' \in 0 .. Len(queue') /\ (owed = 0 => owed' = 0)
  BY <1>2
<1>4. guarded => role = "router"
  BY DEF IInv, Lists, Files
<1>5. passed' \subseteq Ip
  BY <1>2, <1>4 DEF IInv, TypeOK, Asker
<1>6. TypeOK'
  <2>1. busy' \in 0 .. Hands
    BY ProcessesAssumption DEF IInv, TypeOK
  <2>. QED BY <1>2, <1>3, <1>5, <2>1 DEF IInv, TypeOK, Asker
<1>7. Lists'
  <2>1. passed' \subseteq Named
    BY DEF IInv, Lists, LetIn
  <2>. QED BY <2>1 DEF IInv, Lists, Named
<1>8. Drains'
  BY <1>3 DEF IInv, Drains
<1>. QED BY <1>1, <1>6, <1>7, <1>8 DEF IInv

LEMMA FinishKeeps == ASSUME IInv, Finish PROVE IInv'
<1>. USE DEF Finish, Serving, worldVars, adminVars
<1>1. Files'
  BY StillFiles DEF IInv
<1>2. TypeOK'
  <2>1. busy' \in 0 .. Hands
    BY ProcessesAssumption DEF IInv, TypeOK
  <2>. QED BY <2>1 DEF IInv, TypeOK, Asker
<1>3. Lists' /\ Drains'
  BY DEF IInv, Lists, Drains, Named
<1>. QED BY <1>1, <1>2, <1>3 DEF IInv

LEMMA OperatorKeeps ==
  ASSUME IInv, Edit \/ \E s \in {"USR2", "TERM"} : Signal(s) PROVE IInv'
<1>1. CASE \E s \in {"USR2", "TERM"} : Signal(s)
  <2>. USE <1>1 DEF Signal, worldVars, reqVars
  <2>1. Files'
    BY StillFiles DEF IInv
  <2>2. TypeOK'
    BY ProcessesAssumption DEF IInv, TypeOK, Asker
  <2>3. Lists' /\ Drains'
    BY DEF IInv, Lists, Drains, Named
  <2>. QED BY <2>1, <2>2, <2>3 DEF IInv
<1>2. CASE Edit
  <2>. USE <1>2 DEF Edit, adminVars, reqVars
  <2>1. Files'
    BY DEF IInv, Files
  <2>2. TypeOK'
    BY DEF IInv, TypeOK, Asker
  <2>3. Lists' /\ Drains'
    BY DEF IInv, Lists, Drains, Named
  <2>. QED BY <2>1, <2>2, <2>3 DEF IInv
<1>. QED BY <1>1, <1>2

LEMMA NextIInv == IInv /\ [Next]_vars => IInv'
<1>. SUFFICES ASSUME IInv, [Next]_vars PROVE IInv'
  OBVIOUS
<1>1. CASE UNCHANGED vars
  BY <1>1 DEF IInv, Files, TypeOK, Lists, Drains, Asker, Named,
              vars, worldVars, adminVars, reqVars
<1>2. CASE MainThread
  BY <1>2, MainKeeps
<1>3. CASE AdminThread
  BY <1>3, WhiteListKeeps, RefreshKeeps, LeavingKeeps DEF AdminThread
<1>4. CASE \E ip \in Asker : Arrives(ip)
  BY <1>4, ArrivesKeeps
<1>5. CASE Take
  BY <1>5, TakeKeeps
<1>6. CASE Finish
  BY <1>6, FinishKeeps
<1>7. CASE Edit \/ \E s \in {"USR2", "TERM"} : Signal(s)
  BY <1>7, OperatorKeeps
<1>. QED BY <1>1, <1>2, <1>3, <1>4, <1>5, <1>6, <1>7 DEF Next

LEMMA AlwaysIInv == FairSpec => []IInv
<1>. QED BY InitIInv, NextIInv, PTL DEF FairSpec

-----------------------------------------------------------------------------
(* The configuration.                                                      *)

ConfFields ==
  {"id", "thr_num", "max_queue_size", "unregister_failed_num", "unregister_timeout_num",
   "req_port", "worker_port", "white_list", "category", "regional", "logsys",
   "group_id", "service_id", "plug_in", "conf", "routers", "key", "conn_timeout",
   "rw_timeout", "protocols", "ways", "cfg_router", "cfg_worker", "cfg_white_list",
   "cfg_service_protocol"}

(* What is in force, in the configuration and in the debugger, comes from  *)
(* one edition, already where the id is still empty.                       *)
Versions ==
  /\ DOMAIN conf = ConfFields
  /\ conf.cfg_router \in {"", "main"}
  /\ conf.id # "" \/ conf.logsys # << >> =>
       \E f \in Main[role] : LogsysOk(f) /\ SameLogsys(Logsys, f)
  /\ debugger # None => \E f \in Main[role] : LogsysOk(f) /\ SameLogsys(debugger, f)
  /\ conf.protocols # << >> =>
       \E f \in Main[role] \cup Side[role] :
         /\ ProtocolsOk(f, GlobalKey(f)) /\ conf.key = GlobalKey(f)
         /\ conf.protocols = ProtocolMap(f, conf.key)

(* While main is busy with the configuration nobody can refresh it or end  *)
(* the process.                                                            *)
Configured ==
  /\ RunningIsConfigured
  /\ stage \in {"conf", "logger", "service", "processors", "admin"} => admin = None

ConfInv == IInv /\ Versions /\ Configured

(* A set of positions that is not empty has a first one.                   *)
LEMMA LeastOf ==
  ASSUME NEW S, S \subseteq Nat, S # {}
  PROVE  Min(S) \in S
<1>1. PICK x \in S : \A y \in S : ~ (<<y, x>> \in OpToRel(<, Nat))
  BY NatLessThanWellFounded, WFMin
<1>2. \A a, b \in Nat : a < b => <<a, b>> \in OpToRel(<, Nat)
  BY DEF OpToRel
<1>3. \A y \in S : ~(y < x)
  BY <1>1, <1>2, Zenon
<1>4. \A y \in S : x <= y
  BY <1>3
<1>. QED BY <1>4 DEF Min

(* Whatever is read in the place of a number is one.                       *)
LEMMA NumberIsNat ==
  ASSUME NEW f, FileTyped(f), NEW key \in Numbers, NEW before \in Seq(Numbers),
         NEW stale \in BOOLEAN
  PROVE  Number(f, key, before, stale) \in Nat
<1> DEFINE here == {i \in DOMAIN before : before[i] \in DOMAIN f}
<1>1. Nearest(f, before) \in Nat
  <2>1. CASE here = {}
    BY <2>1 DEF Nearest
  <2>2. CASE here # {}
    <3>1. Min(here) \in here
      <4>1. here \subseteq Nat
        OBVIOUS
      <4>. HIDE DEF here
      <4>. QED BY <2>2, <4>1, LeastOf
    <3>2. before[Min(here)] \in Numbers \cap DOMAIN f
      BY <3>1
    <3>. QED BY <2>2, <3>2 DEF Nearest, FileTyped
  <2>. QED BY <2>1, <2>2
<1>. QED BY <1>1 DEF Number, FileTyped

(* A file of the standard service that is accepted gives every command a   *)
(* protocol with a key.                                                    *)
LEMMA ProtocolsUsable ==
  ASSUME NEW f, FileTyped(f), NEW key, ProtocolsOk(f, key)
  PROVE  /\ ProtocolMap(f, key) # << >>
         /\ \A c \in DOMAIN ProtocolMap(f, key) : ProtocolMap(f, key)[c].key # ""
<1> DEFINE ps   == f.protocol
           cmds == {p.cmd : p \in Range(ps)}
<1>1. ps \in Seq(ServiceProtocol) /\ ps # << >> /\ \A i \in DOMAIN ps : ProtocolOk(ps[i], key)
  BY DEF FileTyped, ProtocolsOk
<1>2. DOMAIN ProtocolMap(f, key) = cmds
  BY DEF ProtocolMap
<1>3. ps[1].cmd \in cmds
  BY <1>1 DEF Range
<1>4. ASSUME NEW c \in cmds PROVE ProtocolMap(f, key)[c].key # ""
  <2> DEFINE S == {i \in DOMAIN ps : ps[i].cmd = c}
  <2>1. S \subseteq Nat /\ S # {}
    BY <1>1 DEF Range
  <2>2. Min(S) \in S
    <3>. HIDE DEF S
    <3>. QED BY <2>1, LeastOf
  <2>3. ps[Min(S)] \in ServiceProtocol /\ ProtocolOk(ps[Min(S)], key)
    <3>1. Min(S) \in DOMAIN ps
      BY <2>2
    <3>. HIDE DEF S, ps
    <3>. QED BY <1>1, <3>1
  <2>4. ProtocolMap(f, key)[c] = [ps[Min(S)] EXCEPT !.key = OrIfEmpty(@, key)]
    BY DEF ProtocolMap
  <2>. HIDE DEF S
  <2>. QED BY <2>3, <2>4 DEF ServiceProtocol, ProtocolOk, OrIfEmpty
<1>5. ProtocolMap(f, key) # << >>
  <2>1. DOMAIN ProtocolMap(f, key) # {}
    BY <1>2, <1>3
  <2>. QED BY <2>1
<1>. QED BY <1>2, <1>4, <1>5

(* What a path names: nothing, or an edition of one of the process' files. *)
LEMMA ReadFacts ==
  ASSUME Files, NEW path
  PROVE  /\ File(path) = NoFile \/ File(path) \in Main[role] \cup Side[role]
         /\ path \in {"main", ""} => File(path) = NoFile \/ File(path) \in Main[role]
         /\ path = "main" => File(path) \in Main[role]
         /\ FileTyped(File(path))
<1>1. path \notin {"main", "side"} => File(path) = NoFile
  BY DEF File, Files
<1>2. path = "main" => File(path) \in Main[role]
  BY DEF File, Files
<1>3. path = "side" => File(path) \in Side[role]
  BY DEF File, Files
<1>4. FileTyped(NoFile)
  BY DEF FileTyped, NoFile, Numbers
<1>5. \A f \in Main[role] \cup Side[role] : FileTyped(f)
  BY ProcessesAssumption DEF Files
<1>. QED BY <1>1, <1>2, <1>3, <1>4, <1>5

(* What a router and a worker have when their start has not failed.        *)
LEMMA RouterStarts ==
  ASSUME DOMAIN conf = ConfFields, NEW f, FileTyped(f), NEW path, NEW white,
         NEW stale \in BOOLEAN, InitRouter(path, f, white, stale)
  PROVE  /\ DOMAIN conf' = ConfFields
         /\ conf'.cfg_router = path
         /\ conf'.protocols = conf.protocols /\ conf'.key = conf.key
         /\ LogsysOk(f) /\ SameLogsys(Logsys', f)
         /\ conf'.id # "" /\ conf'.category # "" /\ conf'.max_queue_size >= MinQueue
         /\ conf'.req_port # 0
         /\ conf'.unregister_failed_num > 0 /\ conf'.unregister_timeout_num > 0
<1> DEFINE numbers == <<"rate_limiting", "max_queue_size", "thr_num", "worker_port">>
           before  == <<"thr_num", "worker_port">>
           failed  == Threshold(f, "unregister_failed_num", numbers, stale, 3)
           timeout == Threshold(f, "unregister_timeout_num",
                                <<"unregister_failed_num">> \o numbers, stale, 5)
<1>1. RouterFileOk(f) /\ LogsysOk(f)
  BY DEF InitRouter, RouterFileOk
<1>2. /\ DOMAIN conf' = ConfFields
      /\ conf'.cfg_router = path /\ conf'.id = f.id /\ conf'.req_port = f.req_port
      /\ conf'.max_queue_size = QueueSize(f, before, stale)
      /\ conf'.unregister_failed_num = failed /\ conf'.unregister_timeout_num = timeout
      /\ conf'.category = f.logsys.category
      /\ conf'.regional = OrIfEmpty(f.logsys.regional, "LOCAL")
      /\ conf'.logsys = f.logsys.svr
      /\ conf'.protocols = conf.protocols /\ conf'.key = conf.key
  BY DEF InitRouter, ConfFields
<1>3. /\ "unregister_failed_num" \in Numbers /\ "unregister_timeout_num" \in Numbers
      /\ "max_queue_size" \in Numbers
      /\ numbers \in Seq(Numbers) /\ before \in Seq(Numbers)
      /\ <<"unregister_failed_num">> \o numbers \in Seq(Numbers)
  BY DEF Numbers
<1>4. failed > 0 /\ timeout > 0
  <2>. HIDE DEF numbers
  <2>1. /\ Number(f, "unregister_failed_num", numbers, stale) \in Nat
        /\ Number(f, "unregister_timeout_num",
                  <<"unregister_failed_num">> \o numbers, stale) \in Nat
    BY <1>3, NumberIsNat
  <2>. QED BY <2>1 DEF Threshold, OrDefault
<1>5. QueueSize(f, before, stale) >= MinQueue
  <2>. HIDE DEF before
  <2>1. Number(f, "max_queue_size", before, stale) \in Nat
    BY <1>3, NumberIsNat
  <2>. QED BY <2>1, ConfMgtAssumption DEF QueueSize
<1>6. f.id # "" /\ f.req_port # 0 /\ f.logsys.category # ""
  BY <1>1 DEF RouterFileOk, LogsysOk
<1>7. SameLogsys(Logsys', f)
  BY <1>2 DEF SameLogsys, Logsys
<1>. QED BY <1>1, <1>2, <1>4, <1>5, <1>6, <1>7

LEMMA WorkerStarts ==
  ASSUME DOMAIN conf = ConfFields, NEW f, FileTyped(f), NEW path,
         NEW stale \in BOOLEAN, InitWorker(path, f, stale)
  PROVE  /\ DOMAIN conf' = ConfFields
         /\ conf'.cfg_router = conf.cfg_router
         /\ conf'.protocols = conf.protocols /\ conf'.key = conf.key
         /\ LogsysOk(f) /\ SameLogsys(Logsys', f)
         /\ conf'.id # "" /\ conf'.category # "" /\ conf'.max_queue_size >= MinQueue
         /\ conf'.group_id # "" /\ conf'.service_id # ""
         /\ conf'.routers # << >> /\ ServersOk(conf'.routers)
<1>1. WorkerFileOk(f) /\ LogsysOk(f) /\ RoutersOk(f)
  BY DEF InitWorker, WorkerFileOk
<1>2. /\ DOMAIN conf' = ConfFields
      /\ conf'.cfg_router = conf.cfg_router /\ conf'.id = f.id
      /\ conf'.max_queue_size = QueueSize(f, <<"thr_num", "id_number">>, stale)
      /\ conf'.group_id = f.group.group_id
      /\ conf'.service_id = OrIfEmpty(f.group.service_id, f.group.group_id)
      /\ conf'.routers = f.router
      /\ conf'.category = f.logsys.category
      /\ conf'.regional = OrIfEmpty(f.logsys.regional, "LOCAL")
      /\ conf'.logsys = f.logsys.svr
      /\ conf'.protocols = conf.protocols /\ conf'.key = conf.key
  BY DEF InitWorker, ConfFields
<1>3. QueueSize(f, <<"thr_num", "id_number">>, stale) >= MinQueue
  <2>1. "max_queue_size" \in Numbers /\ <<"thr_num", "id_number">> \in Seq(Numbers)
    BY DEF Numbers
  <2>2. Number(f, "max_queue_size", <<"thr_num", "id_number">>, stale) \in Nat
    BY <2>1, NumberIsNat
  <2>. QED BY <2>2, ConfMgtAssumption DEF QueueSize
<1>4. f.id # "" /\ f.group.group_id # "" /\ f.logsys.category # ""
  BY <1>1 DEF WorkerFileOk, LogsysOk
<1>5. SameLogsys(Logsys', f)
  BY <1>2 DEF SameLogsys, Logsys
<1>. QED BY <1>1, <1>2, <1>3, <1>4, <1>5 DEF RoutersOk, OrIfEmpty

LEMMA StartConfConfigures ==
  ASSUME ConfInv, StartConf PROVE Versions' /\ Configured'
<1>1. /\ UNCHANGED <<role, debugger, admin>>
      /\ stage = "conf" /\ stage' \in {"logger", "failed"}
      /\ admin = None
  BY DEF StartConf, Unmoved, worldVars, adminVars, ConfInv, Configured
<1>2. Files /\ DOMAIN conf = ConfFields /\ role \in {"router", "worker"}
  BY DEF ConfInv, IInv, Versions, Files
<1>3. File("main") \in Main[role] /\ FileTyped(File("main"))
  BY <1>2, ReadFacts
<1>4. CASE UNCHANGED conf /\ stage' = "failed"
  BY <1>1, <1>4 DEF ConfInv, Versions, Configured, RunningIsConfigured, Logsys, SameLogsys
<1>5. ASSUME NEW stale \in BOOLEAN, role = "router", NEW white,
             InitRouter("main", File("main"), white, stale)
      PROVE  Versions' /\ Configured'
  <2>1. /\ DOMAIN conf' = ConfFields /\ conf'.cfg_router = "main"
        /\ conf'.protocols = conf.protocols /\ conf'.key = conf.key
        /\ LogsysOk(File("main")) /\ SameLogsys(Logsys', File("main"))
        /\ conf'.id # "" /\ conf'.category # "" /\ conf'.max_queue_size >= MinQueue
        /\ conf'.req_port # 0
        /\ conf'.unregister_failed_num > 0 /\ conf'.unregister_timeout_num > 0
    BY <1>2, <1>3, <1>5, RouterStarts
  <2>2. Versions'
    BY <1>1, <1>3, <2>1 DEF ConfInv, Versions
  <2>. QED BY <1>1, <1>5, <2>1, <2>2 DEF Configured, RunningIsConfigured
<1>6. ASSUME NEW stale \in BOOLEAN, role = "worker", InitWorker("main", File("main"), stale)
      PROVE  Versions' /\ Configured'
  <2>1. /\ DOMAIN conf' = ConfFields /\ conf'.cfg_router = conf.cfg_router
        /\ conf'.protocols = conf.protocols /\ conf'.key = conf.key
        /\ LogsysOk(File("main")) /\ SameLogsys(Logsys', File("main"))
        /\ conf'.id # "" /\ conf'.category # "" /\ conf'.max_queue_size >= MinQueue
        /\ conf'.group_id # "" /\ conf'.service_id # ""
        /\ conf'.routers # << >> /\ ServersOk(conf'.routers)
    BY <1>2, <1>3, <1>6, WorkerStarts
  <2>2. Versions'
    BY <1>1, <1>3, <2>1 DEF ConfInv, Versions
  <2>3. stage' \in {"logger", "failed"} /\ role' = "worker"
    BY <1>1, <1>6
  <2>. QED BY <1>1, <2>1, <2>2, <2>3 DEF Configured, RunningIsConfigured
<1>. QED BY <1>1, <1>4, <1>5, <1>6 DEF StartConf

(* A step that leaves the configuration alone.                             *)
LEMMA StillVersions ==
  ASSUME Versions, UNCHANGED <<role, conf>>, debugger' \in {debugger, Logsys},
         debugger' = Logsys => debugger' = debugger \/ conf.logsys # << >>
  PROVE  Versions'
<1>1. Logsys' = Logsys
  BY DEF Logsys
<1>2. debugger' # None => \E f \in Main[role] : LogsysOk(f) /\ SameLogsys(debugger', f)
  BY DEF Versions
<1>. QED BY <1>1, <1>2 DEF Versions

(* A step that leaves one of the two parts of the versions alone.          *)
SameLog == /\ conf'.id = conf.id /\ conf'.logsys = conf.logsys
           /\ conf'.category = conf.category /\ conf'.regional = conf.regional
SameService == conf'.key = conf.key /\ conf'.protocols = conf.protocols

LEMMA VersionsStep ==
  ASSUME Versions, UNCHANGED <<role, debugger>>,
         DOMAIN conf' = ConfFields, conf'.cfg_router = conf.cfg_router,
         \/ SameLog
         \/ \E f \in Main[role] : LogsysOk(f) /\ SameLogsys(Logsys', f),
         \/ SameService
         \/ \E f \in Main[role] \cup Side[role] :
              /\ ProtocolsOk(f, GlobalKey(f)) /\ conf'.key = GlobalKey(f)
              /\ conf'.protocols = ProtocolMap(f, conf'.key)
  PROVE  Versions'
<1>1. conf'.id # "" \/ conf'.logsys # << >> =>
        \E f \in Main[role] : LogsysOk(f) /\ SameLogsys(Logsys', f)
  <2>1. SameLog => Logsys' = Logsys
    BY DEF SameLog, Logsys
  <2>. QED BY <2>1 DEF Versions, SameLog
<1>2. conf'.protocols # << >> =>
       \E f \in Main[role] \cup Side[role] :
         /\ ProtocolsOk(f, GlobalKey(f)) /\ conf'.key = GlobalKey(f)
         /\ conf'.protocols = ProtocolMap(f, conf'.key)
  BY DEF Versions, SameService
<1>. QED BY <1>1, <1>2 DEF Versions

LEMMA StillConfigured ==
  ASSUME Configured, UNCHANGED <<role, conf>>,
         stage' \notin {"conf", "failed"} => stage \notin {"conf", "failed"},
         role = "worker" /\ stage' \notin {"conf", "failed", "logger", "service"} =>
           stage \notin {"logger", "service"},
         stage' \in {"conf", "logger", "service", "processors", "admin"} => admin' = None
  PROVE  Configured'
BY DEF Configured, RunningIsConfigured

(* The service of a worker brings its protocols, or needs none.            *)
LEMMA StartServiceConfigures ==
  ASSUME ConfInv, StartService PROVE Versions' /\ Configured'
<1> DEFINE f == File(conf.conf)
<1>1. /\ UNCHANGED <<role, debugger, admin>>
      /\ stage = "service" /\ stage' = "processors" /\ admin = None
      /\ role \in {"router", "worker"}
  BY DEF StartService, Unmoved, worldVars, adminVars, ConfInv, Configured, IInv, Files
<1>2. f = NoFile \/ f \in Main[role] \cup Side[role]
  BY ReadFacts DEF ConfInv, IInv
<1>3. FileTyped(f)
  BY ReadFacts DEF ConfInv, IInv
<1>4. DOMAIN conf = ConfFields
  BY DEF ConfInv, Versions
<1>. HIDE DEF f
<1>5. ASSUME conf.plug_in = "standard", InitServiceProtocol(conf.conf, f)
      PROVE  Versions' /\ Configured'
  <2>1. ProtocolsOk(f, GlobalKey(f)) /\ f \in Main[role] \cup Side[role]
    BY <1>2, <1>5 DEF InitServiceProtocol, ProtocolsOk, NoFile
  <2>2. /\ DOMAIN conf' = ConfFields
        /\ conf'.key = GlobalKey(f) /\ conf'.protocols = ProtocolMap(f, GlobalKey(f))
        /\ \A x \in ConfFields \ {"cfg_service_protocol", "key", "conn_timeout",
                                  "rw_timeout", "protocols"} : conf'[x] = conf[x]
    BY <1>4, <1>5 DEF InitServiceProtocol, ConfFields
  <2>3. /\ conf'.protocols # << >>
        /\ \A c \in DOMAIN conf'.protocols : conf'.protocols[c].key # ""
    BY <1>3, <2>1, <2>2, ProtocolsUsable
  <2>4. Versions'
    BY <1>1, <2>1, <2>2, VersionsStep DEF ConfInv, SameLog, SameService, ConfFields
  <2>5. Configured'
    BY <1>1, <2>2, <2>3 DEF ConfInv, Configured, RunningIsConfigured, ConfFields
  <2>. QED BY <2>4, <2>5
<1>6. ASSUME conf.plug_in = "notification", InitNotificationCfg(f)
      PROVE  Versions' /\ Configured'
  <2>1. /\ DOMAIN conf' = ConfFields
        /\ \A x \in ConfFields \ {"conn_timeout", "rw_timeout", "ways"} : conf'[x] = conf[x]
    BY <1>4, <1>6 DEF InitNotificationCfg, ConfFields
  <2>2. Versions'
    BY <1>1, <2>1, VersionsStep DEF ConfInv, SameLog, SameService, ConfFields
  <2>3. conf'.plug_in = "notification"
    BY <1>6, <2>1 DEF ConfFields
  <2>4. Configured'
    BY <1>1, <2>1, <2>3 DEF ConfInv, Configured, RunningIsConfigured, ConfFields
  <2>. QED BY <2>2, <2>4
<1>. QED BY <1>5, <1>6 DEF StartService, f

(* The rest of main.                                                       *)
LEMMA MainConfigures ==
  ASSUME ConfInv, MainThread PROVE Versions' /\ Configured'
<1>1. CASE StartConf
  BY <1>1, StartConfConfigures
<1>2. CASE StartService
  BY <1>2, StartServiceConfigures
<1>3. ASSUME MainThread, ~StartConf, ~StartService
      PROVE  /\ UNCHANGED <<role, conf>>
             /\ debugger' = debugger \/ (debugger' = Logsys /\ conf.logsys # << >>)
             /\ stage \notin {"conf", "failed"}
             /\ role = "worker" /\ stage' \notin {"conf", "failed", "logger", "service"} =>
                  stage \notin {"logger", "service"}
             /\ stage' \in {"conf", "logger", "service", "processors", "admin"} =>
                  /\ admin' = admin
                  /\ stage \in {"conf", "logger", "service", "processors", "admin"}
  <2>. USE DEF Unmoved, worldVars, adminVars, Ended
  <2>1. CASE StartLogger
    BY <2>1 DEF StartLogger
  <2>2. CASE StartProcessors
    BY <2>2 DEF StartProcessors
  <2>3. CASE StartAdmin
    BY <2>3 DEF StartAdmin
  <2>4. CASE MakeFront \/ StartFront \/ MakeTimer \/ StartBack \/ Fail
    BY <2>4 DEF MakeFront, StartFront, MakeTimer, StartBack, Fail
  <2>. QED BY <1>3, <2>1, <2>2, <2>3, <2>4 DEF MainThread
<1>4. CASE ~StartConf /\ ~StartService
  <2>1. Versions'
    BY <1>3, <1>4, StillVersions DEF ConfInv
  <2>2. Configured'
    BY <1>3, <1>4, StillConfigured DEF ConfInv, Configured
  <2>. QED BY <2>1, <2>2
<1>. QED BY <1>1, <1>2, <1>4

(* A refresh takes over all of an edition that is good, or nothing.        *)
LEMMA RefreshConfigures ==
  ASSUME ConfInv,
         AdminProtocol \/ AdminRouters \/ AdminLogsys \/ AdminWhiteList \/ AdminDebugger
  PROVE  Versions' /\ Configured'
<1>1. /\ UNCHANGED <<role, stage>> /\ admin # None
      /\ stage \notin {"conf", "logger", "service", "processors", "admin"}
  BY ProcessesAssumption
     DEF AdminProtocol, AdminRouters, AdminLogsys, AdminWhiteList, AdminDebugger,
         Refreshing, worldVars, ConfInv, Configured
<1>2. DOMAIN conf = ConfFields /\ Files
  BY DEF ConfInv, Versions, IInv
<1>3. ASSUME UNCHANGED <<conf, debugger>> PROVE Versions' /\ Configured'
  <2>1. Versions'
    BY <1>1, <1>3, StillVersions DEF ConfInv
  <2>2. Configured'
    BY <1>1, <1>3, StillConfigured DEF ConfInv
  <2>. QED BY <2>1, <2>2
<1>4. CASE AdminProtocol
  <2> DEFINE f == File(conf.cfg_service_protocol)
  <2>1. RefreshServiceProtocol(f) /\ UNCHANGED debugger
    BY <1>4 DEF AdminProtocol
  <2>2. f = NoFile \/ f \in Main[role] \cup Side[role]
    BY <1>2, ReadFacts
  <2>3. FileTyped(f)
    BY <1>2, ReadFacts
  <2>. HIDE DEF f
  <2>4. CASE ProtocolsOk(f, GlobalKey(f))
    <3>1. f \in Main[role] \cup Side[role]
      BY <2>2, <2>4 DEF ProtocolsOk, NoFile
    <3>2. /\ DOMAIN conf' = ConfFields
          /\ conf'.key = GlobalKey(f) /\ conf'.protocols = ProtocolMap(f, GlobalKey(f))
          /\ \A x \in ConfFields \ {"key", "conn_timeout", "rw_timeout", "protocols"} :
               conf'[x] = conf[x]
      BY <1>2, <2>1, <2>4 DEF RefreshServiceProtocol, ConfFields
    <3>3. /\ conf'.protocols # << >>
          /\ \A c \in DOMAIN conf'.protocols : conf'.protocols[c].key # ""
      BY <2>3, <2>4, <3>2, ProtocolsUsable
    <3>4. Versions'
      BY <1>1, <2>1, <2>4, <3>1, <3>2, VersionsStep DEF ConfInv, SameLog, SameService, ConfFields
    <3>5. Configured'
      BY <1>1, <3>2, <3>3 DEF ConfInv, Configured, RunningIsConfigured, ConfFields
    <3>. QED BY <3>4, <3>5
  <2>5. CASE ~ProtocolsOk(f, GlobalKey(f))
    BY <1>3, <2>1, <2>5 DEF RefreshServiceProtocol
  <2>. QED BY <2>4, <2>5
<1>5. CASE AdminRouters
  <2> DEFINE f == File(conf.cfg_worker)
  <2>1. RefreshRouters(f) /\ UNCHANGED debugger
    BY <1>5 DEF AdminRouters
  <2>. HIDE DEF f
  <2>2. CASE f.root = "dip_worker" /\ RoutersOk(f)
    <3>1. /\ DOMAIN conf' = ConfFields
          /\ conf'.routers # << >> /\ ServersOk(conf'.routers)
          /\ \A x \in ConfFields \ {"routers"} : conf'[x] = conf[x]
      BY <1>2, <2>1, <2>2 DEF RefreshRouters, RoutersOk, ConfFields
    <3>2. Versions'
      BY <1>1, <2>1, <3>1, VersionsStep DEF ConfInv, SameLog, SameService, ConfFields
    <3>3. Configured'
      BY <1>1, <3>1 DEF ConfInv, Configured, RunningIsConfigured, ConfFields
    <3>. QED BY <3>2, <3>3
  <2>3. CASE ~(f.root = "dip_worker" /\ RoutersOk(f))
    BY <1>3, <2>1, <2>3 DEF RefreshRouters
  <2>. QED BY <2>2, <2>3
<1>6. CASE AdminLogsys
  <2> DEFINE f   == File(conf.cfg_router)
             tag == "dip_" \o role
  <2>1. RefreshLogsys(f, tag) /\ UNCHANGED debugger
    BY <1>6 DEF AdminLogsys
  <2>2. f = NoFile \/ f \in Main[role]
    BY <1>2, ReadFacts DEF ConfInv, Versions
  <2>. HIDE DEF f, tag
  <2>3. CASE f.root = tag /\ LogsysOk(f) /\ f.logsys.svr # << >>
    <3>1. f \in Main[role] /\ f.logsys.category # ""
      <4>1. ~LogsysOk(NoFile)
        BY DEF LogsysOk, NoFile
      <4>2. f \in Main[role]
        BY <2>2, <2>3, <4>1
      <4>. QED BY <2>3, <4>2 DEF LogsysOk
    <3>2. /\ DOMAIN conf' = ConfFields
          /\ conf'.category = f.logsys.category
          /\ conf'.regional = OrIfEmpty(f.logsys.regional, "LOCAL")
          /\ conf'.logsys = f.logsys.svr
          /\ \A x \in ConfFields \ {"category", "regional", "logsys"} : conf'[x] = conf[x]
      BY <1>2, <2>1, <2>3 DEF RefreshLogsys, ConfFields
    <3>3. SameLogsys(Logsys', f)
      BY <3>2 DEF SameLogsys, Logsys
    <3>4. Versions'
      BY <1>1, <2>1, <2>3, <3>1, <3>2, <3>3, VersionsStep DEF ConfInv, SameLog, SameService, ConfFields
    <3>5. Configured'
      BY <1>1, <3>1, <3>2 DEF ConfInv, Configured, RunningIsConfigured, ConfFields
    <3>. QED BY <3>4, <3>5
  <2>4. CASE ~(f.root = tag /\ LogsysOk(f) /\ f.logsys.svr # << >>)
    BY <1>3, <2>1, <2>4 DEF RefreshLogsys
  <2>. QED BY <2>3, <2>4
<1>7. CASE AdminWhiteList
  <2>1. /\ UNCHANGED debugger
        /\ DOMAIN conf' = ConfFields
        /\ \A x \in ConfFields \ {"white_list"} : conf'[x] = conf[x]
    BY <1>2, <1>7 DEF AdminWhiteList, RefreshWhiteList, ConfFields
  <2>2. Versions'
    BY <1>1, <2>1, VersionsStep DEF ConfInv, SameLog, SameService, ConfFields
  <2>3. Configured'
    BY <1>1, <2>1 DEF ConfInv, Configured, RunningIsConfigured, ConfFields
  <2>. QED BY <2>2, <2>3
<1>8. CASE AdminDebugger
  <2>1. /\ UNCHANGED conf
        /\ debugger' = debugger \/ (debugger' = Logsys /\ conf.logsys # << >>)
    BY <1>8 DEF AdminDebugger
  <2>2. Versions'
    BY <1>1, <2>1, StillVersions DEF ConfInv
  <2>3. Configured'
    BY <1>1, <2>1, StillConfigured DEF ConfInv
  <2>. QED BY <2>2, <2>3
<1>. QED BY <1>4, <1>5, <1>6, <1>7, <1>8

(* Nothing else touches the configuration.                                 *)
LEMMA OthersConfigure ==
  ASSUME ConfInv,
         \/ TakeUsr2 \/ TakeTerm \/ UnregisterWorkers \/ CountRequests \/ Exit
         \/ \E ip \in Asker : Arrives(ip)
         \/ Take \/ Finish \/ Edit \/ \E s \in {"USR2", "TERM"} : Signal(s)
         \/ UNCHANGED vars
  PROVE  Versions' /\ Configured'
<1>1. /\ UNCHANGED <<role, conf, debugger>>
      /\ \/ UNCHANGED <<stage, admin>>
         \/ admin # None /\ stage' \in {stage, "died", "drained", "forced"}
  <2>. USE ProcessesAssumption DEF worldVars, adminVars, Leaving, Serving
  <2>1. CASE TakeUsr2 \/ TakeTerm
    BY <2>1 DEF TakeUsr2, TakeTerm
  <2>2. CASE UnregisterWorkers \/ CountRequests \/ Exit
    BY <2>2 DEF UnregisterWorkers, CountRequests, Exit
  <2>3. CASE Take \/ Finish \/ \E ip \in Asker : Arrives(ip)
    BY <2>3 DEF Take, Finish, Arrives
  <2>4. CASE Edit \/ \E s \in {"USR2", "TERM"} : Signal(s)
    BY <2>4 DEF Edit, Signal
  <2>5. CASE UNCHANGED vars
    BY <2>5 DEF vars
  <2>. QED BY <2>1, <2>2, <2>3, <2>4, <2>5
<1>2. /\ stage' = stage \/ stage' \in {"died", "drained", "forced"}
      /\ \/ stage' = stage /\ admin' = admin
         \/ stage \notin {"conf", "logger", "service", "processors", "admin"}
  BY <1>1 DEF ConfInv, Configured
<1>3. Versions'
  BY <1>1, StillVersions DEF ConfInv
<1>4. stage = "failed" => stage' = "failed"
  BY <1>1 DEF TakeUsr2, TakeTerm, UnregisterWorkers, CountRequests, Exit, Ended, Arrives,
              Take, Finish, Edit, Signal, Leaving, Serving, worldVars, adminVars, vars
<1>5. Configured'
  BY <1>1, <1>2, <1>4, StillConfigured DEF ConfInv, Configured
<1>. QED BY <1>3, <1>5

LEMMA AlwaysConfInv == FairSpec => []ConfInv
<1>1. ProcessesInit => ConfInv
  <2>1. ProcessesInit => IInv
    BY InitIInv
  <2>2. ProcessesInit => Versions
    <3>. SUFFICES ASSUME ProcessesInit PROVE Versions
      OBVIOUS
    <3>1. /\ conf.cfg_router = "" /\ conf.id = "" /\ conf.logsys = << >>
          /\ conf.protocols = << >> /\ debugger = None
      BY DEF ProcessesInit, Init
    <3>2. DOMAIN conf = ConfFields
      BY DEF ProcessesInit, Init, ConfFields
    <3>. QED BY <3>1, <3>2 DEF Versions
  <2>3. ProcessesInit => Configured
    BY DEF ProcessesInit, Configured, RunningIsConfigured
  <2>. QED BY <2>1, <2>2, <2>3 DEF ConfInv
<1>2. ConfInv /\ [Next]_vars => ConfInv'
  <2>. SUFFICES ASSUME ConfInv, [Next]_vars PROVE ConfInv'
    OBVIOUS
  <2>1. IInv'
    BY NextIInv DEF ConfInv
  <2>2. Versions' /\ Configured'
    BY MainConfigures, RefreshConfigures, OthersConfigure DEF Next, AdminThread
  <2>. QED BY <2>1, <2>2 DEF ConfInv
<1>. QED BY <1>1, <1>2, PTL DEF FairSpec

-----------------------------------------------------------------------------
(* The results.                                                            *)

(* Every variable of a process holds a value of its type.                  *)
THEOREM ProcessTyped == FairSpec => []TypeOK
<1>1. IInv => TypeOK
  BY DEF IInv
<1>. QED BY <1>1, AlwaysIInv, PTL

(* No refresh and no edit of a file opens the door of a router that was    *)
(* given a white list.                                                     *)
THEOREM DoorStaysShut == FairSpec => []OnlyListed
<1>1. IInv => OnlyListed
  BY DEF IInv, Lists, OnlyListed, Named
<1>. QED BY <1>1, AlwaysIInv, PTL

(* An exit on an empty queue leaves nothing queued of what SIGTERM met     *)
(* there.                                                                  *)
THEOREM DrainIsOrderly == FairSpec => []OrderlyDrain
<1>1. IInv => OrderlyDrain
  BY DEF IInv, Drains, OrderlyDrain
<1>. QED BY <1>1, AlwaysIInv, PTL

(* What a file's edition says about the log system, and about the service  *)
(* and its key, is in force together: no refresh mixes two editions,       *)
(* whatever the operator writes and whenever he signals.                   *)
THEOREM OneEditionHolds == FairSpec => []OneVersion
<1>1. ConfInv => OneVersion
  BY DEF ConfInv, Versions, OneVersion
<1>. QED BY <1>1, AlwaysConfInv, PTL

(* A process past its configuration has what the rest of the code takes    *)
(* for granted, whatever its files leave out and whatever refreshes read.  *)
THEOREM RunsConfigured == FairSpec => []RunningIsConfigured
<1>1. ConfInv => RunningIsConfigured
  BY DEF ConfInv, Configured
<1>. QED BY <1>1, AlwaysConfInv, PTL
=============================================================================
