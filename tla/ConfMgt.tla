------------------------------- MODULE ConfMgt -------------------------------
(***************************************************************************)
(* The configuration of a process (libcomm/conf_mgt.cpp): the members of   *)
(* Conf_Mgt, how a start fills them from the XML files, and how a refresh  *)
(* replaces some of them.  A refresh parses a file from begin to end into  *)
(* locals and assigns them under the mutex, and only the Admin thread      *)
(* refreshes: it is one step.                                              *)
(*                                                                         *)
(* A file is a record of the elements that are there, or NoFile where      *)
(* parse_file fails; an attribute that is not there is "".  Of the system  *)
(* elements those are left out that are only copied.  Numbers are what     *)
(* strTo makes of the text: all of its target types are unsigned.  Where   *)
(* the id, which is a text, is a number, it is there once more as that.    *)
(***************************************************************************)
EXTENDS Integers, SequencesExt

CONSTANTS MinQueue,  \* 100000, the least _max_queue_size
          Cpus       \* what get_cpu_number_proc counts

VARIABLE conf

NoFile == [root |-> "none"]

Numbers == {"req_port", "worker_port", "thr_num", "max_queue_size", "rate_limiting",
            "unregister_failed_num", "unregister_timeout_num",
            "conn_timeout", "rw_timeout", "id_number"}

(* A <protocol> of the standard service.                                   *)
ServiceProtocol == [cmd : STRING, url : STRING, sign : STRING, mode : STRING, key : STRING]

(* What a file can look like to the code that reads it.                    *)
FileTyped(f) ==
  /\ \A k \in Numbers \cap DOMAIN f : f[k] \in Nat
  /\ f.root = "protocols" /\ "protocol" \in DOMAIN f => f.protocol \in Seq(ServiceProtocol)

ASSUME ConfMgtAssumption == MinQueue \in Nat

Init ==
  conf = [id |-> "", thr_num |-> 0, max_queue_size |-> 0,
          unregister_failed_num |-> 3, unregister_timeout_num |-> 5,
          req_port |-> 0, worker_port |-> 0, white_list |-> {},
          category |-> "", regional |-> "", logsys |-> << >>,
          group_id |-> "", service_id |-> "", plug_in |-> "", conf |-> "", routers |-> << >>,
          key |-> "", conn_timeout |-> 3, rw_timeout |-> 3, protocols |-> << >>,
          ways |-> {},
          cfg_router |-> "", cfg_worker |-> "", cfg_white_list |-> "",
          cfg_service_protocol |-> ""]

-----------------------------------------------------------------------------
(* Reading elements.                                                       *)

(* Where an element is missing, the code goes on with the XML_Node of the  *)
(* one before it.  Whether get_node leaves that as it was is up to the     *)
(* library: if it does, the text of the nearest element before counts.     *)
Nearest(f, keys) ==
  LET here == {i \in DOMAIN keys : keys[i] \in DOMAIN f}
  IN  IF here = {} THEN 0 ELSE f[keys[Min(here)]]

Number(f, key, before, stale) ==
  IF key \in DOMAIN f THEN f[key] ELSE IF stale THEN Nearest(f, before) ELSE 0

OrDefault(n, default) == IF n = 0 THEN default ELSE n
OrIfEmpty(s, default) == IF s = "" THEN default ELSE s

(* <svr ip= port=>: one bad entry spoils the list.                         *)
ServersOk(svrs) == \A i \in DOMAIN svrs : svrs[i].ip # "" /\ svrs[i].port # 0

(* At a start a logsys without servers will do.                            *)
LogsysOk(f) ==
  /\ "logsys" \in DOMAIN f
  /\ f.logsys.category # "" /\ ServersOk(f.logsys.svr)

ThrNum(f) == IF "thr_num" \in DOMAIN f THEN f.thr_num ELSE Cpus

QueueSize(f, before, stale) ==
  LET n == Number(f, "max_queue_size", before, stale)
  IN  IF n < MinQueue THEN MinQueue ELSE n

-----------------------------------------------------------------------------
(* The start of a router.                                                  *)

(* The port for the workers is not checked: conf_mgt.cpp:82 looks at the   *)
(* other one again.                                                        *)
RouterFileOk(f) ==
  /\ f.root = "dip_router"
  /\ "id" \in DOMAIN f /\ f.id # ""
  /\ "req_port" \in DOMAIN f /\ f.req_port # 0
  /\ "worker_port" \in DOMAIN f
  /\ "white_list" \in DOMAIN f => f.white_list # ""
  /\ LogsysOk(f)

(* A list that cannot be read is an empty one, which lets everybody in.    *)
Listed(w) ==
  IF w.root = "white_list" /\ "svr" \in DOMAIN w THEN {ip \in w.svr : ip # ""} ELSE {}

(* Mutant: an absent threshold is 0.                                       *)
NoThreshold(f, key, before, stale, default) == Number(f, key, before, stale)

Threshold(f, key, before, stale, default) ==
  OrDefault(Number(f, key, before, stale), default)

(* init_router, with init_white_list in it; white is the file it names.    *)
InitRouter(path, f, white, stale) ==
  LET numbers == <<"rate_limiting", "max_queue_size", "thr_num", "worker_port">> IN
  /\ RouterFileOk(f)
  /\ conf' = [conf EXCEPT
       !.cfg_router = path, !.id = f.id,
       !.req_port = f.req_port, !.worker_port = f.worker_port,
       !.thr_num = ThrNum(f),
       !.max_queue_size = QueueSize(f, <<"thr_num", "worker_port">>, stale),
       !.unregister_failed_num =
          Threshold(f, "unregister_failed_num", numbers, stale, 3),
       !.unregister_timeout_num =
          Threshold(f, "unregister_timeout_num",
                    <<"unregister_failed_num">> \o numbers, stale, 5),
       !.cfg_white_list = IF "white_list" \in DOMAIN f THEN f.white_list ELSE @,
       !.white_list = IF "white_list" \in DOMAIN f THEN Listed(white) ELSE @,
       !.category = f.logsys.category,
       !.regional = OrIfEmpty(f.logsys.regional, "LOCAL"),
       !.logsys = f.logsys.svr]

-----------------------------------------------------------------------------
(* The start of a worker.                                                  *)

RoutersOk(f) == "router" \in DOMAIN f /\ f.router # << >> /\ ServersOk(f.router)

WorkerFileOk(f) ==
  /\ f.root = "dip_worker"
  /\ "id" \in DOMAIN f /\ f.id # ""
  /\ "group" \in DOMAIN f /\ f.group.group_id # "" /\ f.group.plug_in # ""
  /\ RoutersOk(f) /\ LogsysOk(f)

InitWorker(path, f, stale) ==
  /\ WorkerFileOk(f)
  /\ conf' = [conf EXCEPT
       !.cfg_worker = path, !.id = f.id,
       !.thr_num = ThrNum(f),
       !.max_queue_size = QueueSize(f, <<"thr_num", "id_number">>, stale),
       !.group_id = f.group.group_id,
       !.service_id = OrIfEmpty(f.group.service_id, f.group.group_id),
       !.plug_in = f.group.plug_in, !.conf = f.group.conf,
       !.routers = f.router,
       !.category = f.logsys.category,
       !.regional = OrIfEmpty(f.logsys.regional, "LOCAL"),
       !.logsys = f.logsys.svr]

-----------------------------------------------------------------------------
(* The file of the standard service.                                       *)

GlobalKey(f) == IF "key" \in DOMAIN f THEN f.key ELSE ""

ProtocolOk(p, key) ==
  /\ p.cmd # "" /\ p.url # "" /\ p.sign # ""
  /\ p.mode \in {"http_get", "https_get"}
  /\ p.key # "" \/ key # ""

ProtocolsOk(f, key) ==
  /\ f.root = "protocols" /\ "protocol" \in DOMAIN f /\ f.protocol # << >>
  /\ \A i \in DOMAIN f.protocol : ProtocolOk(f.protocol[i], key)

(* Of two protocols with one cmd the first stays.                          *)
ProtocolMap(f, key) ==
  [c \in {p.cmd : p \in Range(f.protocol)} |->
     LET first == Min({i \in DOMAIN f.protocol : f.protocol[i].cmd = c})
     IN  [f.protocol[first] EXCEPT !.key = OrIfEmpty(@, key)]]

Timeout(f, name, absent) ==
  IF name \in DOMAIN f THEN OrDefault(f[name], 3) ELSE absent

InitServiceProtocol(path, f) ==
  LET key == GlobalKey(f) IN
  /\ ProtocolsOk(f, key)
  /\ conf' = [conf EXCEPT
       !.cfg_service_protocol = path, !.key = key,
       !.conn_timeout = Timeout(f, "conn_timeout", @),
       !.rw_timeout = Timeout(f, "rw_timeout", @),
       !.protocols = ProtocolMap(f, key)]

(* The file of the notification service: which ways it may use.            *)
WaysOk(f) ==
  /\ f.root = "notification" /\ "protocol" \in DOMAIN f /\ f.protocol # << >>
  /\ \A i \in DOMAIN f.protocol :
       f.protocol[i].mode \in {"email", "EQQ"} /\ f.protocol[i].complete

InitNotificationCfg(f) ==
  /\ WaysOk(f)
  /\ conf' = [conf EXCEPT
       !.conn_timeout = Timeout(f, "conn_timeout", @),
       !.rw_timeout = Timeout(f, "rw_timeout", @),
       !.ways = {p.mode : p \in Range(f.protocol)}]

-----------------------------------------------------------------------------
(* Refreshing: all of what belongs together, or nothing.                   *)

(* Mutant: the category is assigned before the servers are looked at.      *)
RefreshLogsysEarly(f, tag) ==
  IF f.root = tag /\ "logsys" \in DOMAIN f /\ f.logsys.category # ""
  THEN conf' = [conf EXCEPT
         !.category = f.logsys.category,
         !.logsys = IF f.logsys.svr # << >> /\ ServersOk(f.logsys.svr)
                    THEN f.logsys.svr ELSE @]
  ELSE UNCHANGED conf

(* f is what _cfg_router names: in a worker that is nothing, whatever the  *)
(* tag.                                                                    *)
RefreshLogsys(f, tag) ==
  IF f.root = tag /\ LogsysOk(f) /\ f.logsys.svr # << >>
  THEN conf' = [conf EXCEPT
         !.category = f.logsys.category,
         !.regional = OrIfEmpty(f.logsys.regional, "LOCAL"),
         !.logsys = f.logsys.svr]
  ELSE UNCHANGED conf

(* Mutant: a list that cannot be read empties the one there is.            *)
RefreshToEmpty(w) == conf' = [conf EXCEPT !.white_list = Listed(w)]

RefreshWhiteList(w) ==
  IF Listed(w) = {} THEN UNCHANGED conf
  ELSE conf' = [conf EXCEPT !.white_list = Listed(w)]

RefreshRouters(f) ==
  IF f.root = "dip_worker" /\ RoutersOk(f)
  THEN conf' = [conf EXCEPT !.routers = f.router]
  ELSE UNCHANGED conf

(* An absent timeout is 0 from now on, and not the 3 of the start.         *)
RefreshServiceProtocol(f) ==
  LET key == GlobalKey(f) IN
  IF ProtocolsOk(f, key)
  THEN conf' = [conf EXCEPT
         !.key = key,
         !.conn_timeout = Timeout(f, "conn_timeout", 0),
         !.rw_timeout = Timeout(f, "rw_timeout", 0),
         !.protocols = ProtocolMap(f, key)]
  ELSE UNCHANGED conf
=============================================================================
