----------------------------- MODULE MCProcesses -----------------------------
(* A router and a worker, each with a good edition of its files and with   *)
(* editions that are bad in different places.                              *)
EXTENDS Processes

Svr(ip, port) == [ip |-> ip, port |-> port]
Log(category, svr) == [category |-> category, regional |-> "", svr |-> svr]

RouterFile == [root |-> "dip_router", id |-> "R", req_port |-> 1, worker_port |-> 2,
               white_list |-> "side", logsys |-> Log("one", <<Svr("log", 9)>>)]
RouterFiles ==
  { RouterFile,
    [RouterFile EXCEPT !.logsys = Log("two", <<Svr("log", 9), Svr("log", 0)>>)],
    [root |-> "dip_router", id |-> "R", req_port |-> 1, worker_port |-> 0, thr_num |-> 0,
     unregister_failed_num |-> 0, logsys |-> Log("three", << >>)],
    NoFile }
WhiteLists == { [root |-> "white_list", svr |-> {"a", ""}],
                [root |-> "white_list", svr |-> {"b"}],
                [root |-> "white_list", svr |-> {""}], NoFile }

WorkerFile == [root |-> "dip_worker", id |-> "W", router |-> <<Svr("r", 2)>>,
               group |-> [group_id |-> "g", service_id |-> "", plug_in |-> "standard",
                          conf |-> "side"],
               logsys |-> Log("one", << >>)]
WorkerFiles ==
  { WorkerFile,
    [WorkerFile EXCEPT !.router = <<Svr("r", 2), Svr("", 2)>>],
    [WorkerFile EXCEPT !.id = "200", !.group.plug_in = "notification",
                       !.logsys = Log("two", <<Svr("log", 9)>>)] @@ ("id_number" :> 200),
    NoFile }

Protocol(cmd, key) == [cmd |-> cmd, url |-> "u", sign |-> "s", mode |-> "http_get", key |-> key]
ServiceFiles ==
  { [root |-> "protocols", key |-> "k", conn_timeout |-> 5,
     protocol |-> <<Protocol("query", ""), Protocol("query", "q"), Protocol("pay", "p")>>],
    [root |-> "protocols", protocol |-> <<Protocol("query", "q")>>],
    [root |-> "protocols", protocol |-> <<Protocol("query", "q"), Protocol("pay", "")>>],
    [root |-> "notification", protocol |-> <<[mode |-> "EQQ", complete |-> TRUE]>>] }

MCMain == [router |-> RouterFiles, worker |-> WorkerFiles]
MCSide == [router |-> WhiteLists, worker |-> ServiceFiles]
=============================================================================
