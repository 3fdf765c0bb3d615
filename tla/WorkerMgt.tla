----------------------------- MODULE WorkerMgt -----------------------------
(***************************************************************************)
(* The router's registry of workers: class Worker_Mgt, one singleton, and  *)
(* the class Workers it keeps per group (router/worker_mgt.cpp).  Every    *)
(* method of Worker_Mgt holds its _mutex from entry to return, so each one *)
(* is a single step here.  Two methods report a result; the action that    *)
(* models such a method takes it as its last parameter.                    *)
(*                                                                         *)
(* A Worker object is a record with at least the fields id, fd and group   *)
(* (Worker::_id, _fd, _group_id).  The serial number Worker::_index, which *)
(* is only logged, is left out.                                            *)
(***************************************************************************)
EXTENDS Integers, SequencesExt, StdMaps

CONSTANTS WorkerId,   \* the names workers register under
          Fd,         \* the file descriptors of the router process
          GroupId,    \* the services workers offer
          Worker,     \* the Worker objects handle_input may build
          NoWorker    \* a null Worker_Ptr

ASSUME WorkerAssumption ==
  /\ \A w \in Worker : w.id \in WorkerId /\ w.fd \in Fd /\ w.group \in GroupId
  /\ NoWorker \notin Worker

VARIABLES fds,      \* Worker_Mgt::_fds: fd -> the Worker registered on it
          workers,  \* Worker_Mgt::_workers: the registered worker ids
          groups    \* Worker_Mgt::_groups: group id -> Workers

vars == <<fds, workers, groups>>

(* The answers register_worker gives (error_code.h and the literal -2).    *)
OK                    == 0
ERR_WORKER_REGISTERED == -587
ERR_FD_EXISTS         == -2

-----------------------------------------------------------------------------
(* Class Workers: the vector _workers and the load index _index, 0-based.  *)
NewWorkers(w)      == [workers |-> <<w>>, index |-> 0]
AddTo(ws, w)       == [ws EXCEPT !.workers = Append(@, w)]

(* Mutant: the first worker is erased, whatever its fd.                    *)
FirstPosition(s, fd) == 1

(* Where Workers::unregister_worker's search for an fd stops.              *)
Position(s, fd) ==
  CHOOSE i \in DOMAIN s : s[i].fd = fd /\ \A j \in 1 .. (i - 1) : s[j].fd # fd

RemoveFrom(ws, fd) ==
  IF \E i \in DOMAIN ws.workers : ws.workers[i].fd = fd
  THEN [ws EXCEPT !.workers = RemoveAt(@, Position(@, fd))]
  ELSE ws

-----------------------------------------------------------------------------
Init == /\ fds = << >>
        /\ workers = {}
        /\ groups = << >>

(* Mutant: an id is accepted a second time.                                *)
RefusalByFd(w) == IF w.fd \in DOMAIN fds THEN ERR_FD_EXISTS ELSE OK

(***************************************************************************)
(* Worker_Mgt::register_worker: a known id is refused before a known fd    *)
(* is, and only then are the three tables changed together.                *)
(***************************************************************************)
Refusal(w) == IF w.id \in workers THEN ERR_WORKER_REGISTERED
              ELSE IF w.fd \in DOMAIN fds THEN ERR_FD_EXISTS ELSE OK

RegisterWorker(w, ret) ==
  /\ ret = Refusal(w)
  /\ IF ret # OK
     THEN UNCHANGED vars
     ELSE /\ fds' = Insert(fds, w.fd, w)
          /\ workers' = workers \cup {w.id}
          /\ groups' = Insert(groups, w.group,
                              IF w.group \in DOMAIN groups
                              THEN AddTo(groups[w.group], w)
                              ELSE NewWorkers(w))

(***************************************************************************)
(* Worker_Mgt::unregister_worker: whatever Worker object it is given, it   *)
(* removes the one registered on that object's fd, and with it a group     *)
(* that has become empty.                                                  *)
(***************************************************************************)
UnregisterWorker(fd) ==
  \/ /\ fd \notin DOMAIN fds
     /\ UNCHANGED vars
  \/ /\ fd \in DOMAIN fds
     /\ LET w == fds[fd] IN
        /\ groups' = IF w.group \notin DOMAIN groups THEN groups
                     ELSE LET left == RemoveFrom(groups[w.group], w.fd)
                          IN IF left.workers = << >>
                             THEN Erase(groups, w.group)
                             ELSE Insert(groups, w.group, left)
        /\ workers' = workers \ {w.id}
        /\ fds' = Erase(fds, fd)

(***************************************************************************)
(* Worker_Mgt::get_worker(group_id): the next worker of the group in turn. *)
(* It answers true whenever the group exists: if the group had no worker   *)
(* left, the caller would be told true and keep its null pointer.          *)
(***************************************************************************)
(* Mutant: the turn comes round one worker early.                          *)
TurnTooSoon(ws) == IF ws.index >= Len(ws.workers) - 1 THEN 0 ELSE ws.index

Turn(ws) == IF ws.index >= Len(ws.workers) THEN 0 ELSE ws.index

(* Mutant: the load index runs backwards.                                  *)
GetWorkerBackwards(g, w) ==
  /\ g \in DOMAIN groups
  /\ LET ws == groups[g] IN
     /\ ws.workers # << >> /\ w = ws.workers[Turn(ws) + 1]
     /\ groups' = [groups EXCEPT ![g].index = Turn(ws) - 1]
  /\ UNCHANGED <<fds, workers>>

GetWorker(g, w) ==
  /\ g \in DOMAIN groups
  /\ LET ws == groups[g] IN
     IF ws.workers = << >>
     THEN w = NoWorker /\ UNCHANGED groups
     ELSE /\ w = ws.workers[Turn(ws) + 1]
          /\ groups' = [groups EXCEPT ![g].index = Turn(ws) + 1]
  /\ UNCHANGED <<fds, workers>>

-----------------------------------------------------------------------------
(***************************************************************************)
(* The registry against any sequence of calls: handle_input registers any  *)
(* Worker object, handle_input, handle_close and the senders unregister    *)
(* any fd, the processors ask for any group.                               *)
(***************************************************************************)
Next == \/ \E w \in Worker, ret \in {OK, ERR_WORKER_REGISTERED, ERR_FD_EXISTS} :
             RegisterWorker(w, ret)
        \/ \E fd \in Fd : UnregisterWorker(fd)
        \/ \E g \in GroupId, w \in Worker \cup {NoWorker} : GetWorker(g, w)

Spec == Init /\ [][Next]_vars

-----------------------------------------------------------------------------
(* The three tables hold values of their C++ types.                        *)
TypeOK ==
  /\ DOMAIN fds \subseteq Fd
  /\ fds \in [DOMAIN fds -> Worker]
  /\ workers \subseteq WorkerId
  /\ DOMAIN groups \subseteq GroupId
  /\ groups \in [DOMAIN groups -> [workers : Seq(Worker), index : Nat]]

(* Two registered workers never share an id, and each is stored under its  *)
(* own fd ("each worker has an fd of its own", worker.h).                  *)
IdentityUnique ==
  /\ \A f \in DOMAIN fds : fds[f].fd = f
  /\ \A f, g \in DOMAIN fds : fds[f].id = fds[g].id => f = g

(* The set of ids tells exactly the workers in the fd table: an id left    *)
(* behind would lock its worker out of every later registration.           *)
IdsAreTheRegistered == workers = {fds[f].id : f \in DOMAIN fds}

(* A worker in the fd table can be chosen by its group, and only by it.    *)
EveryWorkerIsReachable ==
  \A f \in DOMAIN fds :
    /\ fds[f].group \in DOMAIN groups
    /\ \E i \in DOMAIN groups[fds[f].group].workers :
         groups[fds[f].group].workers[i] = fds[f]

(* What a group hands out is registered, under that group, and listed once *)
(* (a second entry would outlive the worker's unregistration).             *)
GroupsHoldTheRegistered ==
  \A g \in DOMAIN groups :
    LET ws == groups[g].workers IN
    /\ \A i \in DOMAIN ws : /\ ws[i].group = g
                            /\ ws[i].fd \in DOMAIN fds
                            /\ fds[ws[i].fd] = ws[i]
    /\ \A i, j \in DOMAIN ws : ws[i].fd = ws[j].fd => i = j

(* No group is empty: get_worker's true always comes with a worker, and    *)
(* Workers::get_worker never logs through its caller's null pointer.       *)
NoEmptyGroup == \A g \in DOMAIN groups : groups[g].workers # << >>

(* The registry's tables agree: the inductive invariant of the registry.   *)
Consistent == /\ IdentityUnique
              /\ IdsAreTheRegistered
              /\ EveryWorkerIsReachable
              /\ GroupsHoldTheRegistered
              /\ NoEmptyGroup

(* What get_worker's caller relies on: the answer true always comes with a *)
(* worker, one that is registered at that moment under the group asked for *)
(* (Processor::svc dereferences it without a check).                       *)
ChoiceIsRegistered ==
  [][\A g \in GroupId, w \in Worker \cup {NoWorker} :
       GetWorker(g, w) => /\ w # NoWorker
                          /\ w.group = g
                          /\ w.fd \in DOMAIN fds
                          /\ fds[w.fd] = w]_vars
=============================================================================
