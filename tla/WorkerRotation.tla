--------------------------- MODULE WorkerRotation ---------------------------
(***************************************************************************)
(* Who a group hands out, and how often: the registry of WorkerMgt with a  *)
(* history of the choices get_worker made, to say what its load index is   *)
(* for ("divide equally", worker_mgt.cpp, Workers::get_worker).            *)
(***************************************************************************)
EXTENDS WorkerMgt

VARIABLE recent   \* group -> its last choices since its membership changed,
                  \* as many as it has workers

rotVars == <<vars, recent>>

Members(g) == IF g \in DOMAIN groups THEN groups[g].workers ELSE << >>

(* The last n elements of s. *)
Latest(s, n) == SubSeq(s, Len(s) - n + 1, Len(s))

RotInit == Init /\ recent = [g \in GroupId |-> << >>]

(* A membership change starts the group's history again.                   *)
Forget == recent' = [g \in GroupId |->
                       IF Members(g)' = Members(g) THEN recent[g] ELSE << >>]

Register(w) == (\E ret \in {OK, ERR_WORKER_REGISTERED, ERR_FD_EXISTS} :
                  RegisterWorker(w, ret)) /\ Forget

Unregister(fd) == UnregisterWorker(fd) /\ Forget

Choose(g) ==
  \E w \in Worker \cup {NoWorker} :
    /\ GetWorker(g, w)
    /\ LET past == Append(recent[g], w)
           n    == Len(Members(g))
       IN recent' = [recent EXCEPT ![g] = IF Len(past) > n THEN Latest(past, n) ELSE past]

RotNext == \/ \E w \in Worker : Register(w)
           \/ \E fd \in Fd : Unregister(fd)
           \/ \E g \in GroupId : Choose(g)

RotSpec == RotInit /\ [][RotNext]_rotVars

-----------------------------------------------------------------------------
(* As long as a group's membership stands, no worker is chosen a second    *)
(* time before every other one has been chosen: among any n choices in a   *)
(* row, n the size of the group, there is no repetition.                   *)
EvenShare == \A g \in GroupId : IsInjective(recent[g])
=============================================================================
