------------------------------ MODULE MCRouter ------------------------------
(* Small routers.  Either every worker connection is made by a worker of   *)
(* its own, or all of them by one worker that connects again.              *)
EXTENDS Router

OwnWorker   == CHOOSE f \in [WConn -> WorkerId] : IsInjective(f)
SameWorker  == [c \in WConn |-> CHOOSE i \in WorkerId : TRUE]
OneService  == [c \in WConn |-> CHOOSE g \in GroupId : TRUE]
AlmostSent  == {[ret |-> "timeout", sent |-> "allbutlast"]}
PartlySent  == AlmostSent \cup {[ret |-> "error", sent |-> "part"]}
Everyone    == Conn
MCSymmetry  == UNION {Permutations(S) : S \in {Fd, Proc, Req, App}}
=============================================================================
