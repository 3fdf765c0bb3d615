---------------------------- MODULE MCWorkerMgt ----------------------------
(* The registry with four workers, four descriptors and two services: the  *)
(* smallest in which a removal can shift a worker past the load index.     *)
EXTENDS WorkerRotation

MCWorker   == [id : WorkerId, fd : Fd, group : GroupId]
MCSymmetry == Permutations(WorkerId) \cup Permutations(Fd)
=============================================================================
