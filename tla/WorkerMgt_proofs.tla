-------------------------- MODULE WorkerMgt_proofs --------------------------
(***************************************************************************)
(* The registry's tables keep their types and agree with each other after  *)
(* any sequence of calls, whatever the sets of ids, descriptors and        *)
(* services are.                                                           *)
(***************************************************************************)
EXTENDS WorkerMgt, SequenceTheorems, TLAPS

-----------------------------------------------------------------------------
(* Facts about the helpers.                                                *)

(* What std::vector::erase leaves: one element less, the order kept.       *)
LEMMA RemoveAtFacts ==
  ASSUME NEW S, NEW s \in Seq(S), NEW i \in 1 .. Len(s)
  PROVE  /\ RemoveAt(s, i) \in Seq(S)
         /\ Len(RemoveAt(s, i)) = Len(s) - 1
         /\ \A j \in 1 .. (Len(s) - 1) :
              RemoveAt(s, i)[j] = IF j < i THEN s[j] ELSE s[j + 1]
<1> DEFINE a == SubSeq(s, 1, i - 1)
           b == SubSeq(s, i + 1, Len(s))
<1>1. a \in Seq(S) /\ Len(a) = i - 1 /\ \A j \in 1 .. (i - 1) : a[j] = s[j]
  BY SubSeqProperties
<1>2. b \in Seq(S) /\ Len(b) = Len(s) - i
        /\ \A j \in 1 .. (Len(s) - i) : b[j] = s[i + j]
  <2>1. CASE i = Len(s)
    BY <2>1, SubSeqProperties
  <2>2. CASE i < Len(s)
    BY <2>2, SubSeqProperties
  <2>. QED BY <2>1, <2>2
<1>3. RemoveAt(s, i) = a \o b
  BY DEF RemoveAt
<1>. HIDE DEF a, b
<1>4. a \o b \in Seq(S) /\ Len(a \o b) = Len(a) + Len(b)
        /\ \A j \in 1 .. (Len(a) + Len(b)) :
             (a \o b)[j] = IF j <= Len(a) THEN a[j] ELSE b[j - Len(a)]
  BY <1>1, <1>2, ConcatProperties
<1>. QED BY <1>1, <1>2, <1>3, <1>4

(* The vector of a group after unregister_worker(fd): the entry of fd is   *)
(* gone, every other one is still there, and none has been doubled.        *)
LEMMA RemoveFromFacts ==
  ASSUME NEW ws \in [workers : Seq(Worker), index : Nat], NEW fd,
         \A i, j \in DOMAIN ws.workers :
           ws.workers[i].fd = ws.workers[j].fd => i = j,
         \E i \in DOMAIN ws.workers : ws.workers[i].fd = fd
  PROVE  LET t == RemoveFrom(ws, fd) IN
         /\ t \in [workers : Seq(Worker), index : Nat]
         /\ \A j \in DOMAIN t.workers :
              /\ t.workers[j].fd # fd
              /\ \E k \in DOMAIN ws.workers : t.workers[j] = ws.workers[k]
         /\ \A k \in DOMAIN ws.workers : ws.workers[k].fd # fd =>
              \E j \in DOMAIN t.workers : t.workers[j] = ws.workers[k]
         /\ \A i, j \in DOMAIN t.workers :
              t.workers[i].fd = t.workers[j].fd => i = j
<1> DEFINE s == ws.workers
           p == Position(s, fd)
           t == RemoveAt(s, p)
<1>1. s \in Seq(Worker) /\ DOMAIN s = 1 .. Len(s) /\ Len(s) \in Nat
  OBVIOUS
<1>2. p \in 1 .. Len(s) /\ s[p].fd = fd
  <2>1. PICK i \in DOMAIN s : s[i].fd = fd
    OBVIOUS
  <2>2. \A j \in 1 .. (i - 1) : s[j].fd # fd
    BY <1>1, <2>1
  <2>. QED BY <1>1, <2>1, <2>2 DEF Position
<1>3. RemoveFrom(ws, fd) = [ws EXCEPT !.workers = t]
  BY DEF RemoveFrom
<1>. HIDE DEF p, t
<1>4. /\ t \in Seq(Worker)
      /\ Len(t) = Len(s) - 1
      /\ \A j \in 1 .. (Len(s) - 1) : t[j] = IF j < p THEN s[j] ELSE s[j + 1]
  BY <1>1, <1>2, RemoveAtFacts DEF t
<1>5. DOMAIN t = 1 .. (Len(s) - 1)
  BY <1>4
<1>6. \A j \in DOMAIN t :
        \E k \in DOMAIN s : t[j] = s[k] /\ k # p /\ k = (IF j < p THEN j ELSE j + 1)
  BY <1>1, <1>2, <1>4, <1>5
<1>7. \A k \in DOMAIN s : k # p => \E j \in DOMAIN t : t[j] = s[k]
  <2>. SUFFICES ASSUME NEW k \in DOMAIN s, k # p
                PROVE  \E j \in DOMAIN t : t[j] = s[k]
    OBVIOUS
  <2>1. CASE k < p
    BY <2>1, <1>1, <1>2, <1>4, <1>5
  <2>2. CASE k > p
    <3>1. k - 1 \in DOMAIN t /\ t[k - 1] = s[k]
      BY <2>2, <1>1, <1>2, <1>4, <1>5
    <3>. QED BY <3>1
  <2>. QED BY <2>1, <2>2, <1>1, <1>2
<1>8. \A i, j \in DOMAIN t : t[i].fd = t[j].fd => i = j
  <2>. SUFFICES ASSUME NEW i \in DOMAIN t, NEW j \in DOMAIN t, t[i].fd = t[j].fd
                PROVE  i = j
    OBVIOUS
  <2>1. PICK k \in DOMAIN s : t[i] = s[k] /\ k = (IF i < p THEN i ELSE i + 1)
    BY <1>6
  <2>2. PICK l \in DOMAIN s : t[j] = s[l] /\ l = (IF j < p THEN j ELSE j + 1)
    BY <1>6
  <2>3. k = l
    BY <2>1, <2>2
  <2>. QED BY <2>1, <2>2, <2>3, <1>1, <1>2, <1>5
<1>9. \A j \in DOMAIN t : t[j].fd # fd
  BY <1>1, <1>2, <1>6
<1>10. /\ RemoveFrom(ws, fd) \in [workers : Seq(Worker), index : Nat]
       /\ RemoveFrom(ws, fd).workers = t
  BY <1>3, <1>4
<1>11. \A k \in DOMAIN s : s[k].fd # fd => \E j \in DOMAIN t : t[j] = s[k]
  BY <1>2, <1>7
<1>12. \A j \in DOMAIN t : \E k \in DOMAIN s : t[j] = s[k]
  BY <1>6
<1>. QED BY <1>8, <1>9, <1>10, <1>11, <1>12

-----------------------------------------------------------------------------
(* The invariant and one lemma per operation.                              *)

IInv == TypeOK /\ Consistent

(* register_worker: a refusal changes nothing; an accepted worker has a    *)
(* new id and a new fd, so it is appended to its group exactly once.       *)
LEMMA RegisterKeepsIInv ==
  ASSUME IInv, NEW w \in Worker, NEW ret, RegisterWorker(w, ret)
  PROVE  IInv'
<1>. USE WorkerAssumption
<1>1. CASE ret # OK
  BY <1>1 DEF IInv, TypeOK, Consistent, IdentityUnique, IdsAreTheRegistered,
     EveryWorkerIsReachable, GroupsHoldTheRegistered, NoEmptyGroup,
     RegisterWorker, vars
<1>2. CASE ret = OK
  <2>1. w.id \notin workers /\ w.fd \notin DOMAIN fds
    BY <1>2 DEF RegisterWorker, Refusal, OK, ERR_WORKER_REGISTERED, ERR_FD_EXISTS
  <2>2. /\ fds' = Insert(fds, w.fd, w)
        /\ workers' = workers \cup {w.id}
        /\ groups' = Insert(groups, w.group,
                            IF w.group \in DOMAIN groups
                            THEN AddTo(groups[w.group], w)
                            ELSE NewWorkers(w))
    BY <1>2 DEF RegisterWorker
  <2>3. /\ DOMAIN fds' = DOMAIN fds \cup {w.fd}
        /\ fds'[w.fd] = w
        /\ \A f \in DOMAIN fds : fds'[f] = fds[f]
    BY <2>1, <2>2 DEF Insert
  <2>4. DOMAIN groups' = DOMAIN groups \cup {w.group}
    BY <2>2 DEF Insert
  <2>5. \A g \in DOMAIN groups : g # w.group => groups'[g] = groups[g]
    BY <2>2 DEF Insert
  (* The group of w afterwards: its old vector, then w.                    *)
  <2>6. PICK old \in Seq(Worker), n \in Nat :
          /\ groups'[w.group] = [workers |-> Append(old, w), index |-> n]
          /\ w.group \in DOMAIN groups => old = groups[w.group].workers
          /\ w.group \notin DOMAIN groups => old = << >>
    <3>1. CASE w.group \in DOMAIN groups
      <4>1. groups[w.group] \in [workers : Seq(Worker), index : Nat]
        BY <3>1 DEF IInv, TypeOK
      <4>2. groups'[w.group] = [groups[w.group] EXCEPT !.workers = Append(@, w)]
        BY <2>2, <3>1 DEF Insert, AddTo
      <4>3. groups'[w.group] = [workers |-> Append(groups[w.group].workers, w),
                                index |-> groups[w.group].index]
        BY <4>1, <4>2
      <4>. QED BY <3>1, <4>1, <4>3
    <3>2. CASE w.group \notin DOMAIN groups
      <4>1. groups'[w.group] = [workers |-> <<w>>, index |-> 0]
        BY <2>2, <3>2 DEF Insert, NewWorkers
      <4>2. <<w>> = Append(<< >>, w) /\ << >> \in Seq(Worker)
        OBVIOUS
      <4>. QED BY <3>2, <4>1, <4>2
    <3>. QED BY <3>1, <3>2
  <2>7. DEFINE new == Append(old, w)
  <2>8. /\ new \in Seq(Worker)
        /\ DOMAIN new = 1 .. (Len(old) + 1)
        /\ Len(old) \in Nat
        /\ new[Len(old) + 1] = w
        /\ \A i \in 1 .. Len(old) : new[i] = old[i]
    OBVIOUS
  <2>9. \A i \in 1 .. Len(old) : /\ old[i].group = w.group
                                 /\ old[i].fd \in DOMAIN fds
                                 /\ fds[old[i].fd] = old[i]
    BY <2>6 DEF IInv, Consistent, GroupsHoldTheRegistered
  <2>10. \A i, j \in 1 .. Len(old) : old[i].fd = old[j].fd => i = j
    BY <2>6 DEF IInv, Consistent, GroupsHoldTheRegistered
  <2>11. groups'[w.group].workers = new
    BY <2>6
  <2>. HIDE DEF new
  <2>12. TypeOK'
    <3>1. DOMAIN fds' \subseteq Fd /\ fds' \in [DOMAIN fds' -> Worker]
      BY <2>2, <2>3 DEF IInv, TypeOK, Insert
    <3>2. workers' \subseteq WorkerId
      BY <2>2 DEF IInv, TypeOK
    <3>3. groups'[w.group] \in [workers : Seq(Worker), index : Nat]
      BY <2>6, <2>8 DEF new
    <3>4. \A g \in DOMAIN groups' : groups'[g] \in [workers : Seq(Worker), index : Nat]
      BY <2>4, <2>5, <3>3 DEF IInv, TypeOK
    <3>5. groups' \in [DOMAIN groups' -> [workers : Seq(Worker), index : Nat]]
      BY <2>2, <3>4 DEF Insert
    <3>. QED BY <2>4, <3>1, <3>2, <3>5 DEF IInv, TypeOK
  <2>13. IdentityUnique'
    BY <2>1, <2>3 DEF IInv, Consistent, IdentityUnique, IdsAreTheRegistered
  <2>14. IdsAreTheRegistered'
    BY <2>2, <2>3 DEF IInv, Consistent, IdsAreTheRegistered
  <2>15. EveryWorkerIsReachable'
    <3>. SUFFICES ASSUME NEW f \in DOMAIN fds'
                  PROVE  /\ fds'[f].group \in DOMAIN groups'
                         /\ \E i \in DOMAIN groups'[fds'[f].group].workers :
                              groups'[fds'[f].group].workers[i] = fds'[f]
      BY DEF EveryWorkerIsReachable
    <3>1. CASE f = w.fd
      BY <3>1, <2>3, <2>4, <2>8, <2>11
    <3>2. CASE f # w.fd
      <4>1. f \in DOMAIN fds /\ fds'[f] = fds[f]
        BY <3>2, <2>3
      <4>2. PICK i \in DOMAIN groups[fds[f].group].workers :
              /\ fds[f].group \in DOMAIN groups
              /\ groups[fds[f].group].workers[i] = fds[f]
        BY <4>1 DEF IInv, Consistent, EveryWorkerIsReachable
      <4>3. CASE fds[f].group = w.group
        <5>1. i \in 1 .. Len(old) /\ old[i] = fds[f]
          BY <4>2, <4>3, <2>6
        <5>. QED BY <5>1, <4>1, <4>3, <2>4, <2>8, <2>11
      <4>4. CASE fds[f].group # w.group
        BY <4>1, <4>2, <4>4, <2>4, <2>5
      <4>. QED BY <4>3, <4>4
    <3>. QED BY <3>1, <3>2
  <2>16. GroupsHoldTheRegistered'
    <3>. SUFFICES ASSUME NEW g \in DOMAIN groups'
                  PROVE  LET ws == groups'[g].workers IN
                         /\ \A i \in DOMAIN ws : /\ ws[i].group = g
                                                 /\ ws[i].fd \in DOMAIN fds'
                                                 /\ fds'[ws[i].fd] = ws[i]
                         /\ \A i, j \in DOMAIN ws : ws[i].fd = ws[j].fd => i = j
      BY DEF GroupsHoldTheRegistered
    <3>1. CASE g # w.group
      <4>1. g \in DOMAIN groups /\ groups'[g] = groups[g]
        BY <3>1, <2>4, <2>5
      <4>. QED BY <4>1, <2>3 DEF IInv, Consistent, GroupsHoldTheRegistered
    <3>2. CASE g = w.group
      <4>1. \A i \in DOMAIN new : /\ new[i].group = g
                                  /\ new[i].fd \in DOMAIN fds'
                                  /\ fds'[new[i].fd] = new[i]
        BY <3>2, <2>3, <2>8, <2>9
      <4>2. \A i, j \in DOMAIN new : new[i].fd = new[j].fd => i = j
        BY <2>1, <2>8, <2>9, <2>10
      <4>. QED BY <3>2, <4>1, <4>2, <2>11
    <3>. QED BY <3>1, <3>2
  <2>17. NoEmptyGroup'
    BY <2>4, <2>5, <2>8, <2>11 DEF IInv, Consistent, NoEmptyGroup
  <2>. QED BY <2>12, <2>13, <2>14, <2>15, <2>16, <2>17 DEF IInv, Consistent
<1>. QED BY <1>1, <1>2

(* unregister_worker: the worker of this fd leaves the three tables        *)
(* together, and a group that it was the last worker of goes with it.      *)
LEMMA UnregisterKeepsIInv ==
  ASSUME IInv, NEW fd \in Fd, UnregisterWorker(fd)
  PROVE  IInv'
<1>. USE WorkerAssumption
<1>1. CASE fd \notin DOMAIN fds
  <2>1. UNCHANGED vars
    BY <1>1 DEF UnregisterWorker
  <2>. QED
    BY <2>1 DEF IInv, TypeOK, Consistent, IdentityUnique, IdsAreTheRegistered,
       EveryWorkerIsReachable, GroupsHoldTheRegistered, NoEmptyGroup, vars
<1>2. CASE fd \in DOMAIN fds
  <2> DEFINE w    == fds[fd]
             old  == groups[w.group]
             left == RemoveFrom(old, fd)
  <2>1. w \in Worker /\ w.fd = fd
    BY <1>2 DEF IInv, TypeOK, Consistent, IdentityUnique
  <2>2. /\ w.group \in DOMAIN groups
        /\ \E i \in DOMAIN old.workers : old.workers[i].fd = fd
    BY <1>2, <2>1 DEF IInv, Consistent, EveryWorkerIsReachable
  <2>3. old \in [workers : Seq(Worker), index : Nat]
    BY <2>2 DEF IInv, TypeOK
  <2>4. /\ \A i \in DOMAIN old.workers : /\ old.workers[i].group = w.group
                                        /\ old.workers[i].fd \in DOMAIN fds
                                        /\ fds[old.workers[i].fd] = old.workers[i]
        /\ \A i, j \in DOMAIN old.workers :
             old.workers[i].fd = old.workers[j].fd => i = j
    BY <2>2 DEF IInv, Consistent, GroupsHoldTheRegistered
  <2>5. /\ groups' = IF left.workers = << >> THEN Erase(groups, w.group)
                     ELSE Insert(groups, w.group, left)
        /\ workers' = workers \ {w.id}
        /\ fds' = Erase(fds, fd)
    BY <1>2, <2>1, <2>2 DEF UnregisterWorker
  <2>6. /\ DOMAIN fds' = DOMAIN fds \ {fd}
        /\ \A f \in DOMAIN fds' : fds'[f] = fds[f]
    BY <2>5 DEF Erase
  <2>. HIDE DEF left
  <2>7. /\ left \in [workers : Seq(Worker), index : Nat]
        /\ \A j \in DOMAIN left.workers :
             /\ left.workers[j].fd # fd
             /\ \E k \in DOMAIN old.workers : left.workers[j] = old.workers[k]
        /\ \A k \in DOMAIN old.workers : old.workers[k].fd # fd =>
             \E j \in DOMAIN left.workers : left.workers[j] = old.workers[k]
        /\ \A i, j \in DOMAIN left.workers :
             left.workers[i].fd = left.workers[j].fd => i = j
    BY <2>2, <2>3, <2>4, RemoveFromFacts DEF left
  <2>8. /\ DOMAIN groups' = IF left.workers = << >> THEN DOMAIN groups \ {w.group}
                                                   ELSE DOMAIN groups
        /\ \A g \in DOMAIN groups' : g # w.group => groups'[g] = groups[g]
        /\ left.workers # << >> => groups'[w.group] = left
    BY <2>2, <2>5 DEF Erase, Insert
  <2>. HIDE DEF w, old
  <2>9. TypeOK'
    <3>1. DOMAIN fds' \subseteq Fd /\ fds' \in [DOMAIN fds' -> Worker]
      BY <2>5, <2>6 DEF IInv, TypeOK, Erase
    <3>2. workers' \subseteq WorkerId
      BY <2>5 DEF IInv, TypeOK
    <3>3. \A g \in DOMAIN groups' : groups'[g] \in [workers : Seq(Worker), index : Nat]
      BY <2>7, <2>8 DEF IInv, TypeOK
    <3>4. groups' \in [DOMAIN groups' -> [workers : Seq(Worker), index : Nat]]
      BY <2>5, <3>3 DEF Erase, Insert
    <3>. QED BY <2>8, <3>1, <3>2, <3>4 DEF IInv, TypeOK
  <2>10. IdentityUnique'
    BY <2>6 DEF IInv, Consistent, IdentityUnique
  <2>11. IdsAreTheRegistered'
    BY <1>2, <2>5, <2>6 DEF IInv, Consistent, IdentityUnique, IdsAreTheRegistered, w
  <2>12. EveryWorkerIsReachable'
    <3>. SUFFICES ASSUME NEW f \in DOMAIN fds'
                  PROVE  /\ fds'[f].group \in DOMAIN groups'
                         /\ \E i \in DOMAIN groups'[fds'[f].group].workers :
                              groups'[fds'[f].group].workers[i] = fds'[f]
      BY DEF EveryWorkerIsReachable
    <3>1. f \in DOMAIN fds /\ f # fd /\ fds'[f] = fds[f] /\ fds[f].fd = f
      BY <2>6 DEF IInv, Consistent, IdentityUnique
    <3>2. PICK i \in DOMAIN groups[fds[f].group].workers :
            /\ fds[f].group \in DOMAIN groups
            /\ groups[fds[f].group].workers[i] = fds[f]
      BY <3>1 DEF IInv, Consistent, EveryWorkerIsReachable
    <3>3. CASE fds[f].group = w.group
      <4>1. PICK j \in DOMAIN left.workers : left.workers[j] = fds[f]
        BY <2>7, <3>1, <3>2, <3>3 DEF old
      <4>2. left.workers # << >>
        BY <4>1
      <4>. QED BY <2>2, <2>8, <3>1, <3>3, <4>1, <4>2
    <3>4. CASE fds[f].group # w.group
      BY <2>8, <3>1, <3>2, <3>4
    <3>. QED BY <3>3, <3>4
  <2>13. GroupsHoldTheRegistered'
    <3>. SUFFICES ASSUME NEW g \in DOMAIN groups'
                  PROVE  LET ws == groups'[g].workers IN
                         /\ \A i \in DOMAIN ws : /\ ws[i].group = g
                                                 /\ ws[i].fd \in DOMAIN fds'
                                                 /\ fds'[ws[i].fd] = ws[i]
                         /\ \A i, j \in DOMAIN ws : ws[i].fd = ws[j].fd => i = j
      BY DEF GroupsHoldTheRegistered
    <3>1. CASE g # w.group
      (* The worker that left was listed under its own group only.         *)
      <4>1. g \in DOMAIN groups /\ groups'[g] = groups[g]
        BY <3>1, <2>8
      <4>2. \A i \in DOMAIN groups[g].workers :
              /\ groups[g].workers[i].group = g
              /\ groups[g].workers[i].fd \in DOMAIN fds
              /\ fds[groups[g].workers[i].fd] = groups[g].workers[i]
        BY <4>1 DEF IInv, Consistent, GroupsHoldTheRegistered
      <4>3. \A i \in DOMAIN groups[g].workers : groups[g].workers[i].fd # fd
        BY <3>1, <4>2 DEF w
      <4>4. \A i, j \in DOMAIN groups[g].workers :
              groups[g].workers[i].fd = groups[g].workers[j].fd => i = j
        BY <4>1 DEF IInv, Consistent, GroupsHoldTheRegistered
      <4>. QED BY <2>6, <4>1, <4>2, <4>3, <4>4
    <3>2. CASE g = w.group
      <4>1. groups'[g] = left
        BY <3>2, <2>8
      <4>2. \A i \in DOMAIN left.workers : /\ left.workers[i].group = g
                                           /\ left.workers[i].fd \in DOMAIN fds'
                                           /\ fds'[left.workers[i].fd] = left.workers[i]
        BY <2>4, <2>6, <2>7, <3>2
      <4>. QED BY <2>7, <4>1, <4>2
    <3>. QED BY <3>1, <3>2
  <2>14. NoEmptyGroup'
    BY <2>8 DEF IInv, Consistent, NoEmptyGroup
  <2>. QED BY <2>9, <2>10, <2>11, <2>12, <2>13, <2>14 DEF IInv, Consistent
<1>. QED BY <1>1, <1>2

(* get_worker moves a group's load index and nothing else.                 *)
LEMMA GetWorkerKeepsIInv ==
  ASSUME IInv, NEW g \in GroupId, NEW w, GetWorker(g, w)
  PROVE  IInv'
<1>1. g \in DOMAIN groups /\ groups[g] \in [workers : Seq(Worker), index : Nat]
  BY DEF GetWorker, IInv, TypeOK
<1>2. UNCHANGED <<fds, workers>>
  BY DEF GetWorker
<1>3. PICK n \in Nat : groups' = [groups EXCEPT ![g].index = n]
  <2>1. groups[g].workers # << >>
    BY <1>1 DEF IInv, Consistent, NoEmptyGroup
  <2>2. Turn(groups[g]) + 1 \in Nat
    BY <1>1 DEF Turn
  <2>. QED BY <2>1, <2>2 DEF GetWorker
<1>4. /\ DOMAIN groups' = DOMAIN groups
      /\ \A h \in DOMAIN groups : groups'[h].workers = groups[h].workers
  BY <1>1, <1>3
<1>5. TypeOK'
  BY <1>1, <1>2, <1>3 DEF IInv, TypeOK
<1>6. Consistent'
  BY <1>2, <1>4 DEF IInv, Consistent, IdentityUnique, IdsAreTheRegistered,
     EveryWorkerIsReachable, GroupsHoldTheRegistered, NoEmptyGroup
<1>. QED BY <1>5, <1>6 DEF IInv

-----------------------------------------------------------------------------
(* The registry keeps its types and its tables agree, for any ids,         *)
(* descriptors and services and after any sequence of registrations,       *)
(* unregistrations (by any caller, of any fd) and choices.                 *)
THEOREM RegistryConsistent == Spec => [](TypeOK /\ Consistent)
<1>1. Init => IInv
  BY DEF Init, IInv, TypeOK, Consistent, IdentityUnique, IdsAreTheRegistered,
     EveryWorkerIsReachable, GroupsHoldTheRegistered, NoEmptyGroup
<1>2. IInv /\ [Next]_vars => IInv'
  <2>. SUFFICES ASSUME IInv, [Next]_vars PROVE IInv'
    OBVIOUS
  <2>1. CASE \E w \in Worker, ret \in {OK, ERR_WORKER_REGISTERED, ERR_FD_EXISTS} :
               RegisterWorker(w, ret)
    BY <2>1, RegisterKeepsIInv
  <2>2. CASE \E fd \in Fd : UnregisterWorker(fd)
    BY <2>2, UnregisterKeepsIInv
  <2>3. CASE \E g \in GroupId, w \in Worker \cup {NoWorker} : GetWorker(g, w)
    BY <2>3, GetWorkerKeepsIInv
  <2>4. CASE UNCHANGED vars
    BY <2>4 DEF IInv, TypeOK, Consistent, IdentityUnique, IdsAreTheRegistered,
       EveryWorkerIsReachable, GroupsHoldTheRegistered, NoEmptyGroup, vars
  <2>. QED BY <2>1, <2>2, <2>3, <2>4 DEF Next
<1>. QED BY <1>1, <1>2, PTL DEF Spec, IInv

(* get_worker's true always comes with a worker registered under the group *)
(* asked for: the choice is read from a group that is not empty, at an     *)
(* index within it, and groups list registered workers only.               *)
THEOREM ChoosesRegistered == Spec => ChoiceIsRegistered
<1> DEFINE Good(g, w) == /\ w # NoWorker
                         /\ w.group = g
                         /\ w.fd \in DOMAIN fds
                         /\ fds[w.fd] = w
<1>1. ASSUME IInv, NEW g \in GroupId, NEW w \in Worker \cup {NoWorker},
             GetWorker(g, w)
      PROVE  Good(g, w)
  <2>1. /\ g \in DOMAIN groups
        /\ groups[g] \in [workers : Seq(Worker), index : Nat]
        /\ groups[g].workers # << >>
    BY <1>1 DEF GetWorker, IInv, TypeOK, Consistent, NoEmptyGroup
  <2>2. Turn(groups[g]) + 1 \in DOMAIN groups[g].workers
    BY <2>1 DEF Turn
  <2>3. w = groups[g].workers[Turn(groups[g]) + 1]
    BY <1>1, <2>1 DEF GetWorker
  <2>4. w \in Worker
    BY <2>1, <2>2, <2>3
  <2>. QED BY <1>1, <2>1, <2>2, <2>3, <2>4, WorkerAssumption
           DEF IInv, Consistent, GroupsHoldTheRegistered
<1>2. IInv /\ [Next]_vars => [\A g \in GroupId, w \in Worker \cup {NoWorker} :
                               GetWorker(g, w) => Good(g, w)]_vars
  BY <1>1
<1>3. Spec => []IInv
  BY RegistryConsistent, PTL DEF IInv
<1>. QED BY <1>2, <1>3, PTL DEF Spec, ChoiceIsRegistered

=============================================================================
