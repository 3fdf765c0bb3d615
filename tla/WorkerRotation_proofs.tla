----------------------- MODULE WorkerRotation_proofs -----------------------
(***************************************************************************)
(* The load index of a group divides its requests equally, whatever the    *)
(* number of workers and however registrations, unregistrations and        *)
(* choices alternate.                                                      *)
(***************************************************************************)
EXTENDS WorkerRotation, WorkerMgt_proofs

(* The place in a vector of n that the load index i stood on, k choices    *)
(* ago.                                                                    *)
Back(i, k, n) == IF k < i THEN i - k ELSE i - k + n

(* The choices recorded for a group are those its load index has passed,   *)
(* the last one first; none is recorded from before the group was made.    *)
FollowsIndex(g) ==
  LET past == recent[g]
      now  == Members(g)
  IN /\ past \in Seq(Worker)
     /\ Len(past) <= Len(now)
     /\ past # << >> => groups[g].index \in 1 .. Len(now)
     /\ \A k \in 0 .. Len(past) - 1 :
          past[Len(past) - k] = now[Back(groups[g].index, k, Len(now))]

RotInv == /\ IInv
          /\ DOMAIN recent = GroupId
          /\ \A g \in GroupId : FollowsIndex(g)

-----------------------------------------------------------------------------
(* Where the index stood: within the vector, at another place each time    *)
(* for n choices, and one choice further back after the next one.          *)
LEMMA BackFacts ==
  ASSUME NEW n \in Nat, NEW i \in 1 .. n
  PROVE  /\ \A k \in 0 .. n - 1 : Back(i, k, n) \in 1 .. n
         /\ \A j, k \in 0 .. n - 1 : Back(i, j, n) = Back(i, k, n) => j = k
         /\ Back(i, 0, n) = i
         /\ \A k \in 1 .. n - 1 :
              Back(IF i >= n THEN 1 ELSE i + 1, k, n) = Back(i, k - 1, n)
BY DEF Back

(* The members of a group: a sequence of registered workers, none twice,   *)
(* and empty exactly when there is no such group.                          *)
LEMMA MembersFacts ==
  ASSUME IInv, NEW g
  PROVE  /\ Members(g) \in Seq(Worker)
         /\ g \in DOMAIN groups <=> Members(g) # << >>
         /\ g \in DOMAIN groups => groups[g].index \in Nat
         /\ \A i, j \in 1 .. Len(Members(g)) :
              Members(g)[i] = Members(g)[j] => i = j
BY DEF IInv, TypeOK, Consistent, GroupsHoldTheRegistered, NoEmptyGroup, Members

(* When a step leaves the record of every group whose membership it leaves *)
(* alone, starting the other histories again keeps the invariant.          *)
LEMMA ForgetKeeps ==
  ASSUME RotInv, IInv', Forget,
         \A g \in GroupId : Members(g)' = Members(g) /\ g \in DOMAIN groups =>
                            g \in DOMAIN groups' /\ groups'[g] = groups[g]
  PROVE  RotInv'
<1>1. DOMAIN recent' = GroupId
  BY DEF Forget
<1>2. ASSUME NEW g \in GroupId PROVE FollowsIndex(g)'
  <2>1. CASE Members(g)' = Members(g) /\ g \in DOMAIN groups
    <3>1. recent'[g] = recent[g] /\ groups'[g] = groups[g] /\ Members(g)' = Members(g)
      BY <2>1 DEF Forget
    <3>2. FollowsIndex(g)
      BY DEF RotInv
    <3>. QED BY <3>1, <3>2 DEF FollowsIndex
  <2>2. CASE ~(Members(g)' = Members(g) /\ g \in DOMAIN groups)
    <3>1. recent'[g] = << >>
      <4>1. CASE Members(g)' # Members(g)
        BY <4>1 DEF Forget
      <4>2. CASE Members(g)' = Members(g) /\ g \notin DOMAIN groups
        <5>1. Members(g) = << >>
          BY <4>2 DEF Members
        <5>2. recent[g] \in Seq(Worker) /\ Len(recent[g]) <= 0
          BY <5>1 DEF RotInv, FollowsIndex
        <5>. QED BY <4>2, <5>2 DEF Forget
      <4>. QED BY <2>2, <4>1, <4>2
    <3>2. Members(g)' \in Seq(Worker)
      BY DEF RotInv, IInv, TypeOK, Members
    <3>. QED BY <3>1, <3>2 DEF FollowsIndex
  <2>. QED BY <2>1, <2>2
<1>. QED BY <1>1, <1>2 DEF RotInv

(* register_worker: the vector of the new worker's group grows, every      *)
(* other group is left alone.                                              *)
LEMMA RegisterRotates ==
  ASSUME RotInv, NEW w \in Worker, Register(w)
  PROVE  RotInv'
<1>1. PICK ret \in {OK, ERR_WORKER_REGISTERED, ERR_FD_EXISTS} : RegisterWorker(w, ret)
  BY DEF Register
<1>2. IInv /\ IInv'
  BY <1>1, RegisterKeepsIInv DEF RotInv
<1>3. ASSUME NEW g \in GroupId, Members(g)' = Members(g), g \in DOMAIN groups
      PROVE  g \in DOMAIN groups' /\ groups'[g] = groups[g]
  <2>1. CASE ret # OK
    BY <1>1, <1>3, <2>1 DEF RegisterWorker, vars
  <2>2. CASE ret = OK
    <3>1. groups' = Insert(groups, w.group, IF w.group \in DOMAIN groups
                                            THEN AddTo(groups[w.group], w)
                                            ELSE NewWorkers(w))
      BY <1>1, <2>2 DEF RegisterWorker
    <3>2. CASE g = w.group
      <4>1. groups[g] \in [workers : Seq(Worker), index : Nat]
        BY <1>2, <1>3 DEF IInv, TypeOK
      <4>2. Members(g)' = Append(Members(g), w)
        BY <1>3, <3>1, <3>2, <4>1 DEF Members, Insert, AddTo
      <4>3. Len(Members(g)') = Len(Members(g)) + 1 /\ Len(Members(g)) \in Nat
        BY <1>3, <4>1, <4>2 DEF Members
      <4>. QED BY <1>3, <4>3
    <3>3. CASE g # w.group
      BY <1>3, <3>1, <3>3 DEF Insert
    <3>. QED BY <3>2, <3>3
  <2>. QED BY <2>1, <2>2
<1>. QED BY <1>2, <1>3, ForgetKeeps DEF Register

(* unregister_worker: the vector the worker is taken from shrinks, or its  *)
(* group goes; every other group is left alone.                            *)
LEMMA UnregisterRotates ==
  ASSUME RotInv, NEW fd \in Fd, Unregister(fd)
  PROVE  RotInv'
<1>1. UnregisterWorker(fd)
  BY DEF Unregister
<1>2. IInv /\ IInv'
  BY <1>1, UnregisterKeepsIInv DEF RotInv
<1>3. ASSUME NEW g \in GroupId, Members(g)' = Members(g), g \in DOMAIN groups
      PROVE  g \in DOMAIN groups' /\ groups'[g] = groups[g]
  <2>1. CASE fd \notin DOMAIN fds
    BY <1>1, <1>3, <2>1 DEF UnregisterWorker, vars
  <2>2. CASE fd \in DOMAIN fds
    <3> DEFINE w    == fds[fd]
               old  == groups[w.group]
               left == RemoveFrom(old, fd)
    <3>1. /\ w.fd = fd
          /\ w.group \in DOMAIN groups
          /\ \E i \in DOMAIN old.workers : old.workers[i].fd = fd
      BY <1>2, <2>2 DEF IInv, Consistent, IdentityUnique, EveryWorkerIsReachable
    <3>2. groups' = IF left.workers = << >> THEN Erase(groups, w.group)
                    ELSE Insert(groups, w.group, left)
      BY <1>1, <2>2, <3>1 DEF UnregisterWorker
    <3>3. CASE g = w.group
      <4>1. old \in [workers : Seq(Worker), index : Nat]
        BY <1>2, <3>1 DEF IInv, TypeOK
      <4>2. left.workers = RemoveAt(old.workers, Position(old.workers, fd))
        BY <3>1, <4>1 DEF RemoveFrom
      <4>3. Position(old.workers, fd) \in 1 .. Len(old.workers)
        <5>1. PICK i \in 1 .. Len(old.workers) : old.workers[i].fd = fd
          BY <3>1, <4>1
        <5>2. \A j \in 1 .. (i - 1) : old.workers[j].fd # fd
          BY <1>2, <3>1, <4>1, <5>1 DEF IInv, Consistent, GroupsHoldTheRegistered
        <5>. QED BY <4>1, <5>1, <5>2 DEF Position
      <4>4. Len(left.workers) = Len(old.workers) - 1 /\ Len(old.workers) \in Nat
        BY <4>1, <4>2, <4>3, RemoveAtFacts
      <4>5. Members(g) = old.workers /\ old.workers # << >>
        BY <3>1, <3>3, <4>1 DEF Members
      <4>6. Members(g)' = left.workers \/ Members(g)' = << >>
        BY <3>2, <3>3 DEF Members, Erase, Insert
      <4>. QED BY <1>3, <4>4, <4>5, <4>6
    <3>4. CASE g # w.group
      BY <1>3, <3>1, <3>2, <3>4 DEF Erase, Insert
    <3>. QED BY <3>3, <3>4
  <2>. QED BY <2>1, <2>2
<1>. QED BY <1>2, <1>3, ForgetKeeps DEF Unregister

(* get_worker: the choice it makes is where its load index goes, so the    *)
(* record of the last n choices keeps step with it.                        *)
LEMMA ChooseRotates ==
  ASSUME RotInv, NEW g \in GroupId, Choose(g)
  PROVE  RotInv'
<1> DEFINE n    == Len(Members(g))
           i    == groups[g].index
           next == Turn(groups[g]) + 1
           past == recent[g]
<1>1. PICK w \in Worker \cup {NoWorker} :
        /\ GetWorker(g, w)
        /\ recent' = [recent EXCEPT ![g] = IF Len(Append(past, w)) > n
                                          THEN Latest(Append(past, w), n)
                                          ELSE Append(past, w)]
  BY DEF Choose
<1>2. IInv /\ IInv'
  BY <1>1, GetWorkerKeepsIInv DEF RotInv
<1>3. /\ g \in DOMAIN groups
      /\ groups[g] \in [workers : Seq(Worker), index : Nat]
      /\ Members(g) = groups[g].workers
      /\ Members(g) \in Seq(Worker)
      /\ n \in Nat \ {0}
  BY <1>1, <1>2 DEF GetWorker, IInv, TypeOK, Consistent, NoEmptyGroup, Members
<1>4. /\ w = Members(g)[next]
      /\ groups' = [groups EXCEPT ![g].index = next]
  BY <1>1, <1>3 DEF GetWorker
<1>5. next = (IF i >= n THEN 1 ELSE i + 1) /\ next \in 1 .. n
  BY <1>3 DEF Turn
<1>6. \A h \in GroupId : Members(h)' = Members(h)
  BY <1>3, <1>4 DEF Members
<1>7. FollowsIndex(g)
  BY DEF RotInv
<1>8. DOMAIN recent = GroupId
  BY DEF RotInv
<1>9. ASSUME NEW h \in GroupId, h # g PROVE FollowsIndex(h)'
  <2>1. recent'[h] = recent[h]
    BY <1>1, <1>8, <1>9
  <2>2. groups'[h].index = groups[h].index \/ h \notin DOMAIN groups
    BY <1>4, <1>9
  <2>3. FollowsIndex(h)
    BY DEF RotInv
  <2>4. CASE h \in DOMAIN groups
    BY <1>6, <2>1, <2>2, <2>3, <2>4 DEF FollowsIndex
  <2>5. CASE h \notin DOMAIN groups
    <3>1. Members(h) = << >>
      BY <2>5 DEF Members
    <3>2. past \in Seq(Worker) /\ recent[h] \in Seq(Worker) /\ Len(recent[h]) <= 0
      BY <1>7, <2>3, <3>1 DEF FollowsIndex
    <3>3. recent[h] = << >>
      BY <3>2
    <3>. QED BY <1>6, <2>1, <3>1, <3>3 DEF FollowsIndex
  <2>. QED BY <2>4, <2>5
<1>10. FollowsIndex(g)'
  <2>1. groups'[g].index = next
    BY <1>3, <1>4
  <2>2. w \in Worker
    BY <1>3, <1>4, <1>5
  <2> DEFINE longer == Append(past, w)
  <2>3. past \in Seq(Worker) /\ Len(past) \in 0 .. n
    BY <1>3, <1>7 DEF FollowsIndex
  <2>4. /\ longer \in Seq(Worker)
        /\ Len(longer) = Len(past) + 1
        /\ longer[Len(longer)] = w
        /\ \A k \in 1 .. Len(past) : longer[k] = past[k]
    BY <2>2, <2>3, AppendProperties
  <2>. HIDE DEF longer
  (* The new record, counted from its end, is the longer one.              *)
  <2>5. /\ recent'[g] \in Seq(Worker)
        /\ Len(recent'[g]) = IF Len(longer) > n THEN n ELSE Len(longer)
        /\ \A k \in 0 .. Len(recent'[g]) - 1 :
             recent'[g][Len(recent'[g]) - k] = longer[Len(longer) - k]
    <3>1. recent'[g] = IF Len(longer) > n THEN Latest(longer, n) ELSE longer
      BY <1>1, <1>8 DEF longer
    <3>2. CASE Len(longer) > n
      <4>1. /\ Latest(longer, n) \in Seq(Worker)
            /\ Len(Latest(longer, n)) = n
            /\ \A k \in 1 .. n : Latest(longer, n)[k] = longer[Len(longer) - n + k]
        <5>1. Len(longer) = n + 1
          BY <2>3, <2>4, <3>2, <1>3
        <5>2. Latest(longer, n) = SubSeq(longer, 2, n + 1)
          BY <1>3, <5>1 DEF Latest
        <5>. QED BY <1>3, <2>4, <5>1, <5>2, SubSeqProperties
      <4>2. \A k \in 0 .. n - 1 : n - k \in 1 .. n /\ Len(longer) - n + (n - k) = Len(longer) - k
        BY <1>3, <2>3, <2>4
      <4>3. \A k \in 0 .. n - 1 : Latest(longer, n)[n - k] = longer[Len(longer) - k]
        <5>. HIDE DEF n
        <5>. QED BY <4>1, <4>2
      <4>. QED BY <3>1, <3>2, <4>1, <4>3
    <3>3. CASE ~(Len(longer) > n)
      BY <2>4, <3>1, <3>3
    <3>. QED BY <3>2, <3>3
  <2>6. ASSUME NEW k \in 0 .. Len(recent'[g]) - 1
        PROVE  recent'[g][Len(recent'[g]) - k] = Members(g)[Back(next, k, n)]
    <3>1. recent'[g][Len(recent'[g]) - k] = longer[Len(longer) - k]
      BY <2>5
    <3>2. CASE k = 0
      BY <1>3, <1>4, <1>5, <2>3, <2>4, <3>1, <3>2, BackFacts
    <3>3. CASE k # 0
      <4>1. k \in 1 .. n - 1 /\ k \in 1 .. Len(past)
        BY <1>3, <2>3, <2>4, <2>5, <3>3
      <4>2. longer[Len(longer) - k] = past[Len(past) - (k - 1)]
        BY <2>3, <2>4, <4>1
      <4>3. past # << >>
        BY <4>1
      <4>4. i \in 1 .. n
        BY <1>7, <4>3 DEF FollowsIndex
      <4>5. past[Len(past) - (k - 1)] = Members(g)[Back(i, k - 1, n)]
        BY <1>7, <2>3, <4>1 DEF FollowsIndex
      <4>6. Back(next, k, n) = Back(i, k - 1, n)
        <5>. HIDE DEF i, n, next
        <5>. QED BY <1>3, <1>5, <4>1, <4>4, BackFacts
      <4>. QED BY <3>1, <4>2, <4>5, <4>6
    <3>. QED BY <3>2, <3>3
  <2>7. Len(recent'[g]) <= n
    BY <1>3, <2>3, <2>4, <2>5
  <2>. QED BY <1>5, <1>6, <2>1, <2>5, <2>6, <2>7 DEF FollowsIndex
<1>11. DOMAIN recent' = GroupId
  BY <1>1, <1>8
<1>. QED BY <1>2, <1>9, <1>10, <1>11 DEF RotInv

-----------------------------------------------------------------------------
LEMMA AlwaysRotInv == RotSpec => []RotInv
<1>1. RotInit => RotInv
  BY DEF RotInit, Init, RotInv, IInv, TypeOK, Consistent, IdentityUnique,
     IdsAreTheRegistered, EveryWorkerIsReachable, GroupsHoldTheRegistered,
     NoEmptyGroup, FollowsIndex, Members
<1>2. RotInv /\ [RotNext]_rotVars => RotInv'
  <2>. SUFFICES ASSUME RotInv, [RotNext]_rotVars PROVE RotInv'
    OBVIOUS
  <2>1. CASE \E w \in Worker : Register(w)
    BY <2>1, RegisterRotates
  <2>2. CASE \E fd \in Fd : Unregister(fd)
    BY <2>2, UnregisterRotates
  <2>3. CASE \E g \in GroupId : Choose(g)
    BY <2>3, ChooseRotates
  <2>4. CASE UNCHANGED rotVars
    BY <2>4 DEF RotInv, IInv, TypeOK, Consistent, IdentityUnique,
       IdsAreTheRegistered, EveryWorkerIsReachable, GroupsHoldTheRegistered,
       NoEmptyGroup, FollowsIndex, Members, vars, rotVars
  <2>. QED BY <2>1, <2>2, <2>3, <2>4 DEF RotNext
<1>. QED BY <1>1, <1>2, PTL DEF RotSpec

(* Recording the choices changes nothing of the registry: its tables hold  *)
(* values of their types under the run's own specification.                *)
THEOREM RegistryTyped == RotSpec => []TypeOK
<1>1. RotInv => TypeOK
  BY DEF RotInv, IInv
<1>. QED BY <1>1, AlwaysRotInv, PTL

(* Worker_Mgt::get_worker divides a group's requests equally: among as     *)
(* many choices in a row as the group has workers, none is made twice, for *)
(* any number of workers, until the group's membership changes.            *)
THEOREM SharesEvenly == RotSpec => []EvenShare
<1>1. ASSUME RotInv, NEW g \in GroupId PROVE IsInjective(recent[g])
  <2> DEFINE past == recent[g]
             n    == Len(Members(g))
             i    == groups[g].index
  <2>1. /\ past \in Seq(Worker) /\ Len(past) <= n
        /\ past # << >> => i \in 1 .. n
        /\ \A k \in 0 .. Len(past) - 1 :
             past[Len(past) - k] = Members(g)[Back(i, k, n)]
    BY <1>1 DEF RotInv, FollowsIndex
  <2>2. /\ Members(g) \in Seq(Worker)
        /\ \A a, b \in 1 .. n : Members(g)[a] = Members(g)[b] => a = b
    BY <1>1, MembersFacts DEF RotInv
  <2>3. ASSUME NEW a \in DOMAIN past, NEW b \in DOMAIN past, past[a] = past[b]
        PROVE  a = b
    <3>1. a \in 1 .. Len(past) /\ b \in 1 .. Len(past) /\ i \in 1 .. n /\ n \in Nat
      BY <2>1, <2>2, <2>3
    <3>2. Len(past) - a \in 0 .. n - 1 /\ Len(past) - b \in 0 .. n - 1
      BY <2>1, <3>1
    <3>. HIDE DEF past, n, i
    <3>3. /\ past[a] = Members(g)[Back(i, Len(past) - a, n)]
          /\ past[b] = Members(g)[Back(i, Len(past) - b, n)]
      <4>1. Len(past) - (Len(past) - a) = a /\ Len(past) - (Len(past) - b) = b
        BY <2>1, <3>1
      <4>2. Len(past) - a \in 0 .. Len(past) - 1 /\ Len(past) - b \in 0 .. Len(past) - 1
        BY <2>1, <3>1
      <4>. QED BY <2>1, <4>1, <4>2
    <3>4. Back(i, Len(past) - a, n) = Back(i, Len(past) - b, n)
      <4>1. /\ Back(i, Len(past) - a, n) \in 1 .. n
            /\ Back(i, Len(past) - b, n) \in 1 .. n
        BY <3>1, <3>2, BackFacts
      <4>. QED BY <2>2, <2>3, <3>3, <4>1
    <3>5. Len(past) - a = Len(past) - b
      BY <3>1, <3>2, <3>4, BackFacts
    <3>. QED BY <2>1, <3>1, <3>5
  <2>. QED BY <2>3 DEF IsInjective
<1>2. RotInv => EvenShare
  BY <1>1 DEF EvenShare
<1>. QED BY <1>2, AlwaysRotInv, PTL
=============================================================================
