------------------------ MODULE Registration_proofs ------------------------
(***************************************************************************)
(* A worker's flag and the router's registry agree, whatever number of     *)
(* workers, connections and descriptors there are, and whatever is lost,   *)
(* cut or killed between the two; and no entry outlives an unregister that *)
(* the router has read.                                                    *)
(***************************************************************************)
EXTENDS Registration, SequenceTheorems, TLAPS

Reg == INSTANCE WorkerMgt_proofs WITH NoWorker <- None

-----------------------------------------------------------------------------
(* The inductive invariant.                                                *)

LifeState == {"new", "up", "stopping", "unregistered", "unheard", "exited"}

(* Past unregister_workers.                                                *)
Over == {"unregistered", "unheard", "exited"}

Registry == Mgt!TypeOK /\ Mgt!Consistent

Typed == TypeOK /\ Mgt!Consistent

(* An entry is about the connection its descriptor denotes; no two         *)
(* descriptors denote the same one; the router holds them open.            *)
Descriptors ==
  /\ \A f \in DOMAIN fds : sock[f] = fds[f].conn
  /\ \A f, g \in Fd : sock[f] = sock[g] /\ sock[f] # None => f = g
  /\ \A f \in Fd : sock[f] # None => "router" \in ends[sock[f]]

(* An answer that accepts, on its way to a worker that has not             *)
(* unregistered, is still true.                                            *)
AnswerTrue(l) ==
  (/\ life[l] \notin Over /\ link[l] > 0
   /\ "router" \in ends[Present(l)])
  => \A i \in DOMAIN toWorker[Present(l)] :
       toWorker[Present(l)][i].err = Mgt!OK => Entry(Present(l))

(* FlagMeansEntry for one life.                                            *)
FlagTrue(l) ==
  (/\ life[l] \in {"up", "stopping"} /\ registered[l]
   /\ link[l] > 0 /\ ends[Present(l)] = {"worker", "router"})
  => Entry(Present(l))

Late(c) ==
  \A i \in DOMAIN toRouter[c] :
    toRouter[c][i] = "unregister" => life[c[1]] \in Over

(* Its unregister is cut once at most.                                     *)
CutLate(l) == begun[l] = "unregister" => life[l] \in {"unheard", "exited"}

(* What the router has still to read of c leaves no entry: there is none   *)
(* now and no register to come, or an unregister comes after all of them.  *)
Settled(c) ==
  \/ ~Entry(c) /\ \A i \in DOMAIN toRouter[c] : toRouter[c][i] # "register"
  \/ \E i \in DOMAIN toRouter[c] :
       /\ toRouter[c][i] = "unregister"
       /\ \A j \in DOMAIN toRouter[c] : j > i => toRouter[c][j] # "register"

Drains(l) ==
  (/\ life[l] = "unregistered" /\ link[l] > 0
   /\ ends[Present(l)] = {"worker", "router"})
  => Settled(Present(l))

Truth == /\ Descriptors
         /\ \A l \in Life : AnswerTrue(l) /\ FlagTrue(l) /\ Drains(l) /\ CutLate(l)
         /\ \A c \in Conn : Late(c)

IInv == Typed /\ Truth

(* A worker that has unregistered has an empty wire only when it is gone   *)
(* from the registry.                                                      *)
LEMMA DrainsMeansGone == (\A l \in Life : Drains(l)) => DrainedIsGone
BY DEF Drains, DrainedIsGone, Settled

-----------------------------------------------------------------------------
(* Facts about the wires.                                                  *)

Cmd == {"register", "hb", "null", "unregister"}
Ans == [err : Int, whole : BOOLEAN]

Begun == {"none", "null", "unregister"}

(* What is left when the first frame has been taken.                       *)
LEMMA TailFacts ==
  ASSUME NEW S, NEW s \in Seq(S), s # << >>
  PROVE  /\ Tail(s) \in Seq(S) /\ 1 \in DOMAIN s /\ Head(s) = s[1] /\ Head(s) \in S
         /\ \A i \in DOMAIN Tail(s) : i + 1 \in DOMAIN s /\ Tail(s)[i] = s[i + 1]
         /\ \A i \in DOMAIN s : i # 1 =>
              i - 1 \in DOMAIN Tail(s) /\ Tail(s)[i - 1] = s[i]
         /\ DOMAIN s \subseteq Nat /\ DOMAIN Tail(s) \subseteq Nat
<1>1. /\ Tail(s) \in Seq(S) /\ Len(Tail(s)) = Len(s) - 1 /\ Head(s) = s[1]
      /\ \A i \in 1 .. Len(Tail(s)) : Tail(s)[i] = s[i + 1]
  BY HeadTailProperties
<1>2. Len(s) \in Nat /\ Len(s) > 0 /\ DOMAIN s = 1 .. Len(s) /\ DOMAIN Tail(s) = 1 .. Len(Tail(s))
  BY <1>1, EmptySeq
<1>3. Head(s) \in S
  BY <1>1, <1>2
<1>4. \A i \in DOMAIN s : i # 1 => i - 1 \in DOMAIN Tail(s) /\ Tail(s)[i - 1] = s[i]
  BY <1>1, <1>2
<1>. QED BY <1>1, <1>2, <1>3, <1>4

(* What there is when one more has been sent.                              *)
LEMMA AppendFacts ==
  ASSUME NEW S, NEW s \in Seq(S), NEW e \in S
  PROVE  /\ Append(s, e) \in Seq(S)
         /\ DOMAIN Append(s, e) = DOMAIN s \cup {Len(s) + 1}
         /\ \A i \in DOMAIN s : Append(s, e)[i] = s[i]
         /\ Append(s, e)[Len(s) + 1] = e
         /\ Len(s) + 1 \notin DOMAIN s
         /\ \A i \in DOMAIN s : i < Len(s) + 1
         /\ DOMAIN s \subseteq Nat /\ Len(s) \in Nat
OBVIOUS

(* What arrives when the rest is lost.                                     *)
LEMMA PrefixFacts ==
  ASSUME NEW S, NEW s \in Seq(S), NEW n \in 0 .. Len(s)
  PROVE  /\ SubSeq(s, 1, n) \in Seq(S)
         /\ \A i \in DOMAIN SubSeq(s, 1, n) :
              i \in DOMAIN s /\ SubSeq(s, 1, n)[i] = s[i]
<1>1. n \in Nat /\ n <= Len(s) /\ Len(s) \in Nat
  OBVIOUS
<1>2. CASE n = 0
  <2>1. SubSeq(s, 1, n) = << >>
    BY <1>2
  <2>. QED BY <2>1
<1>3. CASE n > 0
  BY <1>1, <1>3, SubSeqProperties
<1>. QED BY <1>1, <1>2, <1>3

-----------------------------------------------------------------------------
(* The registry, as the router uses it.                                    *)

(* The Worker objects are what the registry assumes of them.               *)
LEMMA RegistryAssumed == Reg!WorkerAssumption
<1>1. \A c \in Conn : c[1] \in Life
  BY DEF Conn
<1>2. \A w \in Worker : w.id \in WorkerId /\ w.fd \in Fd /\ w.group \in GroupId
  BY <1>1, RegistrationAssumption DEF Worker, WorkerOf
<1>. QED BY <1>2, RegistrationAssumption DEF Reg!WorkerAssumption

(* This registry is the one the theorems of WorkerMgt_proofs are about.    *)
LEMMA SameRegistry == (Registry <=> Reg!IInv) /\ (Registry' <=> Reg!IInv')
BY DEF Registry, Reg!IInv, Mgt!TypeOK, Reg!TypeOK, Mgt!Consistent, Reg!Consistent,
   Mgt!IdentityUnique, Reg!IdentityUnique, Mgt!IdsAreTheRegistered, Reg!IdsAreTheRegistered,
   Mgt!EveryWorkerIsReachable, Reg!EveryWorkerIsReachable,
   Mgt!GroupsHoldTheRegistered, Reg!GroupsHoldTheRegistered, Mgt!NoEmptyGroup, Reg!NoEmptyGroup

(* register_worker keeps the registry in order.                            *)
LEMMA RegisterKeeps ==
  ASSUME Registry, NEW w \in Worker, NEW ret, Mgt!RegisterWorker(w, ret)
  PROVE  Registry'
<1>1. Reg!RegisterWorker(w, ret)
  BY DEF Mgt!RegisterWorker, Reg!RegisterWorker, Mgt!Refusal, Reg!Refusal, Mgt!OK, Reg!OK,
     Mgt!Insert, Reg!Insert, Mgt!vars, Reg!vars, Mgt!AddTo, Reg!AddTo, Mgt!NewWorkers,
     Reg!NewWorkers, Mgt!ERR_FD_EXISTS, Reg!ERR_FD_EXISTS,
     Mgt!ERR_WORKER_REGISTERED, Reg!ERR_WORKER_REGISTERED
<1>2. Reg!IInv
  BY SameRegistry
<1>3. Reg!IInv'
  BY <1>1, <1>2, Reg!RegisterKeepsIInv, RegistryAssumed
<1>. QED BY <1>3, SameRegistry

(* unregister_worker keeps the registry in order.                          *)
LEMMA UnregisterKeeps ==
  ASSUME Registry, NEW f \in Fd, Mgt!UnregisterWorker(f)
  PROVE  Registry'
<1>1. Reg!UnregisterWorker(f)
  BY DEF Mgt!UnregisterWorker, Reg!UnregisterWorker, Mgt!vars, Reg!vars, Mgt!RemoveFrom,
     Reg!RemoveFrom, Mgt!Position, Reg!Position,
     Mgt!RemoveAt, Reg!RemoveAt, Mgt!Insert, Reg!Insert, Mgt!Erase, Reg!Erase
<1>2. Reg!IInv
  BY SameRegistry
<1>3. Reg!IInv'
  BY <1>1, <1>2, Reg!UnregisterKeepsIInv, RegistryAssumed
<1>. QED BY <1>3, SameRegistry

(* A step that leaves the registry alone keeps it in order.                *)
LEMMA RegistryFrame ==
  ASSUME Registry, UNCHANGED mgtVars
  PROVE  Registry'
BY DEF mgtVars, Registry, Mgt!TypeOK, Mgt!Consistent, Mgt!IdentityUnique,
   Mgt!IdsAreTheRegistered, Mgt!EveryWorkerIsReachable, Mgt!GroupsHoldTheRegistered,
   Mgt!NoEmptyGroup

-----------------------------------------------------------------------------
(* Facts about one connection.                                             *)

(* A life's present connection is one of its own.                          *)
LEMMA PresentFacts ==
  ASSUME TypeOK, NEW l \in Life, link[l] > 0
  PROVE  Present(l) \in Conn /\ Present(l)[1] = l
BY RegistrationAssumption DEF TypeOK, Present, Conn

(* Sending adds one command at the end of one wire, if at all.             *)
LEMMA PutFacts ==
  ASSUME TypeOK, NEW c \in Conn, NEW cmd \in Cmd, Put(c, cmd)
  PROVE  /\ toRouter' \in [Conn -> Seq(Cmd)]
         /\ \A d \in Conn : d # c => toRouter'[d] = toRouter[d]
         /\ \A i \in DOMAIN toRouter[c] :
              i \in DOMAIN toRouter'[c] /\ toRouter'[c][i] = toRouter[c][i]
         /\ \A i \in DOMAIN toRouter'[c] : i \in DOMAIN toRouter[c] \/ toRouter'[c][i] = cmd
         /\ "router" \in ends[c] =>
              \E i \in DOMAIN toRouter'[c] :
                /\ toRouter'[c][i] = cmd
                /\ \A j \in DOMAIN toRouter'[c] : ~(j > i)
<1>1. toRouter \in [Conn -> Seq(Cmd)]
  BY DEF TypeOK, Cmd
<1>2. CASE "router" \in ends[c]
  <2>1. toRouter' = [toRouter EXCEPT ![c] = Append(@, cmd)]
    BY <1>2 DEF Put
  <2>2. toRouter'[c] = Append(toRouter[c], cmd)
    BY <1>1, <2>1
  <2>3. toRouter[c] \in Seq(Cmd)
    BY <1>1
  <2>4. Append(toRouter[c], cmd) \in Seq(Cmd)
    BY <2>3, AppendFacts
  <2>5. toRouter' \in [Conn -> Seq(Cmd)] /\ \A d \in Conn : d # c => toRouter'[d] = toRouter[d]
    BY <1>1, <2>1, <2>4
  <2>. DEFINE n == Len(toRouter[c]) + 1
  <2>6. /\ DOMAIN toRouter'[c] = DOMAIN toRouter[c] \cup {n}
        /\ \A i \in DOMAIN toRouter[c] : toRouter'[c][i] = toRouter[c][i]
        /\ toRouter'[c][n] = cmd
        /\ \A i \in DOMAIN toRouter[c] : i < n
        /\ DOMAIN toRouter[c] \subseteq Nat /\ n \in Nat
    BY <2>2, <2>3, AppendFacts
  <2>. HIDE DEF n
  <2>7. \A j \in DOMAIN toRouter'[c] : ~(j > n)
    BY <2>6
  <2>. QED BY <2>5, <2>6, <2>7
<1>3. CASE "router" \notin ends[c]
  BY <1>1, <1>3 DEF Put
<1>. QED BY <1>2, <1>3

(* Closing the worker's end cuts the wires short.                          *)
LEMMA CloseEndFacts ==
  ASSUME TypeOK, NEW c \in Conn, NEW keep, CloseEnd(c, keep)
  PROVE  /\ ends' \in [Conn -> SUBSET {"worker", "router"}]
         /\ toRouter' \in [Conn -> Seq(Cmd)] /\ toWorker' \in [Conn -> Seq(Ans)]
         /\ \A d \in Conn : d # c => /\ ends'[d] = ends[d]
                                     /\ toRouter'[d] = toRouter[d]
                                     /\ toWorker'[d] = toWorker[d]
         /\ begun' = [begun EXCEPT ![c[1]] = "none"]
         /\ ends'[c] = ends[c] \ {"worker"}
         /\ \A i \in DOMAIN toRouter'[c] :
              i \in DOMAIN toRouter[c] /\ toRouter'[c][i] = toRouter[c][i]
         /\ \A i \in DOMAIN toWorker'[c] :
              i \in DOMAIN toWorker[c] /\ toWorker'[c][i] = toWorker[c][i]
<1>1. /\ toRouter \in [Conn -> Seq(Cmd)] /\ toWorker \in [Conn -> Seq(Ans)]
      /\ ends \in [Conn -> SUBSET {"worker", "router"}]
  BY DEF TypeOK, Cmd, Ans
<1>2. /\ ends' \in [Conn -> SUBSET {"worker", "router"}]
      /\ ends'[c] = ends[c] \ {"worker"}
      /\ \A d \in Conn : d # c => ends'[d] = ends[d]
  BY <1>1 DEF CloseEnd
<1>3. /\ toRouter' \in [Conn -> Seq(Cmd)]
      /\ \A d \in Conn : d # c => toRouter'[d] = toRouter[d]
      /\ \A i \in DOMAIN toRouter'[c] :
              i \in DOMAIN toRouter[c] /\ toRouter'[c][i] = toRouter[c][i]
  <2>1. PICK n \in 0 .. Len(toRouter[c]) : toRouter' = [toRouter EXCEPT ![c] = SubSeq(@, 1, n)]
    BY DEF CloseEnd
  <2>2. toRouter[c] \in Seq(Cmd) /\ toRouter'[c] = SubSeq(toRouter[c], 1, n)
    BY <1>1, <2>1
  <2>3. /\ SubSeq(toRouter[c], 1, n) \in Seq(Cmd)
        /\ \A i \in DOMAIN SubSeq(toRouter[c], 1, n) :
             i \in DOMAIN toRouter[c] /\ SubSeq(toRouter[c], 1, n)[i] = toRouter[c][i]
    BY <2>2, PrefixFacts
  <2>. QED BY <1>1, <2>1, <2>2, <2>3
<1>4. /\ toWorker' \in [Conn -> Seq(Ans)]
      /\ \A d \in Conn : d # c => toWorker'[d] = toWorker[d]
      /\ \A i \in DOMAIN toWorker'[c] :
              i \in DOMAIN toWorker[c] /\ toWorker'[c][i] = toWorker[c][i]
  <2>1. PICK n \in 0 .. keep : /\ n <= Len(toWorker[c])
                               /\ toWorker' = [toWorker EXCEPT ![c] = SubSeq(@, 1, n)]
    BY DEF CloseEnd
  <2>2. toWorker[c] \in Seq(Ans) /\ toWorker'[c] = SubSeq(toWorker[c], 1, n)
    BY <1>1, <2>1
  <2>3. n \in 0 .. Len(toWorker[c])
    BY <2>1, <2>2
  <2>4. /\ SubSeq(toWorker[c], 1, n) \in Seq(Ans)
        /\ \A i \in DOMAIN SubSeq(toWorker[c], 1, n) :
             i \in DOMAIN toWorker[c] /\ SubSeq(toWorker[c], 1, n)[i] = toWorker[c][i]
    BY <2>2, <2>3, PrefixFacts
  <2>. QED BY <1>1, <2>1, <2>2, <2>4
<1>. QED BY <1>2, <1>3, <1>4 DEF CloseEnd

(* Taking the first command of a wire.                                     *)
LEMMA ReadsFacts ==
  ASSUME TypeOK, NEW f, NEW c \in Conn, NEW cmd, Reads(f, c, cmd)
  PROVE  /\ toRouter' \in [Conn -> Seq(Cmd)]
         /\ \A d \in Conn : d # c => toRouter'[d] = toRouter[d]
         /\ 1 \in DOMAIN toRouter[c] /\ toRouter[c][1] = cmd
         /\ \A i \in DOMAIN toRouter'[c] :
              i + 1 \in DOMAIN toRouter[c] /\ toRouter'[c][i] = toRouter[c][i + 1]
         /\ \A i \in DOMAIN toRouter[c] : i # 1 =>
              i - 1 \in DOMAIN toRouter'[c] /\ toRouter'[c][i - 1] = toRouter[c][i]
         /\ DOMAIN toRouter[c] \subseteq Nat /\ DOMAIN toRouter'[c] \subseteq Nat
<1>1. toRouter \in [Conn -> Seq(Cmd)] /\ toRouter[c] \in Seq(Cmd) /\ toRouter[c] # << >>
  BY DEF TypeOK, Cmd, Reads
<1>2. toRouter' = [toRouter EXCEPT ![c] = Tail(@)] /\ toRouter'[c] = Tail(toRouter[c])
  BY <1>1 DEF Reads
<1>. QED BY <1>1, <1>2, TailFacts DEF Reads

(* As long as neither the registry nor the descriptors change, an entry    *)
(* stays what it is.                                                       *)
LEMMA EntryFrame ==
  ASSUME UNCHANGED <<sock, fds>>
  PROVE  /\ \A c \in Conn : Entry(c)' = Entry(c)
         /\ Descriptors /\ (\A c \in Conn : "router" \in ends[c] => "router" \in ends'[c])
            /\ sock \in [Fd -> Conn \cup {None}]
            => Descriptors'
BY DEF Entry, Descriptors

(* A wire from whose end the router has taken a command, and that an       *)
(* unregister after all registers ends, still ends so.                     *)
LEMMA SettledTail ==
  ASSUME TypeOK, NEW f, NEW c \in Conn, NEW cmd \in Cmd, Reads(f, c, cmd), Settled(c),
         Entry(c)' => (cmd # "unregister" /\ (Entry(c) \/ cmd = "register"))
  PROVE  Settled(c)'
<1>3. /\ 1 \in DOMAIN toRouter[c] /\ toRouter[c][1] = cmd
      /\ \A i \in DOMAIN toRouter'[c] :
           i + 1 \in DOMAIN toRouter[c] /\ toRouter'[c][i] = toRouter[c][i + 1]
      /\ \A i \in DOMAIN toRouter[c] : i # 1 =>
           i - 1 \in DOMAIN toRouter'[c] /\ toRouter'[c][i - 1] = toRouter[c][i]
      /\ DOMAIN toRouter[c] \subseteq Nat /\ DOMAIN toRouter'[c] \subseteq Nat
  BY ReadsFacts
<1>1. CASE ~Entry(c) /\ \A i \in DOMAIN toRouter[c] : toRouter[c][i] # "register"
  BY <1>1, <1>3 DEF Settled
<1>2. ASSUME NEW i \in DOMAIN toRouter[c], toRouter[c][i] = "unregister",
             \A j \in DOMAIN toRouter[c] : j > i => toRouter[c][j] # "register"
      PROVE  Settled(c)'
  <2>1. CASE i = 1
    <3>1. cmd = "unregister" /\ ~Entry(c)'
      BY <1>2, <1>3, <2>1
    <3>2. \A j \in DOMAIN toRouter'[c] : toRouter'[c][j] # "register"
      BY <1>2, <1>3, <2>1
    <3>. QED BY <3>1, <3>2 DEF Settled
  <2>2. CASE i # 1
    <3>1. i - 1 \in DOMAIN toRouter'[c] /\ toRouter'[c][i - 1] = "unregister"
      BY <1>2, <1>3, <2>2
    <3>2. \A j \in DOMAIN toRouter'[c] : j > i - 1 => toRouter'[c][j] # "register"
      BY <1>2, <1>3, <2>2
    <3>. QED BY <3>1, <3>2 DEF Settled
  <2>. QED BY <2>1, <2>2
<1>. QED BY <1>1, <1>2 DEF Settled

-----------------------------------------------------------------------------
(* Steps of a worker process.                                              *)

(* A step of one process touches its own connections only, closes no end   *)
(* of the router's and leaves the registry alone; so it is enough to look  *)
(* at that process.                                                        *)
LEMMA WorkerStep ==
  ASSUME IInv, NEW l \in Life, UNCHANGED <<routerVars, mgtVars>>,
         life' \in [Life -> LifeState],
         link' \in [Life -> 0 .. MaxConn],
         registered' \in [Life -> BOOLEAN], leftover' \in [Life -> BOOLEAN],
         begun' \in [Life -> Begun],
         ends' \in [Conn -> SUBSET {"worker", "router"}],
         toRouter' \in [Conn -> Seq(Cmd)], toWorker' \in [Conn -> Seq(Ans)],
         \A m \in Life : m # l => /\ life'[m] = life[m] /\ link'[m] = link[m]
                                 /\ registered'[m] = registered[m]
                                 /\ begun'[m] = begun[m],
         \A c \in Conn : "router" \in ends[c] => "router" \in ends'[c],
         \A c \in Conn : c[1] # l => /\ ends'[c] = ends[c]
                                    /\ toRouter'[c] = toRouter[c]
                                    /\ toWorker'[c] = toWorker[c],
         AnswerTrue(l)', FlagTrue(l)', Drains(l)', CutLate(l)',
         \A c \in Conn : c[1] = l => Late(c)'
  PROVE  IInv'
<1>1. TypeOK' /\ Mgt!Consistent'
  <2>1. Registry'
    BY RegistryFrame DEF IInv, Typed, TypeOK, Registry
  <2>. QED BY <2>1 DEF IInv, Typed, TypeOK, Registry, routerVars, Cmd, Ans, Begun, LifeState
<1>2. sock' = sock /\ fds' = fds
  BY DEF routerVars, mgtVars
<1>3. Descriptors' /\ \A c \in Conn : Entry(c)' = Entry(c)
  BY <1>2, EntryFrame DEF IInv, Typed, TypeOK, Truth
<1>4. ASSUME NEW m \in Life, m # l, link[m] > 0
      PROVE  /\ Present(m)' = Present(m) /\ Present(m) \in Conn
             /\ ends'[Present(m)] = ends[Present(m)]
             /\ toRouter'[Present(m)] = toRouter[Present(m)]
             /\ toWorker'[Present(m)] = toWorker[Present(m)]
             /\ Entry(Present(m))' = Entry(Present(m))
  <2>1. Present(m) \in Conn /\ Present(m)[1] = m
    BY <1>4, PresentFacts DEF IInv, Typed
  <2>2. Present(m)' = Present(m)
    BY <1>4 DEF Present
  <2>3. Entry(Present(m))' = Entry(Present(m))
    BY <1>2, <2>2 DEF Entry
  <2>. QED BY <1>4, <2>1, <2>2, <2>3
<1>5. \A m \in Life : AnswerTrue(m)' /\ FlagTrue(m)' /\ Drains(m)' /\ CutLate(m)'
  <2>. SUFFICES ASSUME NEW m \in Life, m # l
                PROVE  AnswerTrue(m)' /\ FlagTrue(m)' /\ Drains(m)' /\ CutLate(m)'
    OBVIOUS
  <2>3. CutLate(m)'
    BY DEF IInv, Truth, CutLate
  <2>1. CASE link[m] > 0
    <3>1. AnswerTrue(m) /\ FlagTrue(m) /\ Drains(m)
      BY DEF IInv, Truth
    <3>2. AnswerTrue(m)'
      BY <1>4, <2>1, <3>1 DEF AnswerTrue
    <3>3. FlagTrue(m)'
      BY <1>4, <2>1, <3>1 DEF FlagTrue
    <3>4. Drains(m)'
      BY <1>4, <2>1, <3>1 DEF Drains, Settled
    <3>. QED BY <2>3, <3>2, <3>3, <3>4
  <2>2. CASE ~(link[m] > 0)
    BY <2>2, <2>3 DEF AnswerTrue, FlagTrue, Drains
  <2>. QED BY <2>1, <2>2
<1>6. \A c \in Conn : Late(c)'
  <2>. SUFFICES ASSUME NEW c \in Conn, c[1] # l
                PROVE  Late(c)'
    OBVIOUS
  <2>1. c[1] \in Life
    BY DEF Conn
  <2>. QED BY <2>1 DEF IInv, Truth, Late
<1>. QED BY <1>1, <1>3, <1>5, <1>6 DEF IInv, Typed, Truth

(* A new connection begins with the flag down and nothing received.        *)
LEMMA ConnectKeeps ==
  ASSUME IInv, NEW l \in Life, Connect(l), life[l] \in {"new", "up"},
         life' = [life EXCEPT ![l] = "up"]
  PROVE  IInv'
<1>1. /\ life \in [Life -> LifeState]
      /\ link \in [Life -> 0 .. MaxConn] /\ registered \in [Life -> BOOLEAN]
      /\ leftover \in [Life -> BOOLEAN] /\ begun \in [Life -> Begun]
      /\ ends \in [Conn -> SUBSET {"worker", "router"}]
      /\ toRouter \in [Conn -> Seq(Cmd)] /\ toWorker \in [Conn -> Seq(Ans)]
  BY DEF IInv, Typed, TypeOK, Cmd, Ans, Begun, LifeState
<1>2. /\ registered' = [registered EXCEPT ![l] = FALSE]
      /\ UNCHANGED <<leftover, begun, toRouter, routerVars, mgtVars>>
  BY DEF Connect
<1>3. life'[l] = "up" /\ ~registered'[l] /\ begun[l] # "unregister"
  BY <1>1, <1>2 DEF IInv, Truth, CutLate
<1>4. FlagTrue(l)' /\ Drains(l)' /\ CutLate(l)'
  BY <1>2, <1>3 DEF FlagTrue, Drains, CutLate
<1>5. \A c \in Conn : c[1] = l => Late(c)'
  <2>. SUFFICES ASSUME NEW c \in Conn, c[1] = l PROVE Late(c)'
    OBVIOUS
  <2>1. Late(c)
    BY DEF IInv, Truth
  <2>. QED BY <1>2, <1>1, <2>1 DEF Late, Over
<1>6. CASE running /\ link[l] < MaxConn
           /\ link' = [link EXCEPT ![l] = @ + 1]
           /\ ends' = [ends EXCEPT ![<<l, link[l] + 1>>] = {"worker", "router"}]
           /\ toWorker' = [c \in Conn |-> IF c[1] = l THEN << >> ELSE toWorker[c]]
  <2>1. link[l] + 1 \in 1 .. MaxConn /\ <<l, link[l] + 1>> \in Conn
    BY <1>1, <1>6, RegistrationAssumption DEF Conn
  <2>2. link' \in [Life -> 0 .. MaxConn] /\ Present(l)' = <<l, link[l] + 1>>
    BY <1>1, <1>6, <2>1 DEF Present
  <2>3. << >> \in Seq(Ans)
    OBVIOUS
  <2>4. toWorker' \in [Conn -> Seq(Ans)]
    BY <1>1, <1>6, <2>3
  <2>5. AnswerTrue(l)'
    BY <1>6, <2>1, <2>2 DEF AnswerTrue
  <2>6. \A c \in Conn : c[1] # l => ends'[c] = ends[c] /\ toWorker'[c] = toWorker[c]
    BY <1>1, <1>6
  <2>7. \A c \in Conn : "router" \in ends[c] => "router" \in ends'[c]
    BY <1>1, <1>6
  <2>8. ends' \in [Conn -> SUBSET {"worker", "router"}]
    BY <1>1, <1>6
  <2>9. /\ registered' \in [Life -> BOOLEAN] /\ leftover' \in [Life -> BOOLEAN]
        /\ life' \in [Life -> LifeState] /\ begun' \in [Life -> Begun]
        /\ toRouter' \in [Conn -> Seq(Cmd)]
        /\ \A m \in Life : m # l => /\ life'[m] = life[m] /\ link'[m] = link[m]
                                    /\ registered'[m] = registered[m]
                                    /\ begun'[m] = begun[m]
        /\ \A c \in Conn : toRouter'[c] = toRouter[c]
    BY <1>1, <1>2, <1>6 DEF LifeState
  <2>. QED BY <1>2, <1>4, <1>5, <2>2, <2>4, <2>5, <2>6, <2>7, <2>8, <2>9, WorkerStep
<1>7. CASE UNCHANGED <<link, ends, toWorker>>
  <2>1. AnswerTrue(l)'
    <3>1. AnswerTrue(l)
      BY DEF IInv, Truth
    <3>2. Present(l)' = Present(l) /\ sock' = sock /\ fds' = fds
      BY <1>2, <1>7 DEF Present, routerVars, mgtVars
    <3>. QED BY <1>7, <3>1, <3>2 DEF AnswerTrue, Over, Entry
  <2>2. /\ registered' \in [Life -> BOOLEAN] /\ leftover' \in [Life -> BOOLEAN]
        /\ life' \in [Life -> LifeState]
        /\ \A m \in Life : m # l => life'[m] = life[m] /\ registered'[m] = registered[m]
    BY <1>1, <1>2 DEF LifeState
  <2>. QED BY <1>1, <1>2, <1>4, <1>5, <1>7, <2>1, <2>2, WorkerStep
<1>. QED BY <1>6, <1>7 DEF Connect

(* A command sent changes the end of one wire.                             *)
LEMMA PutKeeps ==
  ASSUME IInv, NEW l \in Life, NEW cmd \in Cmd, link[l] > 0, Put(Present(l), cmd),
         life' \in [Life -> LifeState],
         begun' \in [Life -> Begun],
         \A m \in Life : m # l => life'[m] = life[m] /\ begun'[m] = begun[m],
         \/ life'[l] = life[l] \/ life'[l] = "unheard"
         \/ life'[l] = "unregistered" /\ cmd = "unregister",
         cmd = "unregister" => life'[l] \in Over, CutLate(l)',
         cmd = "register" => life[l] # "unregistered",
         UNCHANGED <<link, registered, leftover, ends, toWorker, routerVars, mgtVars>>
  PROVE  IInv'
<1>. DEFINE c == Present(l)
<1>1. c \in Conn /\ c[1] = l /\ c' = c
  BY PresentFacts DEF IInv, Typed, Present
<1>2. /\ toRouter' \in [Conn -> Seq(Cmd)]
      /\ \A d \in Conn : d # c => toRouter'[d] = toRouter[d]
      /\ \A i \in DOMAIN toRouter[c] :
           i \in DOMAIN toRouter'[c] /\ toRouter'[c][i] = toRouter[c][i]
      /\ \A i \in DOMAIN toRouter'[c] : i \in DOMAIN toRouter[c] \/ toRouter'[c][i] = cmd
      /\ "router" \in ends[c] =>
           \E i \in DOMAIN toRouter'[c] :
             /\ toRouter'[c][i] = cmd
             /\ \A j \in DOMAIN toRouter'[c] : ~(j > i)
  BY <1>1, PutFacts DEF IInv, Typed
<1>3. /\ link' \in [Life -> 0 .. MaxConn] /\ registered' \in [Life -> BOOLEAN]
      /\ leftover' \in [Life -> BOOLEAN]
      /\ ends' \in [Conn -> SUBSET {"worker", "router"}] /\ toWorker' \in [Conn -> Seq(Ans)]
  BY DEF IInv, Typed, TypeOK, Ans
<1>4. Entry(c)' = Entry(c)
  BY <1>1 DEF Entry, routerVars, mgtVars
<1>5. AnswerTrue(l) /\ FlagTrue(l) /\ Drains(l)
  BY DEF IInv, Truth
<1>. HIDE DEF c
<1>6. AnswerTrue(l)' /\ FlagTrue(l)'
  BY <1>1, <1>4, <1>5 DEF AnswerTrue, FlagTrue, Over, c
<1>7. Drains(l)'
  <2>. SUFFICES ASSUME life'[l] = "unregistered", ends[c] = {"worker", "router"}
                PROVE  Settled(c)'
    BY <1>1 DEF Drains, c
  <2>1. CASE cmd = "unregister"
    BY <1>1, <1>2, <2>1 DEF Settled
  <2>2. CASE cmd # "unregister"
    <3>1. Settled(c) /\ cmd # "register"
      BY <1>5, <2>2 DEF Drains, c
    <3>. QED BY <1>1, <1>2, <1>4, <3>1 DEF Settled
  <2>. QED BY <2>1, <2>2
<1>8. \A d \in Conn : d[1] = l => Late(d)'
  <2>. SUFFICES ASSUME NEW d \in Conn, d[1] = l PROVE Late(d)'
    OBVIOUS
  <2>1. Late(d)
    BY DEF IInv, Truth
  <2>. QED BY <1>2, <2>1 DEF Late, Over
<1>. QED BY <1>1, <1>2, <1>3, <1>6, <1>7, <1>8, WorkerStep

(* A closed end proves nothing false: less is on the wires, and nobody     *)
(* relies on the flag or on the registry any more.                         *)
LEMMA CloseKeeps ==
  ASSUME IInv, NEW l \in Life, NEW keep, link[l] > 0, CloseEnd(Present(l), keep),
         life' \in [Life -> LifeState],
         registered' \in [Life -> BOOLEAN], leftover' \in [Life -> BOOLEAN],
         \A m \in Life : m # l => life'[m] = life[m] /\ registered'[m] = registered[m],
         life'[l] = life[l] \/ life'[l] = "exited",
         UNCHANGED <<link, routerVars, mgtVars>>
  PROVE  IInv'
<1>. DEFINE c == Present(l)
<1>1. c \in Conn /\ c[1] = l /\ c' = c
  BY PresentFacts DEF IInv, Typed, Present
<1>2. /\ ends' \in [Conn -> SUBSET {"worker", "router"}]
      /\ toRouter' \in [Conn -> Seq(Cmd)] /\ toWorker' \in [Conn -> Seq(Ans)]
      /\ \A d \in Conn : d # c => /\ ends'[d] = ends[d]
                                  /\ toRouter'[d] = toRouter[d]
                                  /\ toWorker'[d] = toWorker[d]
      /\ begun' = [begun EXCEPT ![l] = "none"]
      /\ ends'[c] = ends[c] \ {"worker"}
      /\ \A i \in DOMAIN toRouter'[c] :
           i \in DOMAIN toRouter[c] /\ toRouter'[c][i] = toRouter[c][i]
      /\ \A i \in DOMAIN toWorker'[c] :
           i \in DOMAIN toWorker[c] /\ toWorker'[c][i] = toWorker[c][i]
  BY <1>1, CloseEndFacts DEF IInv, Typed
<1>3. /\ link' \in [Life -> 0 .. MaxConn] /\ begun' \in [Life -> Begun] /\ CutLate(l)'
      /\ \A m \in Life : m # l => begun'[m] = begun[m]
  BY <1>2 DEF IInv, Typed, TypeOK, Begun, CutLate
<1>4. Entry(c)' = Entry(c)
  BY <1>1 DEF Entry, routerVars, mgtVars
<1>5. AnswerTrue(l)
  BY DEF IInv, Truth
<1>. HIDE DEF c
<1>6. AnswerTrue(l)' /\ FlagTrue(l)' /\ Drains(l)'
  <2>1. "worker" \notin ends'[c] /\ ("router" \in ends'[c] => "router" \in ends[c])
    BY <1>2
  <2>2. FlagTrue(l)' /\ Drains(l)'
    BY <1>1, <2>1 DEF FlagTrue, Drains, c
  <2>3. life'[l] \notin Over => life[l] \notin Over
    BY DEF Over
  <2>4. \A i \in DOMAIN toWorker'[c] :
           i \in DOMAIN toWorker[c] /\ toWorker'[c][i] = toWorker[c][i]
    BY <1>2
  <2>5. AnswerTrue(l)'
    BY <1>1, <1>4, <1>5, <2>1, <2>3, <2>4 DEF AnswerTrue, c
  <2>. QED BY <2>2, <2>5
<1>7. \A d \in Conn : d[1] = l => Late(d)'
  <2>. SUFFICES ASSUME NEW d \in Conn, d[1] = l PROVE Late(d)'
    OBVIOUS
  <2>1. Late(d)
    BY DEF IInv, Truth
  <2>2. /\ \A i \in DOMAIN toRouter'[d] :
              i \in DOMAIN toRouter[d] /\ toRouter'[d][i] = toRouter[d][i]
        /\ life'[d[1]] = life[d[1]] \/ life'[d[1]] = "exited"
    BY <1>2
  <2>. QED BY <2>1, <2>2 DEF Late, Over
<1>8. /\ \A d \in Conn : "router" \in ends[d] => "router" \in ends'[d]
      /\ \A d \in Conn : d[1] # l => /\ ends'[d] = ends[d]
                                     /\ toRouter'[d] = toRouter[d]
                                     /\ toWorker'[d] = toWorker[d]
  BY <1>1, <1>2
<1>. QED BY <1>2, <1>3, <1>6, <1>7, <1>8, WorkerStep

(* A step that moves a process on and puts nothing on a wire.              *)
LEMMA MoveKeeps ==
  ASSUME IInv, NEW l \in Life,
         life' \in [Life -> LifeState],
         \A m \in Life : m # l => life'[m] = life[m] /\ registered'[m] = registered[m],
         registered' \in [Life -> BOOLEAN], leftover' \in [Life -> BOOLEAN],
         \/ life[l] = "up" /\ life'[l] = "stopping" /\ registered'[l] = registered[l]
         \/ IsClosed(l) /\ life'[l] \in {"unregistered", "exited"}
         \/ life'[l] = "unheard" /\ registered'[l] = registered[l],
         begun' \in [Life -> Begun], \A m \in Life : m # l => begun'[m] = begun[m],
         CutLate(l)',
         UNCHANGED <<link, wireVars, routerVars, mgtVars>>
  PROVE  IInv'
<1>1. Present(l)' = Present(l) /\ sock' = sock /\ fds' = fds
      /\ UNCHANGED <<ends, toRouter, toWorker>>
  BY DEF Present, wireVars, routerVars, mgtVars
<1>2. AnswerTrue(l) /\ FlagTrue(l) /\ Drains(l)
  BY DEF IInv, Truth
<1>3. AnswerTrue(l)' /\ FlagTrue(l)' /\ Drains(l)'
  BY <1>1, <1>2 DEF AnswerTrue, FlagTrue, Drains, Settled, Entry, IsClosed, Over
<1>4. \A c \in Conn : c[1] = l => Late(c)'
  <2>. SUFFICES ASSUME NEW c \in Conn, c[1] = l PROVE Late(c)'
    OBVIOUS
  <2>1. Late(c)
    BY DEF IInv, Truth
  <2>. QED BY <1>1, <2>1 DEF Late, Over
<1>5. /\ link' \in [Life -> 0 .. MaxConn]
      /\ ends' \in [Conn -> SUBSET {"worker", "router"}]
      /\ toRouter' \in [Conn -> Seq(Cmd)] /\ toWorker' \in [Conn -> Seq(Ans)]
  BY <1>1 DEF IInv, Typed, TypeOK, Cmd, Ans
<1>. QED BY <1>1, <1>3, <1>4, <1>5, WorkerStep

(* A line read: the flag goes up only for an answer that accepts, and that *)
(* answer is true.                                                         *)
LEMMA ClientInputKeeps ==
  ASSUME IInv, NEW l \in Life, ClientInput(l)
  PROVE  IInv'
<1>. DEFINE c == Present(l)
<1>1. c \in Conn /\ c[1] = l /\ c' = c /\ link[l] > 0
  BY PresentFacts DEF IInv, Typed, Present, ClientInput
<1>2. /\ toWorker \in [Conn -> Seq(Ans)] /\ toRouter \in [Conn -> Seq(Cmd)]
      /\ leftover \in [Life -> BOOLEAN] /\ registered \in [Life -> BOOLEAN]
      /\ begun \in [Life -> Begun] /\ life \in [Life -> LifeState]
      /\ link \in [Life -> 0 .. MaxConn]
      /\ ends \in [Conn -> SUBSET {"worker", "router"}]
  BY DEF IInv, Typed, TypeOK, Cmd, Ans, Begun, LifeState
<1>3. UNCHANGED <<life, link, ends, routerVars, mgtVars>>
  BY DEF ClientInput
<1>4. /\ toWorker[c] \in Seq(Ans) /\ toWorker[c] # << >>
      /\ toWorker' = [toWorker EXCEPT ![c] = Tail(@)]
  BY <1>1, <1>2 DEF ClientInput
<1>5. /\ Tail(toWorker[c]) \in Seq(Ans)
      /\ 1 \in DOMAIN toWorker[c] /\ Head(toWorker[c]) = toWorker[c][1]
      /\ Head(toWorker[c]) \in Ans
      /\ \A i \in DOMAIN Tail(toWorker[c]) :
           i + 1 \in DOMAIN toWorker[c] /\ Tail(toWorker[c])[i] = toWorker[c][i + 1]
  BY <1>4, TailFacts
<1>. HIDE DEF c
<1>6. /\ toWorker' \in [Conn -> Seq(Ans)] /\ toWorker'[c] = Tail(toWorker[c])
      /\ \A d \in Conn : d # c => toWorker'[d] = toWorker[d]
  BY <1>1, <1>2, <1>4, <1>5
<1>7. leftover' \in [Life -> BOOLEAN]
  <2>1. Head(toWorker[c]).whole \in BOOLEAN
    BY <1>5 DEF Ans
  <2>. QED BY <1>2, <2>1 DEF ClientInput, c
<1>8. /\ toRouter' \in [Conn -> Seq(Cmd)]
      /\ \A d \in Conn : d # c => toRouter'[d] = toRouter[d]
      /\ \A i \in DOMAIN toRouter[c] :
           i \in DOMAIN toRouter'[c] /\ toRouter'[c][i] = toRouter[c][i]
      /\ \A i \in DOMAIN toRouter'[c] : i \in DOMAIN toRouter[c] \/ toRouter'[c][i] \in {"null", begun[l]} \ {"none"}
  <2>. DEFINE cmd == IF begun[l] = "none" THEN "null" ELSE begun[l]
  <2>1. Put(c, cmd) \/ UNCHANGED toRouter
    BY DEF ClientInput, SendLine, Ignored, c
  <2>2. cmd \in Cmd /\ cmd \in {"null", begun[l]} \ {"none"}
    BY <1>2 DEF Cmd, Begun
  <2>. HIDE DEF cmd
  <2>. QED BY <1>1, <1>2, <2>1, <2>2, PutFacts DEF IInv, Typed
<1>9. /\ registered' \in [Life -> BOOLEAN]
      /\ \A m \in Life : m # l => registered'[m] = registered[m]
      /\ registered'[l] => registered[l] \/ toWorker[c][1].err = Mgt!OK
  BY <1>2, <1>5 DEF ClientInput, Flag, c
<1>10. Entry(c)' = Entry(c)
  BY <1>1, <1>3 DEF Entry, routerVars, mgtVars
<1>11. AnswerTrue(l) /\ FlagTrue(l) /\ Drains(l) /\ CutLate(l)
  BY DEF IInv, Truth
<1>16. /\ begun' \in [Life -> Begun] /\ \A m \in Life : m # l => begun'[m] = begun[m]
       /\ begun'[l] \in {"none", "null", begun[l]}
  <2>1. \E rest \in {"none", "null", begun[l]} : begun' = [begun EXCEPT ![l] = rest]
    <3>1. CASE UNCHANGED begun
      BY <1>2, <3>1
    <3>2. CASE SendLine(l, "null")
      BY <3>2 DEF SendLine
    <3>3. CASE Ignored(l, "null")
      BY <3>3 DEF Ignored
    <3>. QED BY <3>1, <3>2, <3>3 DEF ClientInput
  <2>. QED BY <1>2, <2>1 DEF Begun
<1>17. CutLate(l)'
  BY <1>3, <1>11, <1>16 DEF CutLate
<1>12. AnswerTrue(l)'
  BY <1>1, <1>3, <1>5, <1>6, <1>10, <1>11 DEF AnswerTrue, c
<1>13. FlagTrue(l)'
  BY <1>1, <1>3, <1>5, <1>9, <1>10, <1>11 DEF AnswerTrue, FlagTrue, Over, c
<1>14. Drains(l)'
  <2>1. begun[l] \in Begun /\ (life[l] = "unregistered" => begun[l] # "unregister")
    BY <1>2, <1>11 DEF CutLate
  <2>. QED BY <1>1, <1>3, <1>8, <1>10, <1>11, <2>1 DEF Drains, Settled, Begun, c
<1>15. \A d \in Conn : d[1] = l => Late(d)'
  <2>. SUFFICES ASSUME NEW d \in Conn, d[1] = l PROVE Late(d)'
    OBVIOUS
  <2>1. Late(d)
    BY DEF IInv, Truth
  <2>2. begun[l] = "unregister" => life[l] \in Over
    BY <1>11 DEF CutLate, Over
  <2>. QED BY <1>1, <1>3, <1>8, <2>1, <2>2 DEF Late
<1>18. /\ UNCHANGED <<routerVars, mgtVars>> /\ life' \in [Life -> LifeState]
       /\ link' \in [Life -> 0 .. MaxConn] /\ registered' \in [Life -> BOOLEAN]
       /\ begun' \in [Life -> Begun]
       /\ ends' \in [Conn -> SUBSET {"worker", "router"}]
       /\ toRouter' \in [Conn -> Seq(Cmd)] /\ toWorker' \in [Conn -> Seq(Ans)]
  BY <1>2, <1>3, <1>6, <1>8, <1>9, <1>16
<1>19. \A m \in Life : m # l => /\ life'[m] = life[m] /\ link'[m] = link[m]
                                /\ registered'[m] = registered[m]
                                /\ begun'[m] = begun[m]
  BY <1>3, <1>9, <1>16
<1>20. \A d \in Conn : /\ "router" \in ends[d] => "router" \in ends'[d]
                       /\ d[1] # l => /\ ends'[d] = ends[d]
                                      /\ toRouter'[d] = toRouter[d]
                                      /\ toWorker'[d] = toWorker[d]
  BY <1>1, <1>3, <1>6, <1>8
<1>. QED BY <1>7, <1>12, <1>13, <1>14, <1>15, <1>17, <1>18, <1>19, <1>20, WorkerStep

(* unregister_workers, whatever becomes of the line.                       *)
LEMMA UnregisterStepKeeps ==
  ASSUME IInv, NEW l \in Life, Unregister(l)
  PROVE  IInv'
<1>1. /\ life \in [Life -> LifeState] /\ begun \in [Life -> Begun]
      /\ registered \in [Life -> BOOLEAN] /\ leftover \in [Life -> BOOLEAN]
      /\ life[l] = "stopping" /\ begun[l] # "unregister"
  BY DEF IInv, Typed, TypeOK, Truth, CutLate, LifeState, Begun, Unregister
<1>2. UNCHANGED <<link, registered, leftover, ends, toWorker, routerVars, mgtVars>>
  BY DEF Unregister
<1>3. PICK past \in {"unregistered", "unheard"} : life' = [life EXCEPT ![l] = past]
  BY DEF Unregister
<1>4. /\ life' \in [Life -> LifeState] /\ life'[l] = past
      /\ \A m \in Life : m # l => life'[m] = life[m]
  BY <1>1, <1>3 DEF LifeState
<1>5. CASE IsClosed(l) /\ past = "unregistered" /\ UNCHANGED <<toRouter, begun>>
  <2>1. CutLate(l)'
    BY <1>1, <1>5 DEF CutLate
  <2>. QED BY <1>1, <1>2, <1>4, <1>5, <2>1, MoveKeeps DEF wireVars
<1>6. CASE ~IsClosed(l) /\ begun[l] = "none" /\ past = "unregistered" /\ SendLine(l, "unregister")
  <2>1. Put(Present(l), "unregister") /\ begun' = begun
    BY <1>1, <1>6 DEF SendLine
  <2>2. CutLate(l)' /\ link[l] > 0 /\ "unregister" \in Cmd /\ life'[l] \in Over
    BY <1>4, <1>6, <2>1 DEF CutLate, IsClosed, Cmd, Over
  <2>. QED BY <1>1, <1>2, <1>4, <1>6, <2>1, <2>2, PutKeeps
<1>7. CASE ~IsClosed(l) /\ begun[l] # "none" /\ past = "unheard" /\ SendLine(l, "unregister")
  <2>1. begun[l] = "null"
    BY <1>1, <1>7 DEF Begun
  <2>2. Put(Present(l), "null") /\ begun' = [begun EXCEPT ![l] = "none"]
    BY <1>7, <2>1 DEF SendLine
  <2>3. /\ begun' \in [Life -> Begun] /\ begun'[l] = "none"
        /\ \A m \in Life : m # l => begun'[m] = begun[m]
    BY <1>1, <2>2 DEF Begun
  <2>4. CutLate(l)' /\ link[l] > 0 /\ "null" \in Cmd
    BY <1>7, <2>3 DEF CutLate, IsClosed, Cmd
  <2>. QED BY <1>1, <1>2, <1>4, <1>7, <2>2, <2>3, <2>4, PutKeeps
<1>8. CASE past = "unheard" /\ Ignored(l, "unregister")
  <2>1. PICK rest \in {"none", "null", "unregister"} : begun' = [begun EXCEPT ![l] = rest]
    BY <1>1, <1>8 DEF Ignored, Begun
  <2>2. begun' \in [Life -> Begun] /\ \A m \in Life : m # l => begun'[m] = begun[m]
    BY <1>1, <2>1 DEF Begun
  <2>3. CutLate(l)'
    BY <1>4, <1>8 DEF CutLate
  <2>4. UNCHANGED wireVars
    BY <1>2, <1>8 DEF Ignored, wireVars
  <2>. QED BY <1>1, <1>2, <1>4, <1>8, <2>2, <2>3, <2>4, MoveKeeps
<1>9. past = "unregistered" \/ past = "unheard"
  OBVIOUS
<1>10. life'[l] = past
  BY <1>4
<1>11. \/ IsClosed(l) /\ past = "unregistered" /\ UNCHANGED <<toRouter, begun>>
       \/ ~IsClosed(l) /\ begun[l] = "none" /\ past = "unregistered" /\ SendLine(l, "unregister")
       \/ ~IsClosed(l) /\ begun[l] # "none" /\ past = "unheard" /\ SendLine(l, "unregister")
       \/ past = "unheard" /\ Ignored(l, "unregister")
  BY <1>1, <1>10 DEF Unregister
<1>. QED BY <1>5, <1>6, <1>7, <1>8, <1>11

-----------------------------------------------------------------------------
(* Steps of the router.                                                    *)

(* What the router's steps leave of a life's claims, told by what they do  *)
(* to connections: entries come and go, commands are taken and answers     *)
(* added.                                                                  *)
LEMMA RouterStep ==
  ASSUME IInv, UNCHANGED procVars,
         \A d \in Conn : ends'[d] \subseteq ends[d],
         \A d \in Conn : Entry(d) /\ ~Entry(d)' /\ life[d[1]] \in {"new", "up", "stopping"}
                        => "router" \notin ends'[d],
         \A d \in Conn : \A i \in DOMAIN toWorker'[d] :
           \/ i \in DOMAIN toWorker[d] /\ toWorker'[d][i] = toWorker[d][i]
           \/ toWorker'[d][i].err = Mgt!OK => Entry(d)',
         \A d \in Conn : \A i \in DOMAIN toRouter'[d] :
           \E j \in DOMAIN toRouter[d] : toRouter'[d][i] = toRouter[d][j],
         \A d \in Conn : Settled(d) /\ ends'[d] = {"worker", "router"} => Settled(d)',
         Typed', Descriptors'
  PROVE  IInv'
<1>1. ASSUME NEW l \in Life, link[l] > 0
      PROVE  AnswerTrue(l)' /\ FlagTrue(l)' /\ Drains(l)'
  <2>. DEFINE c == Present(l)
  <2>1. c \in Conn /\ c[1] = l /\ c' = c
    BY <1>1, PresentFacts DEF IInv, Typed, Present, procVars
  <2>2. AnswerTrue(l) /\ FlagTrue(l) /\ Drains(l)
    BY DEF IInv, Truth
  <2>3. life' = life /\ link' = link /\ registered' = registered
    BY DEF procVars
  <2>4. life[l] \in LifeState
    BY DEF IInv, Typed, TypeOK, LifeState
  <2>. HIDE DEF c
  <2>5. /\ ends'[c] \subseteq ends[c]
        /\ Entry(c) /\ ~Entry(c)' /\ life[l] \in {"new", "up", "stopping"}
             => "router" \notin ends'[c]
        /\ \A i \in DOMAIN toWorker'[c] :
             \/ i \in DOMAIN toWorker[c] /\ toWorker'[c][i] = toWorker[c][i]
             \/ toWorker'[c][i].err = Mgt!OK => Entry(c)'
        /\ Settled(c) /\ ends'[c] = {"worker", "router"} => Settled(c)'
    BY <2>1
  <2>6. AnswerTrue(l)'
    BY <2>1, <2>2, <2>3, <2>4, <2>5 DEF AnswerTrue, LifeState, Over, c
  <2>7. FlagTrue(l)'
    <3>1. ends[c] \subseteq {"worker", "router"}
      BY <2>1 DEF IInv, Typed, TypeOK
    <3>. QED BY <2>1, <2>2, <2>3, <2>5, <3>1 DEF FlagTrue, c
  <2>8. Drains(l)'
    <3>1. ends[c] \subseteq {"worker", "router"}
      BY <2>1 DEF IInv, Typed, TypeOK
    <3>. QED BY <2>1, <2>2, <2>3, <2>5, <3>1 DEF Drains, c
  <2>. QED BY <2>6, <2>7, <2>8
<1>2. \A l \in Life : AnswerTrue(l)' /\ FlagTrue(l)' /\ Drains(l)'
  <2>. SUFFICES ASSUME NEW l \in Life, ~(link[l] > 0)
                PROVE  AnswerTrue(l)' /\ FlagTrue(l)' /\ Drains(l)'
    BY <1>1
  <2>. QED BY DEF AnswerTrue, FlagTrue, Drains, procVars
<1>3. \A l \in Life : CutLate(l)'
  BY DEF IInv, Truth, CutLate, procVars
<1>4. \A c \in Conn : Late(c)'
  <2>. SUFFICES ASSUME NEW c \in Conn PROVE Late(c)'
    OBVIOUS
  <2>1. Late(c) /\ life' = life
    BY DEF IInv, Truth, procVars
  <2>. QED BY <2>1 DEF Late
<1>. QED BY <1>2, <1>3, <1>4 DEF IInv, Truth

(* Which entries there are after unregister_worker(f): all but f's.        *)
LEMMA UnregisterEntries ==
  ASSUME IInv, NEW f \in Fd, NEW c \in Conn, c = sock[f], Mgt!UnregisterWorker(f),
         \A g \in Fd : g # f => sock'[g] = sock[g],
         sock'[f] \in {c, None}
  PROVE  /\ ~Entry(c)'
         /\ \A d \in Conn : d # c => Entry(d)' = Entry(d)
         /\ \A g \in DOMAIN fds' : /\ g \in DOMAIN fds /\ g # f
                                   /\ fds'[g] = fds[g] /\ sock'[g] = sock[g]
<1>1. DOMAIN fds \subseteq Fd
  BY DEF IInv, Typed, TypeOK, Mgt!TypeOK
<1>2. c # None
  BY RegistrationAssumption
<1>3. /\ DOMAIN fds' = DOMAIN fds \ {f}
      /\ \A g \in DOMAIN fds' : fds'[g] = fds[g]
  BY DEF Mgt!UnregisterWorker, Mgt!Erase, Mgt!vars
<1>4. \A g \in Fd : sock[g] = c => g = f
  BY <1>2 DEF IInv, Truth, Descriptors
<1>. QED BY <1>1, <1>2, <1>3, <1>4 DEF Entry

(* Accepting a connection gives nobody an entry.                           *)
LEMMA AcceptKeeps ==
  ASSUME IInv, NEW f \in Fd, NEW c \in Conn, Accept(f, c)
  PROVE  IInv'
<1>1. /\ UNCHANGED <<procVars, wireVars, running, crashes, mgtVars>>
      /\ sock' = [sock EXCEPT ![f] = c] /\ sock[f] = None
  BY DEF Accept
<1>2. Typed'
  <2>1. Registry'
    BY <1>1, RegistryFrame DEF IInv, Typed, TypeOK, Registry
  <2>. QED BY <1>1, <2>1 DEF IInv, Typed, TypeOK, Registry, procVars, wireVars
<1>3. \A g \in DOMAIN fds : /\ g \in Fd /\ g # f /\ sock'[g] = sock[g]
  <2>. SUFFICES ASSUME NEW g \in DOMAIN fds
                PROVE  g \in Fd /\ g # f /\ sock'[g] = sock[g]
    OBVIOUS
  <2>1. g \in Fd /\ fds[g] \in Worker /\ sock[g] = fds[g].conn
    BY DEF IInv, Typed, TypeOK, Mgt!TypeOK, Truth, Descriptors
  <2>2. fds[g].conn \in Conn
    BY <2>1 DEF Worker, WorkerOf
  <2>. QED BY <1>1, <2>1, <2>2, RegistrationAssumption DEF IInv, Typed, TypeOK
<1>4. \A d \in Conn : Entry(d)' = Entry(d)
  BY <1>1, <1>3 DEF Entry, mgtVars
<1>5. Descriptors'
  <2>1. fds' = fds /\ ends' = ends
    BY <1>1 DEF mgtVars, wireVars
  <2>2. sock \in [Fd -> Conn \cup {None}]
    BY DEF IInv, Typed, TypeOK
  <2>. QED BY <1>1, <1>3, <2>1, <2>2 DEF Accept, IInv, Truth, Descriptors
<1>6. \A d \in Conn : Settled(d) => Settled(d)'
  BY <1>1, <1>4 DEF Settled, wireVars
<1>. QED BY <1>1, <1>2, <1>4, <1>5, <1>6, RouterStep DEF wireVars

(* What is read from one wire and written on another keeps its type.       *)
LEMMA AnswerFacts ==
  ASSUME TypeOK, NEW c \in Conn, NEW err \in Int, Answer(c, err)
  PROVE  /\ toWorker' \in [Conn -> Seq(Ans)]
         /\ \A d \in Conn : \A i \in DOMAIN toWorker'[d] :
              \/ i \in DOMAIN toWorker[d] /\ toWorker'[d][i] = toWorker[d][i]
              \/ d = c /\ toWorker'[d][i].err = err
<1>1. toWorker \in [Conn -> Seq(Ans)]
  BY DEF TypeOK, Ans
<1>2. CASE UNCHANGED toWorker
  BY <1>1, <1>2
<1>3. ASSUME NEW sent \in Sent,
             toWorker' = [toWorker EXCEPT ![c] =
                            Append(@, [err |-> err, whole |-> sent = "all"])]
      PROVE  /\ toWorker' \in [Conn -> Seq(Ans)]
             /\ \A d \in Conn : \A i \in DOMAIN toWorker'[d] :
                  \/ i \in DOMAIN toWorker[d] /\ toWorker'[d][i] = toWorker[d][i]
                  \/ d = c /\ toWorker'[d][i].err = err
  <2>. DEFINE a == [err |-> err, whole |-> sent = "all"]
  <2>1. (sent = "all") \in BOOLEAN
    OBVIOUS
  <2>2. a \in Ans /\ a.err = err
    BY <2>1 DEF Ans
  <2>. HIDE DEF a
  <2>3. toWorker[c] \in Seq(Ans) /\ toWorker'[c] = Append(toWorker[c], a)
    BY <1>1, <1>3 DEF a
  <2>4. /\ Append(toWorker[c], a) \in Seq(Ans)
        /\ DOMAIN Append(toWorker[c], a) = DOMAIN toWorker[c] \cup {Len(toWorker[c]) + 1}
        /\ \A i \in DOMAIN toWorker[c] : Append(toWorker[c], a)[i] = toWorker[c][i]
        /\ Append(toWorker[c], a)[Len(toWorker[c]) + 1] = a
    BY <2>2, <2>3, AppendFacts
  <2>5. \A d \in Conn : d # c => toWorker'[d] = toWorker[d]
    BY <1>1, <1>3
  <2>6. toWorker' \in [Conn -> Seq(Ans)]
    BY <1>1, <1>3, <2>3, <2>4 DEF a
  <2>. QED BY <2>2, <2>3, <2>4, <2>5, <2>6
<1>. QED BY <1>2, <1>3 DEF Answer

(* The first command of a wire taken: none is new.                         *)
LEMMA ReadsKeepLate ==
  ASSUME TypeOK, NEW f, NEW c \in Conn, NEW cmd, Reads(f, c, cmd)
  PROVE  \A d \in Conn : \A i \in DOMAIN toRouter'[d] :
           \E j \in DOMAIN toRouter[d] : toRouter'[d][i] = toRouter[d][j]
<1>1. /\ \A d \in Conn : d # c => toRouter'[d] = toRouter[d]
      /\ \A i \in DOMAIN toRouter'[c] :
           i + 1 \in DOMAIN toRouter[c] /\ toRouter'[c][i] = toRouter[c][i + 1]
  BY ReadsFacts
<1>. QED BY <1>1

(* register: who is accepted has an entry before the answer is on its way. *)
LEMMA RegisterAnsweredKeeps ==
  ASSUME IInv, NEW f \in Fd, NEW c \in Conn, RecvRegister(f, c),
         \E ret \in {Mgt!OK, Mgt!ERR_WORKER_REGISTERED, Mgt!ERR_FD_EXISTS} :
           Mgt!RegisterWorker(WorkerOf(c, f), ret) /\ Answer(c, ret)
  PROVE  IInv'
<1>1. PICK ret \in {Mgt!OK, Mgt!ERR_WORKER_REGISTERED, Mgt!ERR_FD_EXISTS} :
        Mgt!RegisterWorker(WorkerOf(c, f), ret) /\ Answer(c, ret)
  OBVIOUS
<1>2. /\ Reads(f, c, "register") /\ UNCHANGED <<procVars, ends, routerVars>>
      /\ c = sock[f]
  BY DEF RecvRegister, Reads
<1>3. WorkerOf(c, f) \in Worker /\ WorkerOf(c, f).fd = f /\ WorkerOf(c, f).conn = c
  BY DEF Worker, WorkerOf
<1>4. ret \in Int
  BY DEF Mgt!OK, Mgt!ERR_WORKER_REGISTERED, Mgt!ERR_FD_EXISTS
<1>5. Typed'
  <2>1. Registry'
    BY <1>1, <1>3, RegisterKeeps DEF IInv, Typed, TypeOK, Registry
  <2>2. toRouter' \in [Conn -> Seq(Cmd)] /\ toWorker' \in [Conn -> Seq(Ans)]
    BY <1>1, <1>2, <1>4, ReadsFacts, AnswerFacts DEF IInv, Typed
  <2>. QED BY <1>2, <2>1, <2>2
       DEF IInv, Typed, TypeOK, Registry, procVars, routerVars, Cmd, Ans
<1>6. \/ ret # Mgt!OK /\ fds' = fds
      \/ /\ ret = Mgt!OK /\ f \notin DOMAIN fds
         /\ DOMAIN fds' = DOMAIN fds \cup {f}
         /\ fds'[f] = WorkerOf(c, f)
         /\ \A g \in DOMAIN fds : fds'[g] = fds[g]
  BY <1>1, <1>3 DEF Mgt!RegisterWorker, Mgt!Refusal, Mgt!Insert, Mgt!vars, Mgt!OK,
     Mgt!ERR_WORKER_REGISTERED, Mgt!ERR_FD_EXISTS
<1>7. sock' = sock /\ ends' = ends
  BY <1>2 DEF routerVars
<1>8. /\ \A d \in Conn : d # c => Entry(d)' = Entry(d)
      /\ Entry(c) => Entry(c)'
      /\ ret = Mgt!OK => Entry(c)'
      /\ Entry(c)' => Entry(c) \/ ret = Mgt!OK
  <2>1. \A d \in Conn : Entry(d) => Entry(d)'
    BY <1>6, <1>7 DEF Entry
  <2>2. ret = Mgt!OK => Entry(c)'
    BY <1>2, <1>3, <1>6, <1>7 DEF Entry
  <2>3. \A d \in Conn : Entry(d)' => Entry(d) \/ (d = c /\ ret = Mgt!OK)
    BY <1>2, <1>6, <1>7 DEF Entry
  <2>4. \A d \in Conn : Entry(d) \in BOOLEAN /\ Entry(d)' \in BOOLEAN
    BY DEF Entry
  <2>. QED BY <2>1, <2>2, <2>3, <2>4
<1>9. Descriptors'
  BY <1>2, <1>3, <1>6, <1>7 DEF IInv, Truth, Descriptors
<1>10. \A d \in Conn : Settled(d) /\ ends'[d] = {"worker", "router"} => Settled(d)'
  <2>. SUFFICES ASSUME NEW d \in Conn, Settled(d) PROVE Settled(d)'
    OBVIOUS
  <2>1. CASE d = c
    <3>1. "register" \in Cmd
      BY DEF Cmd
    <3>. QED BY <1>2, <2>1, <3>1, SettledTail DEF IInv, Typed
  <2>2. CASE d # c
    <3>1. toRouter'[d] = toRouter[d]
      BY <1>2, <2>2, ReadsFacts DEF IInv, Typed
    <3>. QED BY <1>8, <2>2, <3>1 DEF Settled
  <2>. QED BY <2>1, <2>2
<1>11. \A d \in Conn : \A i \in DOMAIN toWorker'[d] :
           \/ i \in DOMAIN toWorker[d] /\ toWorker'[d][i] = toWorker[d][i]
           \/ toWorker'[d][i].err = Mgt!OK => Entry(d)'
  BY <1>1, <1>4, <1>8, AnswerFacts DEF IInv, Typed
<1>12. \A d \in Conn : \A i \in DOMAIN toRouter'[d] :
           \E j \in DOMAIN toRouter[d] : toRouter'[d][i] = toRouter[d][j]
  BY <1>2, ReadsKeepLate DEF IInv, Typed
<1>. QED BY <1>2, <1>5, <1>7, <1>8, <1>9, <1>10, <1>11, <1>12, RouterStep

(* unregister: it comes from a process that claims nothing any more.       *)
LEMMA RecvUnregisterKeeps ==
  ASSUME IInv, NEW f \in Fd, NEW c \in Conn, RecvUnregister(f, c)
  PROVE  IInv'
<1>1. /\ Reads(f, c, "unregister") /\ Mgt!UnregisterWorker(f)
      /\ UNCHANGED <<procVars, ends, toWorker, routerVars>> /\ c = sock[f]
  BY DEF RecvUnregister, Reads
<1>2. sock' = sock /\ ends' = ends
  BY <1>1 DEF routerVars
<1>3. Typed'
  <2>1. Registry'
    BY <1>1, UnregisterKeeps DEF IInv, Typed, TypeOK, Registry
  <2>2. toRouter' \in [Conn -> Seq(Cmd)]
    BY <1>1, ReadsFacts DEF IInv, Typed
  <2>. QED BY <1>1, <2>1, <2>2
       DEF IInv, Typed, TypeOK, Registry, procVars, routerVars, Cmd
<1>4. /\ ~Entry(c)' /\ \A d \in Conn : d # c => Entry(d)' = Entry(d)
      /\ \A g \in DOMAIN fds' : /\ g \in DOMAIN fds /\ fds'[g] = fds[g]
  BY <1>1, <1>2, UnregisterEntries
<1>5. Descriptors'
  BY <1>2, <1>4 DEF IInv, Truth, Descriptors
<1>6. life[c[1]] \in Over
  <2>1. 1 \in DOMAIN toRouter[c] /\ toRouter[c][1] = "unregister"
    BY <1>1, ReadsFacts DEF IInv, Typed
  <2>2. Late(c)
    BY DEF IInv, Truth
  <2>. QED BY <2>1, <2>2 DEF Late
<1>7. \A d \in Conn : Settled(d) /\ ends'[d] = {"worker", "router"} => Settled(d)'
  <2>. SUFFICES ASSUME NEW d \in Conn, Settled(d) PROVE Settled(d)'
    OBVIOUS
  <2>1. CASE d = c
    <3>1. "unregister" \in Cmd
      BY DEF Cmd
    <3>. QED BY <1>1, <1>4, <2>1, <3>1, SettledTail DEF IInv, Typed
  <2>2. CASE d # c
    <3>1. toRouter'[d] = toRouter[d]
      BY <1>1, <2>2, ReadsFacts DEF IInv, Typed
    <3>. QED BY <1>4, <2>2, <3>1 DEF Settled
  <2>. QED BY <2>1, <2>2
<1>8. \A d \in Conn : \A i \in DOMAIN toRouter'[d] :
           \E j \in DOMAIN toRouter[d] : toRouter'[d][i] = toRouter[d][j]
  BY <1>1, ReadsKeepLate DEF IInv, Typed
<1>9. \A d \in Conn : Entry(d) /\ ~Entry(d)' => life[d[1]] \notin {"new", "up", "stopping"}
  BY <1>4, <1>6 DEF Over
<1>. QED BY <1>1, <1>2, <1>3, <1>5, <1>7, <1>8, <1>9, RouterStep

(* A heartbeat read, or a register whose sender cannot be asked for its    *)
(* address, changes nothing but the wire.                                  *)
LEMMA ReadOnlyKeeps ==
  ASSUME IInv, NEW f \in Fd, NEW c \in Conn, NEW cmd \in {"hb", "null", "register"},
         Reads(f, c, cmd), UNCHANGED <<procVars, ends, toWorker, routerVars, mgtVars>>
  PROVE  IInv'
<1>1. Reads(f, c, cmd)
  OBVIOUS
<1>2. UNCHANGED <<procVars, ends, toWorker, routerVars, mgtVars>>
  OBVIOUS
<1>3. sock' = sock /\ fds' = fds /\ ends' = ends /\ toWorker' = toWorker
  BY <1>2 DEF routerVars, mgtVars
<1>4. Typed'
  <2>1. Registry'
    BY <1>2, RegistryFrame DEF IInv, Typed, TypeOK, Registry
  <2>2. toRouter' \in [Conn -> Seq(Cmd)]
    BY <1>1, ReadsFacts DEF IInv, Typed
  <2>. QED BY <1>2, <2>1, <2>2
       DEF IInv, Typed, TypeOK, Registry, procVars, routerVars, Cmd
<1>5. Descriptors' /\ \A d \in Conn : Entry(d)' = Entry(d)
  BY <1>3, EntryFrame DEF IInv, Typed, TypeOK, Truth
<1>6. \A d \in Conn : Settled(d) /\ ends'[d] = {"worker", "router"} => Settled(d)'
  <2>. SUFFICES ASSUME NEW d \in Conn, Settled(d) PROVE Settled(d)'
    OBVIOUS
  <2>1. CASE d = c
    <3>1. cmd \in Cmd /\ cmd # "unregister"
      BY DEF Cmd
    <3>2. Settled(c) /\ (Entry(c)' => Entry(c))
      BY <1>5, <2>1
    <3>3. Settled(c)'
      BY <1>1, <3>1, <3>2, SettledTail DEF IInv, Typed
    <3>. QED BY <2>1, <3>3
  <2>2. CASE d # c
    <3>1. toRouter'[d] = toRouter[d]
      BY <1>1, <2>2, ReadsFacts DEF IInv, Typed
    <3>. QED BY <1>5, <2>2, <3>1 DEF Settled
  <2>. QED BY <2>1, <2>2
<1>7. \A d \in Conn : \A i \in DOMAIN toRouter'[d] :
           \E j \in DOMAIN toRouter[d] : toRouter'[d][i] = toRouter[d][j]
  BY <1>1, ReadsKeepLate DEF IInv, Typed
<1>. QED BY <1>2, <1>3, <1>4, <1>5, <1>6, <1>7, RouterStep

LEMMA RecvRegisterKeeps ==
  ASSUME IInv, NEW f \in Fd, NEW c \in Conn, RecvRegister(f, c)
  PROVE  IInv'
<1>1. CASE \E ret \in {Mgt!OK, Mgt!ERR_WORKER_REGISTERED, Mgt!ERR_FD_EXISTS} :
             Mgt!RegisterWorker(WorkerOf(c, f), ret) /\ Answer(c, ret)
  BY <1>1, RegisterAnsweredKeeps
<1>2. CASE UNCHANGED <<toWorker, mgtVars>>
  BY <1>2, ReadOnlyKeeps DEF RecvRegister
<1>. QED BY <1>1, <1>2 DEF RecvRegister

LEMMA RecvOtherKeeps ==
  ASSUME IInv, NEW f \in Fd, NEW c \in Conn, RecvOther(f, c)
  PROVE  IInv'
BY ReadOnlyKeeps DEF RecvOther

(* The router closes a connection whose worker's end is closed already.    *)
LEMMA HangupKeeps ==
  ASSUME IInv, NEW f \in Fd, NEW c \in Conn, Hangup(f, c)
  PROVE  IInv'
<1>1. /\ c = sock[f] /\ "worker" \notin ends[c] /\ Mgt!UnregisterWorker(f)
      /\ sock' = [sock EXCEPT ![f] = None]
      /\ ends' = [ends EXCEPT ![c] = @ \ {"router"}]
      /\ UNCHANGED <<procVars, toRouter, toWorker, running, crashes>>
  BY DEF Hangup
<1>2. /\ sock \in [Fd -> Conn \cup {None}]
      /\ ends \in [Conn -> SUBSET {"worker", "router"}]
  BY DEF IInv, Typed, TypeOK
<1>3. /\ sock'[f] = None /\ \A g \in Fd : g # f => sock'[g] = sock[g]
      /\ ends'[c] = ends[c] \ {"router"} /\ \A d \in Conn : d # c => ends'[d] = ends[d]
      /\ sock' \in [Fd -> Conn \cup {None}]
      /\ ends' \in [Conn -> SUBSET {"worker", "router"}]
  BY <1>1, <1>2
<1>4. Typed'
  <2>1. Registry'
    BY <1>1, UnregisterKeeps DEF IInv, Typed, TypeOK, Registry
  <2>. QED BY <1>1, <1>3, <2>1 DEF IInv, Typed, TypeOK, Registry, procVars
<1>5. /\ ~Entry(c)' /\ \A d \in Conn : d # c => Entry(d)' = Entry(d)
      /\ \A g \in DOMAIN fds' : /\ g \in DOMAIN fds /\ g # f
                                /\ fds'[g] = fds[g] /\ sock'[g] = sock[g]
  BY <1>1, <1>3, UnregisterEntries
<1>6. Descriptors'
  <2>1. \A g \in DOMAIN fds' : sock'[g] = fds'[g].conn
    BY <1>5 DEF IInv, Truth, Descriptors
  <2>2. \A g \in Fd : sock'[g] # None => g # f /\ sock'[g] = sock[g] /\ sock[g] # c
    <3>1. c # None
      BY RegistrationAssumption
    <3>. QED BY <1>1, <1>3, <3>1 DEF IInv, Truth, Descriptors
  <2>3. \A g \in Fd : sock'[g] # None => "router" \in ends'[sock'[g]]
    <3>. SUFFICES ASSUME NEW g \in Fd, sock'[g] # None
                  PROVE  "router" \in ends'[sock'[g]]
      OBVIOUS
    <3>1. sock'[g] = sock[g] /\ sock[g] \in Conn /\ sock[g] # c
      BY <1>2, <2>2
    <3>2. "router" \in ends[sock[g]]
      BY <3>1, <2>2 DEF IInv, Truth, Descriptors
    <3>. QED BY <1>3, <3>1, <3>2
  <2>4. \A g, h \in Fd : sock'[g] = sock'[h] /\ sock'[g] # None => g = h
    BY <2>2 DEF IInv, Truth, Descriptors
  <2>. QED BY <2>1, <2>3, <2>4 DEF Descriptors
<1>7. \A d \in Conn : Settled(d) /\ ends'[d] = {"worker", "router"} => Settled(d)'
  <2>. SUFFICES ASSUME NEW d \in Conn, Settled(d), ends'[d] = {"worker", "router"}
                PROVE  Settled(d)'
    OBVIOUS
  <2>1. d # c
    BY <1>3
  <2>. QED BY <1>1, <1>5, <2>1 DEF Settled
<1>8. /\ \A d \in Conn : ends'[d] \subseteq ends[d]
      /\ \A d \in Conn : Entry(d) /\ ~Entry(d)' => "router" \notin ends'[d]
  BY <1>3, <1>5
<1>. QED BY <1>1, <1>4, <1>6, <1>7, <1>8, RouterStep

(* An empty registry is in order.                                          *)
LEMMA EmptyRegistry ==
  /\ Mgt!Init => Registry
  /\ fds' = << >> /\ workers' = {} /\ groups' = << >> => Registry'
<1>1. /\ DOMAIN << >> = {}
      /\ \A S : << >> \in [{} -> S]
  OBVIOUS
<1>2. Mgt!Init => Registry
  BY <1>1 DEF Mgt!Init, Registry, Mgt!TypeOK, Mgt!Consistent, Mgt!IdentityUnique,
     Mgt!IdsAreTheRegistered, Mgt!EveryWorkerIsReachable, Mgt!GroupsHoldTheRegistered,
     Mgt!NoEmptyGroup
<1>3. fds' = << >> /\ workers' = {} /\ groups' = << >> => Registry'
  BY <1>1 DEF Registry, Mgt!TypeOK, Mgt!Consistent, Mgt!IdentityUnique,
     Mgt!IdsAreTheRegistered, Mgt!EveryWorkerIsReachable, Mgt!GroupsHoldTheRegistered,
     Mgt!NoEmptyGroup
<1>. QED BY <1>2, <1>3

(* With the router all connections break, and nothing is claimed of them.  *)
LEMMA RouterCrashKeeps ==
  ASSUME IInv, RouterCrash
  PROVE  IInv'
<1>1. /\ fds' = << >> /\ workers' = {} /\ groups' = << >>
      /\ running' = FALSE /\ crashes < RouterCrashes /\ crashes' = crashes + 1
      /\ sock' = [f \in Fd |-> None]
      /\ ends' = [c \in Conn |-> ends[c] \ {"router"}]
      /\ toRouter' = [c \in Conn |-> << >>]
      /\ UNCHANGED toWorker \/ toWorker' = [c \in Conn |-> << >>]
      /\ UNCHANGED procVars
  BY DEF RouterCrash
<1>2. /\ << >> \in Seq(Cmd) /\ << >> \in Seq(Ans) /\ DOMAIN << >> = {}
      /\ DOMAIN fds' = {}
  BY <1>1
<1>3. Typed'
  <2>1. Registry'
    BY <1>1, EmptyRegistry
  <2>2. crashes' \in 0 .. RouterCrashes
    BY <1>1, RegistrationAssumption DEF IInv, Typed, TypeOK
  <2>3. toRouter' \in [Conn -> Seq(Cmd)] /\ toWorker' \in [Conn -> Seq(Ans)]
    BY <1>1, <1>2 DEF IInv, Typed, TypeOK, Ans
  <2>4. ends' \in [Conn -> SUBSET {"worker", "router"}]
    BY <1>1 DEF IInv, Typed, TypeOK
  <2>5. life' = life /\ link' = link /\ registered' = registered /\ leftover' = leftover
        /\ begun' = begun
    BY <1>1 DEF procVars
  <2>. QED BY <1>1, <2>1, <2>2, <2>3, <2>4, <2>5 DEF IInv, Typed, TypeOK, Registry, Cmd, Ans
<1>4. Descriptors'
  BY <1>1, <1>2 DEF Descriptors
<1>5. \A d \in Conn :
        /\ ends'[d] \subseteq ends[d] /\ "router" \notin ends'[d]
        /\ DOMAIN toRouter'[d] = {}
        /\ (toWorker'[d] = toWorker[d]) \/ (DOMAIN toWorker'[d] = {})
  BY <1>1, <1>2
<1>. QED BY <1>1, <1>3, <1>4, <1>5, RouterStep

(* The router comes back to what its end left.                             *)
LEMMA RouterStartKeeps ==
  ASSUME IInv, RouterStart
  PROVE  IInv'
<1>1. UNCHANGED <<procVars, wireVars, crashes, sock, mgtVars>> /\ running' = TRUE
  BY DEF RouterStart
<1>2. Typed'
  <2>1. Registry'
    BY <1>1, RegistryFrame DEF IInv, Typed, TypeOK, Registry
  <2>. QED BY <1>1, <2>1 DEF IInv, Typed, TypeOK, Registry, procVars, wireVars
<1>3. ends' = ends /\ toRouter' = toRouter /\ toWorker' = toWorker /\ fds' = fds
  BY <1>1 DEF wireVars, mgtVars
<1>4. Descriptors' /\ \A d \in Conn : Entry(d)' = Entry(d)
  BY <1>1, <1>3, EntryFrame DEF IInv, Typed, TypeOK, Truth
<1>5. \A d \in Conn : Settled(d) => Settled(d)'
  BY <1>3, <1>4 DEF Settled
<1>. QED BY <1>1, <1>2, <1>3, <1>4, <1>5, RouterStep

-----------------------------------------------------------------------------
(* The theorems.                                                           *)

(* Nobody has started, nothing is claimed.                                 *)
LEMMA InitIInv == Init => IInv
<1>. SUFFICES ASSUME Init PROVE IInv
  OBVIOUS
<1>1. << >> \in Seq(Cmd) /\ << >> \in Seq(Ans) /\ DOMAIN << >> = {}
  OBVIOUS
<1>2. Typed
  <2>1. Registry
    BY EmptyRegistry DEF Init
  <2>2. toRouter \in [Conn -> Seq(Cmd)] /\ toWorker \in [Conn -> Seq(Ans)]
    BY <1>1 DEF Init
  <2>. QED BY <2>1, <2>2, RegistrationAssumption
       DEF Init, Typed, TypeOK, Registry, Cmd, Ans
<1>3. Descriptors
  BY <1>1 DEF Init, Mgt!Init, Descriptors
<1>4. \A l \in Life : AnswerTrue(l) /\ FlagTrue(l) /\ Drains(l) /\ CutLate(l)
  BY DEF Init, AnswerTrue, FlagTrue, Drains, CutLate, Over
<1>5. \A c \in Conn : Late(c)
  BY <1>1 DEF Init, Late
<1>. QED BY <1>2, <1>3, <1>4, <1>5 DEF IInv, Truth

(* Every step of a worker process keeps the invariant.                     *)
LEMMA ProcessKeeps ==
  ASSUME IInv, NEW l \in Life,
         \/ Start(l) \/ Check(l) \/ Terminate(l) \/ Unregister(l)
         \/ Exit(l) \/ Crash(l) \/ ClientInput(l) \/ ClientEof(l) \/ ClientError(l)
  PROVE  IInv'
<1>1. /\ life \in [Life -> LifeState] /\ begun \in [Life -> Begun]
      /\ registered \in [Life -> BOOLEAN] /\ leftover \in [Life -> BOOLEAN]
      /\ link \in [Life -> 0 .. MaxConn] /\ CutLate(l)
  BY DEF IInv, Typed, TypeOK, Truth, LifeState, Begun
<1>2. CASE Start(l)
  BY <1>2, ConnectKeeps DEF Start
<1>3. CASE Check(l)
  <2>1. life[l] = "up" /\ UNCHANGED life
    BY <1>3 DEF Check, TimerRuns
  <2>2. CASE IsClosed(l) /\ Connect(l)
    <3>1. life' = [life EXCEPT ![l] = "up"]
      BY <1>1, <2>1
    <3>. QED BY <2>1, <2>2, <3>1, ConnectKeeps
  <2>3. ASSUME ~IsClosed(l), SendLine(l, IF registered[l] THEN "hb" ELSE "register"),
               UNCHANGED <<link, registered, leftover, ends, toWorker, routerVars, mgtVars>>
        PROVE  IInv'
    <3>1. PICK cmd \in {"hb", "register"} : SendLine(l, cmd)
      BY <2>3
    <3>. DEFINE line == IF begun[l] = "none" THEN cmd ELSE begun[l]
    <3>2. link[l] > 0 /\ line \in Cmd \ {"unregister"}
      BY <1>1, <2>1, <2>3 DEF IsClosed, Cmd, Begun, CutLate
    <3>3. Put(Present(l), line) /\ begun' = [begun EXCEPT ![l] = "none"]
      BY <3>1 DEF SendLine
    <3>4. /\ begun' \in [Life -> Begun] /\ CutLate(l)'
          /\ \A m \in Life : m # l => life'[m] = life[m] /\ begun'[m] = begun[m]
      BY <1>1, <2>1, <3>3 DEF Begun, CutLate
    <3>5. UNCHANGED <<link, registered, leftover, ends, toWorker, routerVars, mgtVars>>
      BY <2>3
    <3>6. life[l] # "unregistered" /\ life' = life
      BY <2>1
    <3>. HIDE DEF line
    <3>. QED BY <1>1, <3>2, <3>3, <3>4, <3>5, <3>6, PutKeeps
  <2>4. CASE ~IsClosed(l) /\ Close(l)
    <3>1. link[l] > 0
      BY <2>4 DEF IsClosed
    <3>. QED BY <1>1, <2>1, <2>4, <3>1, CloseKeeps DEF Close
  <2>. QED BY <1>3, <2>2, <2>3, <2>4 DEF Check
<1>4. CASE Terminate(l)
  <2>1. life'[l] = "stopping" /\ life[l] = "up" /\ life' \in [Life -> LifeState]
    BY <1>1, <1>4 DEF Terminate, LifeState
  <2>2. begun' = begun /\ CutLate(l)'
    BY <1>1, <1>4, <2>1 DEF Terminate, CutLate
  <2>. QED BY <1>1, <1>4, <2>1, <2>2, MoveKeeps DEF Terminate
<1>5. CASE Unregister(l)
  BY <1>5, UnregisterStepKeeps
<1>6. CASE Exit(l) \/ Crash(l)
  <2>1. /\ life' = [life EXCEPT ![l] = "exited"]
        /\ registered' = [registered EXCEPT ![l] = FALSE]
        /\ leftover' = [leftover EXCEPT ![l] = FALSE]
        /\ UNCHANGED <<link, routerVars, mgtVars>>
    BY <1>6 DEF Exit, Crash, Leave
  <2>2. life' \in [Life -> LifeState] /\ life'[l] = "exited" /\ CutLate(l)'
    BY <1>1, <2>1 DEF LifeState, CutLate
  <2>3. CASE IsClosed(l)
    <3>1. UNCHANGED <<wireVars, begun>>
      BY <1>6, <2>3 DEF Exit, Crash, Leave
    <3>. QED BY <1>1, <2>1, <2>2, <2>3, <3>1, MoveKeeps
  <2>4. CASE ~IsClosed(l)
    <3>1. link[l] > 0 /\ CloseEnd(Present(l), 0)
      BY <1>6, <2>4 DEF Exit, Crash, Leave, IsClosed
    <3>. QED BY <1>1, <2>1, <2>2, <3>1, CloseKeeps
  <2>. QED BY <2>3, <2>4
<1>7. CASE ClientInput(l)
  BY <1>7, ClientInputKeeps
<1>8. CASE ClientEof(l) \/ ClientError(l)
  <2>1. HandleClose(l)
    BY <1>8 DEF ClientEof, ClientError
  <2>2. link[l] > 0 /\ CloseEnd(Present(l), 0)
    BY <2>1 DEF HandleClose, IsClosed
  <2>. QED BY <1>1, <2>1, <2>2, CloseKeeps DEF HandleClose
<1>. QED BY <1>2, <1>3, <1>4, <1>5, <1>6, <1>7, <1>8

(* Every step keeps the invariant.                                         *)
LEMMA NextIInv == IInv /\ [Next]_vars => IInv'
<1>. SUFFICES ASSUME IInv, [Next]_vars PROVE IInv'
  OBVIOUS
<1>1. ASSUME NEW l \in Life,
             \/ Start(l) \/ Check(l) \/ Terminate(l) \/ Unregister(l)
             \/ Exit(l) \/ Crash(l) \/ ClientInput(l) \/ ClientEof(l) \/ ClientError(l)
      PROVE  IInv'
  BY <1>1, ProcessKeeps
<1>2. CASE \E f \in Fd, c \in Conn : Accept(f, c)
  BY <1>2, AcceptKeeps
<1>3. CASE \E f \in Fd : Reactor(f)
  BY <1>3, RecvRegisterKeeps, RecvUnregisterKeeps, RecvOtherKeeps, HangupKeeps DEF Reactor
<1>4. CASE RouterCrash \/ RouterStart
  BY <1>4, RouterCrashKeeps, RouterStartKeeps
<1>5. CASE UNCHANGED vars
  <2>1. UNCHANGED <<procVars, wireVars, running, crashes, sock, mgtVars>>
    BY <1>5 DEF vars, routerVars
  <2>2. Typed'
    <3>1. Registry'
      BY <2>1, RegistryFrame DEF IInv, Typed, TypeOK, Registry
    <3>. QED BY <2>1, <3>1 DEF IInv, Typed, TypeOK, Registry, procVars, wireVars
  <2>3. ends' = ends /\ toRouter' = toRouter /\ toWorker' = toWorker /\ fds' = fds
    BY <2>1 DEF wireVars, mgtVars
  <2>4. Descriptors' /\ \A d \in Conn : Entry(d)' = Entry(d)
    BY <2>1, <2>3, EntryFrame DEF IInv, Typed, TypeOK, Truth
  <2>5. \A d \in Conn : Settled(d) => Settled(d)'
    BY <2>3, <2>4 DEF Settled
  <2>. QED BY <2>1, <2>2, <2>3, <2>4, <2>5, RouterStep
<1>. QED BY <1>1, <1>2, <1>3, <1>4, <1>5 DEF Next

(* It always holds.                                                        *)
LEMMA AlwaysIInv == Spec => []IInv
BY InitIInv, NextIInv, PTL DEF Spec

(* All variables keep their types and the registry its agreement, with     *)
(* processes and routers dying at any moment.                              *)
THEOREM RegistrationTyped == Spec => [](TypeOK /\ Mgt!Consistent)
<1>1. IInv => TypeOK /\ Mgt!Consistent
  BY DEF IInv, Typed
<1>. QED BY <1>1, AlwaysIInv, PTL

(* A worker that takes itself for registered is registered, on the         *)
(* connection it has, as long as that connection is whole.                 *)
THEOREM FlagsAreTrue == Spec => []FlagMeansEntry
<1>1. IInv => FlagMeansEntry
  BY DEF IInv, Truth, FlagTrue, FlagMeansEntry
<1>. QED BY <1>1, AlwaysIInv, PTL

(* The unregister of a worker on its way out is final.                     *)
THEOREM UnregisterIsFinal == Spec => []DrainedIsGone
<1>1. IInv => DrainedIsGone
  BY DrainsMeansGone DEF IInv, Truth
<1>. QED BY <1>1, AlwaysIInv, PTL
=============================================================================
