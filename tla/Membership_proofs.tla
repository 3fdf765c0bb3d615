-------------------------- MODULE Membership_proofs --------------------------
(***************************************************************************)
(* The worker's timer and threads, the two wires, the crashes and the      *)
(* router's reactor together implement Membership: each step joins one     *)
(* worker under a free id, lets some leave, or is not seen there.          *)
(***************************************************************************)
EXTENDS Registration_proofs

(* A register that the router may still read.                              *)
Wants(c) == \E i \in DOMAIN toRouter[c] : toRouter[c][i] = "register"

Members  == {l \in Life : Registered(l)}
Departed == {l \in Life : Gone(l)}

-----------------------------------------------------------------------------
(* Helpers.                                                                *)

(* Gone, in terms of connections.                                          *)
LEMMA GoneMeans ==
  ASSUME NEW l \in Life
  PROVE  /\ Gone(l) <=> /\ life[l] \in Over /\ ~Registered(l)
                        /\ \A c \in Conn : c[1] = l => ~Wants(c)
         /\ Gone(l)' <=> /\ life'[l] \in Over /\ ~Registered(l)'
                         /\ \A c \in Conn : c[1] = l => ~Wants(c)'
<1>1. /\ \A n \in 1 .. MaxConn : <<l, n>> \in Conn /\ <<l, n>>[1] = l
      /\ \A c \in Conn : c[1] = l => \E n \in 1 .. MaxConn : c = <<l, n>>
  BY DEF Conn
<1>2. \A c \in Conn : /\ "register" \in Range(toRouter[c]) <=> Wants(c)
                      /\ "register" \in Range(toRouter'[c]) <=> Wants(c)'
  BY DEF Range, Wants
<1>3. Gone(l) <=> /\ life[l] \in Over /\ ~Registered(l)
                  /\ \A c \in Conn : c[1] = l => ~Wants(c)
  BY <1>1, <1>2 DEF Gone, Over
<1>4. Gone(l)' <=> /\ life'[l] \in Over /\ ~Registered(l)'
                   /\ \A c \in Conn : c[1] = l => ~Wants(c)'
  BY <1>1, <1>2 DEF Gone, Over
<1>. QED BY <1>3, <1>4

(* Nobody joins, nobody comes back to life, and who is over wants nothing  *)
(* anew.                                                                   *)
LEMMA LeaveStep ==
  ASSUME \A l \in Life : Registered(l)' => Registered(l),
         \A l \in Life : life[l] \in Over => life'[l] \in Over,
         \A c \in Conn : life[c[1]] \in Over /\ Wants(c)' => Wants(c)
  PROVE  M!Next
<1>1. \A l \in Life : Gone(l) => Gone(l)'
  BY GoneMeans
<1>2. \A l \in Life : Gone(l)' => ~Registered(l)'
  BY GoneMeans
<1>. QED BY <1>1, <1>2 DEF M!Next, M!Leave

(* Nothing happens to the registry, and only the wires from the living     *)
(* gain anything.                                                          *)
LEMMA ProcessStep ==
  ASSUME UNCHANGED fds, NEW l \in Life,
         \A m \in Life : m # l => life'[m] = life[m],
         life[l] \in Over => life'[l] \in Over,
         \A c \in Conn : c[1] = l /\ life[l] \in Over /\ Wants(c)' => Wants(c),
         \A c \in Conn : c[1] # l => toRouter'[c] = toRouter[c]
  PROVE  M!Next
<1>1. \A m \in Life : Registered(m)' => Registered(m)
  BY DEF Registered
<1>2. \A c \in Conn : life[c[1]] \in Over /\ Wants(c)' => Wants(c)
  BY DEF Wants
<1>3. \A m \in Life : life[m] \in Over => life'[m] \in Over
  OBVIOUS
<1>. QED BY <1>1, <1>2, <1>3, LeaveStep

-----------------------------------------------------------------------------
(* The steps of a worker.                                                  *)

LEMMA WiresAlone ==
  ASSUME UNCHANGED toRouter
  PROVE  \A c \in Conn : Wants(c)' => Wants(c)
BY DEF Wants

LEMMA WireCut ==
  ASSUME TypeOK, NEW c \in Conn, NEW keep, CloseEnd(c, keep)
  PROVE  /\ \A d \in Conn : Wants(d)' => Wants(d)
         /\ \A d \in Conn : d # c => toRouter'[d] = toRouter[d]
<1>1. /\ \A d \in Conn : d # c => toRouter'[d] = toRouter[d]
      /\ \A i \in DOMAIN toRouter'[c] :
           i \in DOMAIN toRouter[c] /\ toRouter'[c][i] = toRouter[c][i]
  BY CloseEndFacts
<1>. QED BY <1>1 DEF Wants

LEMMA WirePut ==
  ASSUME TypeOK, NEW c \in Conn, NEW cmd \in Cmd \ {"register"}, Put(c, cmd)
  PROVE  /\ \A d \in Conn : Wants(d)' => Wants(d)
         /\ \A d \in Conn : d # c => toRouter'[d] = toRouter[d]
<1>1. /\ \A d \in Conn : d # c => toRouter'[d] = toRouter[d]
      /\ \A i \in DOMAIN toRouter[c] :
           i \in DOMAIN toRouter'[c] /\ toRouter'[c][i] = toRouter[c][i]
      /\ \A i \in DOMAIN toRouter'[c] : i \in DOMAIN toRouter[c] \/ toRouter'[c][i] = cmd
  BY PutFacts
<1>. QED BY <1>1 DEF Wants

(* A worker registers while it is up, and it is up once.                   *)
LEMMA WorkerSteps ==
  ASSUME IInv, NEW l \in Life,
         \/ Start(l) \/ Check(l) \/ Terminate(l) \/ Unregister(l)
         \/ Exit(l) \/ Crash(l) \/ ClientInput(l) \/ ClientEof(l) \/ ClientError(l)
  PROVE  M!Next
<1>1. /\ TypeOK /\ life \in [Life -> LifeState]
      /\ "up" \notin Over /\ "new" \notin Over /\ "stopping" \notin Over
      /\ begun \in [Life -> Begun]
  BY DEF IInv, Typed, TypeOK, LifeState, Begun, Over
<1>2. UNCHANGED fds
  BY DEF Start, Check, Terminate, Unregister, Exit, Crash, Leave, ClientInput, ClientEof,
         ClientError, HandleClose, Connect, Close, mgtVars
<1>3. link[l] > 0 => Present(l) \in Conn /\ Present(l)[1] = l
  BY <1>1, PresentFacts
<1>4. /\ \A m \in Life : m # l => life'[m] = life[m]
      /\ life[l] \in Over => life'[l] \in Over
  <2>1. CASE Start(l) \/ Terminate(l) \/ Unregister(l)
    BY <1>1, <2>1 DEF Start, Terminate, Unregister, Over
  <2>2. CASE Exit(l) \/ Crash(l)
    BY <1>1, <2>2 DEF Exit, Crash, Leave, Over
  <2>3. CASE Check(l) \/ ClientInput(l) \/ ClientEof(l) \/ ClientError(l)
    BY <2>3 DEF Check, ClientInput, ClientEof, ClientError, HandleClose
  <2>. QED BY <2>1, <2>2, <2>3
<1>5. ASSUME \A c \in Conn : c[1] = l /\ life[l] \in Over /\ Wants(c)' => Wants(c),
             \A c \in Conn : c[1] # l => toRouter'[c] = toRouter[c]
      PROVE  M!Next
  BY <1>2, <1>4, <1>5, ProcessStep
<1>6. CASE UNCHANGED toRouter
  BY <1>5, <1>6, WiresAlone
<1>7. ASSUME link[l] > 0, NEW keep, CloseEnd(Present(l), keep) PROVE M!Next
  BY <1>1, <1>3, <1>5, <1>7, WireCut
<1>8. ASSUME link[l] > 0, NEW cmd \in Cmd \ {"register"},
             SendLine(l, cmd) \/ Ignored(l, cmd)
      PROVE  M!Next
  <2>1. CASE Ignored(l, cmd)
    BY <1>6, <2>1 DEF Ignored
  <2>2. CASE SendLine(l, cmd)
    <3>. DEFINE line == IF begun[l] = "none" THEN cmd ELSE begun[l]
    <3>1. line \in Cmd \ {"register"} /\ Put(Present(l), line)
      BY <1>1, <2>2, <1>8 DEF SendLine, Begun, Cmd
    <3>. HIDE DEF line
    <3>. QED BY <1>1, <1>3, <1>5, <1>8, <3>1, WirePut
  <2>. QED BY <1>8, <2>1, <2>2
<1>9. CASE Start(l) \/ Terminate(l)
  BY <1>6, <1>9 DEF Start, Connect, Terminate, wireVars
<1>10. CASE Check(l)
  <2>1. life[l] \notin Over
    BY <1>1, <1>10 DEF Check, TimerRuns
  <2>2. CASE IsClosed(l) /\ Connect(l)
    BY <1>6, <2>2 DEF Connect
  <2>3. ASSUME ~IsClosed(l), SendLine(l, IF registered[l] THEN "hb" ELSE "register")
        PROVE  M!Next
    <3>1. link[l] > 0 /\ \E line \in Cmd : Put(Present(l), line)
      BY <1>1, <2>3 DEF IsClosed, SendLine, Begun, Cmd
    <3>2. \A d \in Conn : d # Present(l) => toRouter'[d] = toRouter[d]
      BY <1>1, <1>3, <2>3, <3>1, PutFacts
    <3>. QED BY <1>3, <1>5, <2>1, <3>1, <3>2
  <2>4. CASE ~IsClosed(l) /\ Close(l)
    BY <1>7, <2>4 DEF Close, IsClosed
  <2>. QED BY <1>10, <2>2, <2>3, <2>4 DEF Check
<1>11. CASE Unregister(l)
  <2>1. "unregister" \in Cmd \ {"register"}
    BY DEF Cmd
  <2>. QED BY <1>6, <1>8, <1>11, <2>1 DEF Unregister, IsClosed
<1>12. CASE Exit(l) \/ Crash(l)
  BY <1>6, <1>7, <1>12 DEF Exit, Crash, Leave, wireVars, IsClosed
<1>13. CASE ClientInput(l)
  <2>1. "null" \in Cmd \ {"register"}
    BY DEF Cmd
  <2>. QED BY <1>6, <1>8, <1>13, <2>1 DEF ClientInput
<1>14. CASE ClientEof(l) \/ ClientError(l)
  BY <1>7, <1>14 DEF ClientEof, ClientError, HandleClose, IsClosed
<1>. QED BY <1>9, <1>10, <1>11, <1>12, <1>13, <1>14

-----------------------------------------------------------------------------
(* The steps of the router.                                                *)

(* A command is read: none is added.                                       *)
LEMMA WireRead ==
  ASSUME TypeOK, NEW f, NEW c \in Conn, NEW cmd, Reads(f, c, cmd)
  PROVE  \A d \in Conn : Wants(d)' => Wants(d)
BY ReadsKeepLate DEF Wants

(* The reactor lets nobody in but by register.                             *)
LEMMA RouterLeaves ==
  ASSUME UNCHANGED life, \A d \in Conn : Wants(d)' => Wants(d),
         \A g \in DOMAIN fds' : g \in DOMAIN fds /\ fds'[g] = fds[g]
  PROVE  M!Next
<1>1. \A l \in Life : Registered(l)' => Registered(l)
  BY DEF Registered
<1>. QED BY <1>1, LeaveStep

LEMMA UnregisterOnly ==
  ASSUME NEW f, Mgt!UnregisterWorker(f)
  PROVE  \A g \in DOMAIN fds' : g \in DOMAIN fds /\ fds'[g] = fds[g]
BY DEF Mgt!UnregisterWorker, Mgt!Erase, Mgt!vars

(* Who is accepted was neither in the registry nor gone, and nobody there  *)
(* has its id.                                                             *)
LEMMA RegisterJoins ==
  ASSUME IInv, NEW f \in Fd, NEW c \in Conn, Reads(f, c, "register"),
         UNCHANGED <<life>>, Mgt!RegisterWorker(WorkerOf(c, f), Mgt!OK)
  PROVE  M!Join(c[1])
<1>. DEFINE w == WorkerOf(c, f)
<1>1. w.id = IdOf[c[1]] /\ w.fd = f /\ w.conn = c /\ c[1] \in Life
  BY DEF WorkerOf, Conn
<1>2. /\ w.id \notin workers /\ f \notin DOMAIN fds
      /\ DOMAIN fds' = DOMAIN fds \cup {f} /\ fds'[f] = w
      /\ \A g \in DOMAIN fds : fds'[g] = fds[g]
  BY <1>1 DEF Mgt!RegisterWorker, Mgt!Refusal, Mgt!Insert, Mgt!OK,
     Mgt!ERR_WORKER_REGISTERED, Mgt!ERR_FD_EXISTS
<1>. HIDE DEF w
<1>3. \A g \in DOMAIN fds : fds[g].id = IdOf[fds[g].conn[1]] /\ fds[g].conn[1] \in Life
  <2>1. \A g \in DOMAIN fds : fds[g] \in Worker
    BY DEF IInv, Typed, TypeOK, Mgt!TypeOK
  <2>2. \A v \in Worker : v.id = IdOf[v.conn[1]] /\ v.conn[1] \in Life
    BY DEF Worker, WorkerOf, Conn
  <2>. QED BY <2>1, <2>2
<1>4. \A g \in DOMAIN fds : IdOf[fds[g].conn[1]] # IdOf[c[1]]
  BY <1>1, <1>2, <1>3 DEF IInv, Typed, Mgt!Consistent, Mgt!IdsAreTheRegistered
<1>5. \A m \in Life : Registered(m)' <=> Registered(m) \/ m = c[1]
  <2>1. \A m \in Life : Registered(m) => Registered(m)'
    BY <1>2 DEF Registered
  <2>2. Registered(c[1])'
    BY <1>1, <1>2 DEF Registered
  <2>3. \A m \in Life : Registered(m)' => Registered(m) \/ m = c[1]
    BY <1>1, <1>2 DEF Registered
  <2>. QED BY <2>1, <2>2, <2>3
<1>6. \A m \in Life : Registered(m) => IdOf[m] # IdOf[c[1]]
  BY <1>4 DEF Registered
<1>7. /\ Wants(c)
      /\ \A d \in Conn : d # c => (Wants(d)' <=> Wants(d))
  <2>1. /\ \A d \in Conn : d # c => toRouter'[d] = toRouter[d]
        /\ 1 \in DOMAIN toRouter[c] /\ toRouter[c][1] = "register"
    <3>1. TypeOK
      BY DEF IInv, Typed
    <3>. QED BY <3>1, ReadsFacts
  <2>. QED BY <2>1 DEF Wants
<1>8. ~Gone(c[1]) /\ ~Gone(c[1])'
  BY <1>1, <1>5, <1>7, GoneMeans
<1>9. \A m \in Life : m # c[1] => (Gone(m)' <=> Gone(m))
  BY <1>5, <1>7, GoneMeans
<1>10. \A m \in Life : Gone(m)' <=> Gone(m)
  BY <1>8, <1>9
<1>. QED BY <1>1, <1>5, <1>6, <1>8, <1>10 DEF M!Join

LEMMA RegisterStep ==
  ASSUME IInv, NEW f \in Fd, NEW c \in Conn, RecvRegister(f, c)
  PROVE  M!Next
<1>1. Reads(f, c, "register") /\ UNCHANGED life /\ TypeOK
  BY DEF RecvRegister, procVars, IInv, Typed
<1>2. CASE Mgt!RegisterWorker(WorkerOf(c, f), Mgt!OK)
  <2>1. M!Join(c[1]) /\ c[1] \in Life
    BY <1>1, <1>2, RegisterJoins DEF Conn
  <2>. QED BY <2>1 DEF M!Next
<1>3. CASE UNCHANGED fds
  BY <1>1, <1>3, WireRead, RouterLeaves
<1>4. Mgt!RegisterWorker(WorkerOf(c, f), Mgt!OK) \/ UNCHANGED fds
  <2>1. ASSUME NEW ret, ret # Mgt!OK, Mgt!RegisterWorker(WorkerOf(c, f), ret)
        PROVE  UNCHANGED fds
    BY <2>1 DEF Mgt!RegisterWorker, Mgt!vars
  <2>. QED BY <2>1 DEF RecvRegister, mgtVars
<1>. QED BY <1>2, <1>3, <1>4

LEMMA RouterSteps ==
  ASSUME IInv,
         \/ \E f \in Fd, c \in Conn : Accept(f, c)
         \/ \E f \in Fd : Reactor(f)
         \/ RouterCrash \/ RouterStart
  PROVE  M!Next
<1>1. TypeOK
  BY DEF IInv, Typed
<1>2. CASE RouterStart \/ \E f \in Fd, c \in Conn : Accept(f, c)
  <2>1. UNCHANGED <<life, toRouter, fds>>
    BY <1>2 DEF RouterStart, Accept, procVars, wireVars, mgtVars
  <2>. QED BY <2>1, WiresAlone, RouterLeaves
<1>3. ASSUME NEW f \in Fd, NEW c \in Conn, RecvUnregister(f, c) PROVE M!Next
  BY <1>1, <1>3, WireRead, UnregisterOnly, RouterLeaves DEF RecvUnregister, procVars
<1>4. ASSUME NEW f \in Fd, NEW c \in Conn, RecvOther(f, c) PROVE M!Next
  <2>1. UNCHANGED <<life, fds>>
    BY <1>4 DEF RecvOther, procVars, mgtVars
  <2>. QED BY <1>1, <1>4, <2>1, WireRead, RouterLeaves DEF RecvOther
<1>5. ASSUME NEW f \in Fd, NEW c \in Conn, Hangup(f, c) PROVE M!Next
  BY <1>5, WiresAlone, UnregisterOnly, RouterLeaves DEF Hangup, procVars
<1>6. CASE \E f \in Fd : Reactor(f)
  BY <1>3, <1>4, <1>5, <1>6, RegisterStep DEF Reactor
<1>7. CASE RouterCrash
  <2>1. /\ UNCHANGED life /\ fds' = << >>
        /\ toRouter' = [c \in Conn |-> << >>]
    BY <1>7 DEF RouterCrash, procVars
  <2>2. DOMAIN << >> = {}
    OBVIOUS
  <2>3. \A d \in Conn : ~Wants(d)'
    BY <2>1, <2>2 DEF Wants
  <2>. QED BY <2>1, <2>2, <2>3, RouterLeaves
<1>. QED BY <1>2, <1>6, <1>7

-----------------------------------------------------------------------------
(* The refinement.                                                         *)

LEMMA FirstMembers == Init => M!Init
<1>. SUFFICES ASSUME Init PROVE M!Init
  OBVIOUS
<1>1. fds = << >> /\ \A l \in Life : life[l] = "new"
  BY DEF Init, Mgt!Init
<1>2. \A l \in Life : ~Registered(l)
  BY <1>1 DEF Registered
<1>3. \A l \in Life : ~Gone(l)
  BY <1>1 DEF Gone
<1>. QED BY <1>2, <1>3 DEF M!Init

LEMMA NextImplements == IInv /\ [Next]_vars => [M!Next]_<<Members, Departed>>
<1>. SUFFICES ASSUME IInv, [Next]_vars PROVE [M!Next]_<<Members, Departed>>
  OBVIOUS
<1>1. CASE UNCHANGED vars
  <2>1. UNCHANGED <<life, toRouter, fds>>
    BY <1>1 DEF vars, procVars, wireVars, mgtVars
  <2>2. \A l \in Life : Registered(l)' <=> Registered(l)
    BY <2>1 DEF Registered
  <2>3. \A l \in Life : Gone(l)' <=> Gone(l)
    BY <2>1, <2>2 DEF Gone
  <2>. QED BY <2>2, <2>3 DEF Members, Departed
<1>2. ASSUME NEW l \in Life,
             \/ Start(l) \/ Check(l) \/ Terminate(l) \/ Unregister(l)
             \/ Exit(l) \/ Crash(l) \/ ClientInput(l) \/ ClientEof(l) \/ ClientError(l)
      PROVE  M!Next
  BY <1>2, WorkerSteps
<1>3. CASE \/ \E f \in Fd, c \in Conn : Accept(f, c)
           \/ \E f \in Fd : Reactor(f)
           \/ RouterCrash \/ RouterStart
  BY <1>3, RouterSteps
<1>. QED BY <1>1, <1>2, <1>3 DEF Next

(* Registration implements Membership, for any number of workers, lives,   *)
(* connections and crashes: an id is one worker's at a time, and who has   *)
(* left for good never returns.                                            *)
THEOREM RegistrationImplements == Spec => ImplementsMembership
<1>1. Spec => M!Init /\ [][M!Next]_<<Members, Departed>>
  BY FirstMembers, NextImplements, AlwaysIInv, PTL DEF Spec
<1>. QED BY <1>1, PTL DEF ImplementsMembership, M!Spec, Members, Departed
=============================================================================
