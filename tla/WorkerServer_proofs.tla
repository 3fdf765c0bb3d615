------------------------ MODULE WorkerServer_proofs ------------------------
(***************************************************************************)
(* Whatever requests come, however many processors there are, whatever the *)
(* outside answers and wherever the connection breaks: who reads err 0 can *)
(* rely on it, and a request is answered and posted once at most.  What-   *)
(* ever the timer fills into the book, and whenever: nobody is taken out,  *)
(* and a broadcast goes to nobody its request does not name.               *)
(***************************************************************************)
EXTENDS WorkerServer, SequenceTheorems, WellFoundedInduction, TLAPS

-----------------------------------------------------------------------------
(* What the getters read in what the setters wrote.                        *)

(* The msg_id the router has put into a request is the one the worker      *)
(* finds there.                                                            *)
LEMMA ForwardedIsReadable ==
  ASSUME NEW text, NEW r, GetReqHead(text).ret = 0
  PROVE  /\ GetAdminHead(SetNewReq(text, r)).ret = 0
         /\ GetAdminHead(SetNewReq(text, r)).msg_id = r
<1>1. Has(text, "head") /\ HasAll(Get(text, "head"), {"cmd", "service_id"})
  BY DEF GetReqHead, Failed
<1>. DEFINE head == Obj(Insert(Get(text, "head").val, "msg_id", Str(r)))
            new  == SetNewReq(text, r)
<1>2. new = Obj(Insert(text.val, "head", head))
  BY <1>1 DEF SetNewReq
<1>3. Has(new, "head") /\ Get(new, "head") = head
  BY <1>2 DEF Has, Get, Obj, Insert
<1>4. Has(head, "msg_id") /\ Get(head, "msg_id") = Str(r)
  BY DEF Has, Get, Obj, Insert
<1>5. Has(head, "cmd")
  BY <1>1 DEF Has, HasAll, Get, Obj, Insert
<1>. HIDE DEF head, new
<1>6. HasAll(Get(new, "head"), {"cmd", "msg_id"})
  BY <1>3, <1>4, <1>5 DEF HasAll
<1>7. Get(Get(new, "head"), "msg_id").val = r
  BY <1>3, <1>4 DEF Str
<1>8. GetAdminHead(new).ret = 0 /\ GetAdminHead(new).msg_id = r
  BY <1>3, <1>6, <1>7 DEF GetAdminHead
<1>. QED BY <1>8 DEF new

(* An answer that can be read at all is read as it was meant.              *)
LEMMA AnswersAreReadable ==
  ASSUME NEW cmd, NEW req_id, NEW msg_id, NEW err, NEW info, NEW body,
         NEW text, text = SetRspMsg(cmd, req_id, msg_id, err, info, body).text,
         GetAdminHead(text).ret = 0
  PROVE  GetAdminHead(text).msg_id = msg_id /\ GetAdminHead(text).err = err
<1>. DEFINE head == RspHead(cmd, req_id, msg_id, err)
<1>1. text \in {NotJson, Obj([head |-> head]), Obj([head |-> head, body |-> Str(body)])}
  BY DEF SetRspMsg, Printed
<1>2. text # NotJson
  BY DEF GetAdminHead, Has, NotJson, Failed
<1>3. Has(text, "head") /\ Get(text, "head") = head
  BY <1>1, <1>2 DEF Has, Get, Obj
<1>4. /\ Has(head, "msg_id") /\ Get(head, "msg_id") = Str(msg_id)
      /\ Has(head, "err") /\ Get(head, "err") = Int32(err)
  BY DEF RspHead, Has, Get, Obj
<1>. HIDE DEF head
<1>5. /\ GetAdminHead(text).msg_id = Get(head, "msg_id").val
      /\ GetAdminHead(text).err = GetOr(head, "err", 0)
  BY <1>3 DEF GetAdminHead, Failed
<1>. QED BY <1>4, <1>5 DEF GetOr, Str, Int32

(* A broadcast whose status is 0 was taken by the service.                 *)
LEMMA RefusalsAreFailures ==
  ASSUME NEW rsp, NEW info, Status(rsp, info).ret = 0
  PROVE  GetOr(rsp, "ret", -1) = 0
  BY DEF Status, GetEqqRspStatus, GetOr

-----------------------------------------------------------------------------
(* The inductive invariant.                                                *)

Line == {[text |-> NewReq[m][r], size |-> m.size + Growth] : m \in Asked, r \in Req}
Id(line) == GetAdminHead(line.text).msg_id

Pcs == {"idle", "users", "depts", "post", "smtp", "get", "answer"}

(* What the steps rely on beyond TypeOK.                                   *)
Shapes ==
  /\ plugin \in Plugin
  /\ timer.pc \in {"idle", "users", "half", "groups"}
  /\ edition \in 1 .. Len(UserList)
  /\ up \in BOOLEAN /\ listed \in BOOLEAN /\ breaks \in 0 .. Breaks /\ foul \in BOOLEAN
  /\ asked \in [Req -> Asked \cup {None}]
  /\ replies \in [Req -> Nat] /\ posts \in [Req -> Nat] /\ accepted \subseteq Req
  /\ toWorker \in Seq(Line) /\ queue \in Seq(Req)
  /\ MaxQueue # 0 => Len(queue) <= MaxQueue

Threads ==
  /\ DOMAIN thread = Proc
  /\ \A p \in Proc :
       /\ DOMAIN thread[p] = DOMAIN Idle
       /\ thread[p].pc \in Pcs
       /\ thread[p].req \in IF thread[p].pc = "idle" THEN {None} ELSE Req

(* A request is in one place at a time.                                    *)
Places ==
  /\ \A i, j \in DOMAIN toWorker : Id(toWorker[i]) = Id(toWorker[j]) => i = j
  /\ \A i, j \in DOMAIN queue : queue[i] = queue[j] => i = j
  /\ \A p, q \in Proc : thread[p].req = thread[q].req /\ thread[p].req # None => p = q
  /\ \A i \in DOMAIN toWorker, j \in DOMAIN queue : Id(toWorker[i]) # queue[j]
  /\ \A i \in DOMAIN toWorker, p \in Proc : Id(toWorker[i]) # thread[p].req
  /\ \A j \in DOMAIN queue, p \in Proc : queue[j] # thread[p].req

(* Nothing has been done for it before its time.                           *)
Waits(r) == asked[r] # None /\ replies[r] = 0

Counts ==
  /\ \A i \in DOMAIN toWorker : Waits(Id(toWorker[i])) /\ posts[Id(toWorker[i])] = 0
  /\ \A i \in DOMAIN queue : Waits(queue[i]) /\ posts[queue[i]] = 0
  /\ \A p \in Proc : thread[p].pc # "idle" =>
       /\ Waits(thread[p].req)
       /\ thread[p].pc # "answer" => posts[thread[p].req] = 0
  /\ \A r \in Req : replies[r] <= 1 /\ posts[r] <= 1
  /\ \A r \in Req : asked[r] = None => replies[r] = 0 /\ posts[r] = 0

(* A text that says err 0 is true.                                         *)
Truthful(text) ==
  LET head == GetAdminHead(text)
  IN  (head.ret = 0 /\ head.msg_id \in Req /\ head.err = 0) => head.msg_id \in accepted

Truths ==
  /\ \A p \in Proc : thread[p].pc = "answer" /\ thread[p].ret = 0 => thread[p].req \in accepted
  /\ \E S : toRouter \in Seq(S) /\ \A line \in S : Truthful(line.text)
  /\ held # None => Truthful(held)
  /\ DOMAIN told = Req
  /\ HonestSuccess

IInv == Shapes /\ Threads /\ Places /\ Counts /\ Truths

-----------------------------------------------------------------------------
(* Helpers.                                                                *)

(* The id of a line that the router has forwarded.                         *)
LEMMA LineIds ==
  ASSUME NEW m \in Asked, NEW r \in Req
  PROVE  /\ GetAdminHead(NewReq[m][r]).msg_id = r
         /\ AdminHead[m][r].msg_id = r
<1>1. GetReqHead(m.text).ret = 0
  BY WorkerServerAssumption
<1>2. NewReq[m][r] = SetNewReq(m.text, r)
  BY DEF NewReq
<1>. QED BY <1>1, <1>2, ForwardedIsReadable DEF AdminHead

LEMMA IdOfLine == ASSUME NEW line \in Line PROVE Id(line) \in Req
<1>1. PICK m \in Asked, r \in Req : line.text = NewReq[m][r]
  BY DEF Line
<1>. QED BY <1>1, LineIds DEF Id

(* A line more, however it came about.                                     *)
LEMMA OneLineMore ==
  ASSUME NEW s, NEW S, s \in Seq(S), NEW line
  PROVE  Append(s, line) \in Seq(S \cup {line})
<1>1. s \in Seq(S \cup {line})
  OBVIOUS
<1>. QED BY <1>1, AppendProperties

(* Truths about lines outlive whatever the outside fulfils later.          *)
LEMMA TruthfulLater ==
  ASSUME NEW text, Truthful(text), accepted \subseteq accepted'
  PROVE  Truthful(text)'
  BY DEF Truthful

LEMMA NotJsonIsTruthful == Truthful(NotJson)
  BY DEF Truthful, GetAdminHead, Has, NotJson, Failed

(* An answer changes nothing but the wire and the count of its request,    *)
(* and what it puts on the wire is true if the outcome is.                 *)
LEMMA RespondEffect ==
  ASSUME IInv, NEW r \in Req, asked[r] # None, NEW err, NEW info, NEW body,
         err = 0 => r \in accepted,
         Respond(r, err, info, body)
  PROVE  /\ replies' = [replies EXCEPT ![r] = @ + 1]
         /\ foul' \in BOOLEAN
         /\ \E S : toRouter' \in Seq(S) /\ \A line \in S : Truthful(line.text)
<1>. DEFINE head == AdminHead[asked[r]][r]
            line == SetRspMsg(head.cmd, head.req_id, head.msg_id, err, info, body)
<1>1. PICK S : toRouter \in Seq(S) /\ \A l \in S : Truthful(l.text)
  BY DEF IInv, Truths
<1>2. head.msg_id = r
  <2>1. asked[r] \in Asked
    BY DEF IInv, Shapes
  <2>. QED BY <2>1, LineIds
<1>3. Truthful(line.text)
  <2>. SUFFICES ASSUME GetAdminHead(line.text).ret = 0, GetAdminHead(line.text).err = 0
                PROVE  GetAdminHead(line.text).msg_id \in accepted
    BY DEF Truthful
  <2>1. GetAdminHead(line.text).msg_id = head.msg_id /\ GetAdminHead(line.text).err = err
    BY AnswersAreReadable
  <2>. QED BY <2>1, <1>2
<1>4. /\ replies' = [replies EXCEPT ![r] = @ + 1]
      /\ foul' \in BOOLEAN
      /\ \/ toRouter' = Append(toRouter, line)
         \/ toRouter' = Append(toRouter, [text |-> NotJson, newline |-> FALSE])
         \/ toRouter' = toRouter
  BY DEF Respond, IInv, Shapes
<1>. HIDE DEF line
<1>5. \E T : toRouter' \in Seq(T) /\ \A l \in T : Truthful(l.text)
  <2>1. CASE toRouter' = Append(toRouter, line)
    <3>1. toRouter' \in Seq(S \cup {line})
      BY <1>1, <2>1, OneLineMore
    <3>. QED BY <1>1, <1>3, <3>1
  <2>2. CASE toRouter' = Append(toRouter, [text |-> NotJson, newline |-> FALSE])
    <3>. DEFINE cut == [text |-> NotJson, newline |-> FALSE]
    <3>1. toRouter' \in Seq(S \cup {cut})
      BY <1>1, <2>2, OneLineMore
    <3>2. Truthful(cut.text)
      BY NotJsonIsTruthful
    <3>. HIDE DEF cut
    <3>. QED BY <1>1, <3>1, <3>2
  <2>3. CASE toRouter' = toRouter
    BY <1>1, <2>3
  <2>. QED BY <1>4, <2>1, <2>2, <2>3
<1>. QED BY <1>4, <1>5

-----------------------------------------------------------------------------
(* The start.                                                              *)

LEMMA InitIInv == Init => IInv
<1>. SUFFICES ASSUME Init PROVE IInv
  OBVIOUS
<1>1. /\ plugin \in Plugin /\ timer.pc = "idle" /\ edition = 1
      /\ up = TRUE /\ listed = TRUE /\ breaks = 0
      /\ asked = [r \in Req |-> None] /\ toWorker = << >> /\ toRouter = << >> /\ held = None
      /\ queue = << >> /\ thread = [p \in Proc |-> Idle] /\ told = [r \in Req |-> None]
      /\ replies = [r \in Req |-> 0] /\ posts = [r \in Req |-> 0]
      /\ accepted = {} /\ foul = FALSE
  BY DEF Init
<1>2. << >> \in Seq(Line) /\ << >> \in Seq(Req) /\ << >> \in Seq({}) /\ Len(<< >>) = 0
  OBVIOUS
<1>3. DOMAIN toWorker = {} /\ DOMAIN queue = {}
  BY <1>1
<1>4. \A p \in Proc : /\ thread[p].pc = "idle" /\ thread[p].req = None
                      /\ DOMAIN thread[p] = DOMAIN Idle
  BY <1>1 DEF Idle
<1>5. \A r \in Req : asked[r] = None /\ told[r] = None /\ replies[r] = 0 /\ posts[r] = 0
  BY <1>1
<1>6. Shapes
  <2>1. toWorker \in Seq(Line) /\ queue \in Seq(Req) /\ Len(queue) = 0
    BY <1>1, <1>2
  <2>2. /\ asked \in [Req -> Asked \cup {None}]
        /\ replies \in [Req -> Nat] /\ posts \in [Req -> Nat]
    BY <1>1
  <2>3. /\ edition \in 1 .. Len(UserList) /\ breaks \in 0 .. Breaks
        /\ MaxQueue # 0 => Len(queue) <= MaxQueue
    BY <1>1, <2>1, WorkerServerAssumption
  <2>4. up \in BOOLEAN /\ listed \in BOOLEAN /\ foul \in BOOLEAN /\ accepted \subseteq Req
    BY <1>1
  <2>. QED BY <1>1, <2>1, <2>2, <2>3, <2>4 DEF Shapes
<1>7. Threads
  BY <1>1, <1>4 DEF Threads, Pcs
<1>8. Places
  BY <1>3, <1>4 DEF Places
<1>9. Counts
  BY <1>3, <1>4, <1>5 DEF Counts
<1>10. Truths
  <2>1. toRouter \in Seq({}) /\ \A line \in {} : Truthful(line.text)
    BY <1>1, <1>2
  <2>2. HonestSuccess
    BY <1>5, WorkerServerAssumption DEF HonestSuccess
  <2>3. \A p \in Proc : thread[p].pc # "answer"
    BY <1>4
  <2>4. DOMAIN told = Req /\ held = None
    BY <1>1
  <2>. QED BY <2>1, <2>2, <2>3, <2>4 DEF Truths
<1>. QED BY <1>6, <1>7, <1>8, <1>9, <1>10 DEF IInv

-----------------------------------------------------------------------------
(* The router and the connection.                                          *)

(* A request that was not asked yet is nowhere.                            *)
LEMMA ForwardKeeps == ASSUME IInv, NEW r \in Req, Forward(r) PROVE IInv'
<1>. USE DEF histVars, bookVars
<1>1. PICK m \in Asked :
        /\ asked' = [asked EXCEPT ![r] = m]
        /\ toWorker' = Append(toWorker, [text |-> NewReq[m][r], size |-> m.size + Growth])
  BY DEF Forward
<1>. DEFINE line == [text |-> NewReq[m][r], size |-> m.size + Growth]
<1>2. /\ UNCHANGED <<plugin, timer, edition, up, breaks, listed, toRouter, held, told, foul,
                     queue, thread, replies, posts, accepted>>
      /\ asked[r] = None
  BY DEF Forward
<1>3. line \in Line /\ Id(line) = r
  BY LineIds DEF Line, Id
<1>. HIDE DEF line
<1>4. /\ toWorker \in Seq(Line) /\ toWorker' \in Seq(Line)
      /\ Len(toWorker') = Len(toWorker) + 1 /\ toWorker'[Len(toWorker) + 1] = line
      /\ \A i \in 1 .. Len(toWorker) : toWorker'[i] = toWorker[i]
      /\ Len(toWorker) \in Nat
  BY <1>1, <1>3, AppendProperties, LenProperties DEF IInv, Shapes, line
<1>5. \A i \in DOMAIN toWorker' :
        \/ i \in DOMAIN toWorker /\ toWorker'[i] = toWorker[i]
        \/ i = Len(toWorker) + 1 /\ Id(toWorker'[i]) = r
  BY <1>3, <1>4
<1>6. m # None
  BY WorkerServerAssumption
<1>7. Shapes'
  BY <1>1, <1>2, <1>4 DEF IInv, Shapes
<1>8. Threads'
  BY <1>2 DEF IInv, Threads
<1>9. Counts'
  <2>1. asked[r] = None => replies[r] = 0 /\ posts[r] = 0
    BY DEF IInv, Counts
  <2>2. asked'[r] # None /\ \A q : asked[q] # None => asked'[q] # None
    BY <1>1, <1>6 DEF IInv, Shapes
  <2>3. \A q : Waits(q) => Waits(q)'
    BY <1>2, <2>2 DEF Waits
  <2>4. Waits(r)' /\ posts[r] = 0
    BY <1>2, <2>1, <2>2 DEF Waits
  <2>5. \A i \in DOMAIN toWorker' :
          \E q : q = Id(toWorker'[i]) /\ Waits(q)' /\ posts[q] = 0
    BY <1>5, <2>3, <2>4 DEF IInv, Counts
  <2>6. \A q \in Req : asked'[q] = None => asked[q] = None
    BY <2>2
  <2>. QED BY <1>2, <2>3, <2>5, <2>6 DEF IInv, Counts
<1>10. Places'
  <2>1. /\ \A i \in DOMAIN toWorker : Id(toWorker[i]) # r
        /\ \A j \in DOMAIN queue : queue[j] # r
        /\ \A p \in Proc : thread[p].req # r
    BY <1>2, WorkerServerAssumption DEF IInv, Counts, Waits, Threads
  <2>. QED BY <1>2, <1>5, <2>1 DEF IInv, Places
<1>11. Truths'
  BY <1>2, TruthfulLater DEF IInv, Truths, HonestSuccess, Truthful
<1>. QED BY <1>7, <1>8, <1>9, <1>10, <1>11 DEF IInv

(* Who only moves answers touches no request.                              *)
LEMMA RequestsAlone ==
  ASSUME IInv,
         UNCHANGED <<plugin, timer, edition, asked, toWorker, queue, thread, replies,
                     posts, accepted>>,
         up' \in BOOLEAN, listed' \in BOOLEAN, breaks' \in 0 .. Breaks, foul' \in BOOLEAN
  PROVE  Shapes' /\ Threads' /\ Places' /\ Counts'
<1>1. Shapes'
  BY DEF IInv, Shapes
<1>2. Threads'
  BY DEF IInv, Threads
<1>3. Places'
  BY DEF IInv, Places
<1>4. Counts'
  BY DEF IInv, Counts, Waits
<1>. QED BY <1>1, <1>2, <1>3, <1>4

(* What the router reads is true, and so is what it passes on.             *)
LEMMA RouterReadsKeeps == ASSUME IInv, RouterReads PROVE IInv'
<1>0. PICK text : text = LineRead(Head(toRouter))
  OBVIOUS
<1>1. /\ UNCHANGED <<plugin, timer, edition, asked, toWorker, queue, thread, replies,
                     posts, accepted, up, breaks, foul>>
      /\ toRouter # << >> /\ toRouter' = Tail(toRouter) /\ listed' \in BOOLEAN
      /\ \/ /\ held' = None
            /\ told' = [r \in Req |->
                 IF /\ GetAdminHead(text).ret = 0
                    /\ GetAdminHead(text).cmd \notin AdminWords
                    /\ GetAdminHead(text).msg_id = r /\ told[r] = None
                 THEN [err |-> GetAdminHead(text).err] ELSE told[r]]
         \/ held' = text /\ UNCHANGED told
  BY <1>0 DEF RouterReads, histVars, IInv, Shapes
<1>2. PICK S : toRouter \in Seq(S) /\ \A line \in S : Truthful(line.text)
  BY DEF IInv, Truths
<1>3. Head(toRouter) \in S /\ Tail(toRouter) \in Seq(S)
  BY <1>1, <1>2, HeadTailProperties
<1>4. Truthful(text)
  BY <1>0, <1>2, <1>3 DEF LineRead, IInv, Truths
<1>5. Shapes' /\ Threads' /\ Places' /\ Counts'
  BY <1>1, RequestsAlone DEF IInv, Shapes
<1>6. DOMAIN told' = Req
  BY <1>1 DEF IInv, Truths
<1>7. HonestSuccess'
  <2>. SUFFICES ASSUME NEW r \in Req, told'[r] = [err |-> 0]
                PROVE  r \in accepted
    BY <1>1 DEF HonestSuccess
  <2>1. CASE told'[r] = told[r]
    BY <2>1 DEF IInv, Truths, HonestSuccess
  <2>2. CASE /\ GetAdminHead(text).ret = 0 /\ GetAdminHead(text).msg_id = r
             /\ told'[r] = [err |-> GetAdminHead(text).err]
    <3>1. [err |-> GetAdminHead(text).err].err = [err |-> 0].err
      BY <2>2
    <3>2. GetAdminHead(text).err = 0
      BY <3>1
    <3>. QED BY <2>2, <3>2, <1>4 DEF Truthful
  <2>. QED BY <1>1, <2>1, <2>2
<1>8. Truths'
  <2>1. \A p \in Proc : thread'[p].pc = "answer" /\ thread'[p].ret = 0
                         => thread'[p].req \in accepted'
    BY <1>1 DEF IInv, Truths
  <2>2. \A t : Truthful(t) => Truthful(t)'
    BY <1>1, TruthfulLater
  <2>3. \E T : toRouter' \in Seq(T) /\ \A line \in T : Truthful(line.text)'
    BY <1>1, <1>2, <1>3, <2>2
  <2>4. held' # None => Truthful(text)'
    BY <1>4, <2>2
  <2>5. (held # None => Truthful(held))'
    BY <1>1, <2>4
  <2>. QED BY <1>6, <1>7, <2>1, <2>3, <2>5 DEF Truths
<1>. QED BY <1>5, <1>8 DEF IInv

(* What a break loses was not answered for twice.                          *)
LEMMA BreakKeeps == ASSUME IInv, Break \/ Reconnect PROVE IInv'
<1>1. /\ UNCHANGED <<plugin, timer, edition, asked, queue, thread, replies, posts,
                     accepted, told>>
      /\ toWorker' = toWorker \/ toWorker' = << >>
      /\ held' = held \/ held' = None
      /\ up' \in BOOLEAN /\ listed' \in BOOLEAN /\ breaks' \in 0 .. Breaks /\ foul' \in BOOLEAN
  <2>1. CASE Break
    <3>1. /\ UNCHANGED <<plugin, timer, edition, asked, queue, thread, replies, posts,
                         accepted, told, held, listed>>
          /\ toWorker' = << >> /\ up' = FALSE /\ foul' = TRUE
          /\ breaks' = breaks + 1 /\ breaks < Breaks
      BY <2>1 DEF Break, histVars
    <3>2. breaks' \in 0 .. Breaks
      BY <3>1, WorkerServerAssumption DEF IInv, Shapes
    <3>. QED BY <3>1, <3>2 DEF IInv, Shapes
  <2>2. CASE Reconnect
    BY <2>2 DEF Reconnect, histVars, IInv, Shapes
  <2>. QED BY <2>1, <2>2
<1>2. PICK S : toRouter \in Seq(S) /\ \A line \in S : Truthful(line.text)
  BY DEF IInv, Truths
<1>3. toRouter' \in Seq(S)
  <2>1. CASE toRouter' = toRouter
    BY <2>1, <1>2
  <2>2. CASE \E n \in 0 .. Len(toRouter) : toRouter' = SubSeq(toRouter, 1, n)
    <3>1. PICK n \in 0 .. Len(toRouter) : toRouter' = SubSeq(toRouter, 1, n)
      BY <2>2
    <3>. QED BY <1>2, <3>1, SubSeqProperties, LenProperties
  <2>. QED BY <2>1, <2>2 DEF Break, Reconnect
<1>4. toWorker' \in Seq(Line) /\ (toWorker' = << >> => DOMAIN toWorker' = {})
  <2>1. << >> \in Seq(Line) /\ DOMAIN << >> = {}
    OBVIOUS
  <2>2. toWorker \in Seq(Line)
    BY DEF IInv, Shapes
  <2>. QED BY <1>1, <2>1, <2>2
<1>5. Shapes'
  BY <1>1, <1>4 DEF IInv, Shapes
<1>6. Threads'
  BY <1>1 DEF IInv, Threads
<1>7. Places' /\ Counts'
  <2>1. CASE toWorker' = toWorker
    <3>1. Places'
      BY <1>1, <2>1 DEF IInv, Places
    <3>2. Counts'
      BY <1>1, <2>1 DEF IInv, Counts, Waits
    <3>. QED BY <3>1, <3>2
  <2>2. CASE DOMAIN toWorker' = {}
    <3>1. Places'
      BY <1>1, <2>2 DEF IInv, Places
    <3>2. Counts'
      BY <1>1, <2>2 DEF IInv, Counts, Waits
    <3>. QED BY <3>1, <3>2
  <2>. QED BY <1>1, <1>4, <2>1, <2>2
<1>8. Truths'
  <2>1. \A t : Truthful(t) => Truthful(t)'
    BY <1>1, TruthfulLater
  <2>2. held' # None => Truthful(held)'
    BY <1>1, <2>1 DEF IInv, Truths
  <2>3. \E T : toRouter' \in Seq(T) /\ \A line \in T : Truthful(line.text)'
    BY <1>2, <1>3, <2>1
  <2>4. (held # None => Truthful(held))'
    BY <1>1, <2>2 DEF IInv, Truths, Truthful
  <2>. QED BY <1>1, <2>3, <2>4 DEF IInv, Truths, HonestSuccess
<1>. QED BY <1>5, <1>6, <1>7, <1>8 DEF IInv

-----------------------------------------------------------------------------
(* The client thread.                                                      *)

(* After Respond for r nothing is true that was not, but on the wire.      *)
LEMMA TruthsAfterRespond ==
  ASSUME IInv, UNCHANGED <<accepted, held, told>>,
         \E S : toRouter' \in Seq(S) /\ \A line \in S : Truthful(line.text),
         \A p \in Proc : thread'[p].pc = "answer" => thread'[p] = thread[p]
  PROVE  Truths'
<1>1. \A t : Truthful(t) => Truthful(t)'
  BY TruthfulLater
<1>2. \E S : toRouter' \in Seq(S) /\ \A line \in S : Truthful(line.text)'
  BY <1>1
<1>3. (held # None => Truthful(held))'
  BY DEF IInv, Truths, Truthful
<1>. QED BY <1>2, <1>3 DEF IInv, Truths, HonestSuccess

(* The line that HandleInput takes leaves the others as they were.         *)
LEMMA LineTaken ==
  ASSUME IInv, toWorker # << >>, toWorker' = Tail(toWorker)
  PROVE  /\ toWorker' \in Seq(Line)
         /\ \A i \in DOMAIN toWorker' :
              i + 1 \in DOMAIN toWorker /\ toWorker'[i] = toWorker[i + 1] /\ i \in Nat \ {0}
         /\ 1 \in DOMAIN toWorker /\ Head(toWorker) = toWorker[1] /\ Head(toWorker) \in Line
<1>1. toWorker \in Seq(Line)
  BY DEF IInv, Shapes
<1>. QED BY <1>1, HeadTailProperties, LenProperties

LEMMA HandleInputKeeps == ASSUME IInv, HandleInput PROVE IInv'
<1>1. /\ UNCHANGED <<plugin, timer, edition, up, breaks, listed, asked, held, told, thread,
                     posts, accepted>>
      /\ toWorker # << >> /\ toWorker' = Tail(toWorker)
  BY DEF HandleInput, histVars
<1>2. PICK r : r = Id(Head(toWorker))
  OBVIOUS
<1>3. /\ toWorker' \in Seq(Line)
      /\ \A i \in DOMAIN toWorker' :
           i + 1 \in DOMAIN toWorker /\ toWorker'[i] = toWorker[i + 1] /\ i \in Nat \ {0}
      /\ 1 \in DOMAIN toWorker /\ Id(toWorker[1]) = r /\ r \in Req
  BY <1>1, <1>2, LineTaken, IdOfLine
<1>4. /\ asked[r] # None /\ replies[r] = 0 /\ posts[r] = 0
      /\ \A i \in DOMAIN toWorker' : Id(toWorker'[i]) # r
      /\ \A j \in DOMAIN queue : queue[j] # r
      /\ \A p \in Proc : thread[p].req # r
  <2>1. \A i \in DOMAIN toWorker' : i + 1 # 1
    BY <1>3
  <2>. QED BY <1>3, <2>1 DEF IInv, Places, Counts, Waits
<1>5. Threads'
  BY <1>1 DEF IInv, Threads
<1>6. \A i \in DOMAIN toWorker' :
        \E k \in DOMAIN toWorker : toWorker'[i] = toWorker[k] /\ k = i + 1 /\ i \in Nat
  BY <1>3
<1>7. \A i, j \in DOMAIN toWorker' : Id(toWorker'[i]) = Id(toWorker'[j]) => i = j
  BY <1>6 DEF IInv, Places
<1>8. ASSUME UNCHANGED <<queue, toRouter, foul, replies>>
      PROVE  IInv'
  <2>. USE <1>1, <1>8
  <2>1. Shapes'
    BY <1>3 DEF IInv, Shapes
  <2>2. Places'
    BY <1>6, <1>7 DEF IInv, Places
  <2>3. Counts'
    <3>1. \A i \in DOMAIN toWorker' :
            \E q : q = Id(toWorker'[i]) /\ Waits(q)' /\ posts[q] = 0
      BY <1>6 DEF IInv, Counts, Waits
    <3>. QED BY <3>1 DEF IInv, Counts, Waits
  <2>4. Truths'
    BY TruthsAfterRespond DEF IInv, Truths
  <2>. QED BY <1>5, <2>1, <2>2, <2>3, <2>4 DEF IInv
<1>9. ASSUME Full, Respond(r, ERR_QUEUE_FULL, "full", ""), UNCHANGED queue
      PROVE  IInv'
  <2>. USE <1>1
  <2>0. UNCHANGED queue
    BY <1>9
  <2>1. /\ replies' = [replies EXCEPT ![r] = @ + 1] /\ foul' \in BOOLEAN
        /\ \E S : toRouter' \in Seq(S) /\ \A line \in S : Truthful(line.text)
    <3>1. ERR_QUEUE_FULL # 0
      BY DEF ERR_QUEUE_FULL
    <3>. QED BY <1>3, <1>4, <1>9, <3>1, RespondEffect
  <2>2. Shapes'
    BY <1>3, <2>0, <2>1 DEF IInv, Shapes
  <2>3. Places'
    BY <1>6, <1>7, <2>0 DEF IInv, Places
  <2>4. Counts'
    <3>1. \A q \in Req : q # r => replies'[q] = replies[q]
      BY <2>1 DEF IInv, Shapes
    <3>2. replies'[r] = 1
      BY <1>3, <1>4, <2>1 DEF IInv, Shapes
    <3>3. \A q \in Req : q # r /\ Waits(q) => Waits(q)'
      BY <3>1 DEF Waits
    <3>4. \A i \in DOMAIN toWorker : Id(toWorker[i]) \in Req
      BY IdOfLine DEF IInv, Shapes
    <3>5. \A i \in DOMAIN toWorker' :
            \E q : q = Id(toWorker'[i]) /\ Waits(q)' /\ posts[q] = 0
      BY <1>4, <1>6, <3>3, <3>4 DEF IInv, Counts
    <3>6. \A i \in DOMAIN queue : queue[i] \in Req
      BY DEF IInv, Shapes
    <3>7. \A i \in DOMAIN queue :
            \E q : q = queue[i] /\ Waits(q)' /\ posts[q] = 0
      BY <1>4, <3>3, <3>6 DEF IInv, Counts
    <3>8. \A p \in Proc : thread[p].pc # "idle" =>
            \E q : q = thread[p].req /\ Waits(q)' /\ (thread[p].pc # "answer" => posts[q] = 0)
      BY <1>4, <3>3 DEF IInv, Counts, Threads
    <3>9. \A q \in Req : replies'[q] <= 1 /\ (asked[q] = None => replies'[q] = 0)
      BY <1>4, <3>1, <3>2 DEF IInv, Counts
    <3>. QED BY <2>0, <3>5, <3>7, <3>8, <3>9 DEF IInv, Counts
  <2>5. Truths'
    BY <2>1, TruthsAfterRespond
  <2>. QED BY <1>5, <2>2, <2>3, <2>4, <2>5 DEF IInv
<1>10. ASSUME ~Full, queue' = Append(queue, r), UNCHANGED <<toRouter, foul, replies>>
       PROVE  IInv'
  <2>. USE <1>1, <1>10
  <2>1. /\ queue \in Seq(Req) /\ queue' \in Seq(Req) /\ Len(queue) \in Nat
        /\ Len(queue') = Len(queue) + 1 /\ queue'[Len(queue) + 1] = r
        /\ \A i \in 1 .. Len(queue) : queue'[i] = queue[i]
    BY <1>3, AppendProperties, LenProperties DEF IInv, Shapes
  <2>2. \A i \in DOMAIN queue' :
          \/ i \in DOMAIN queue /\ queue'[i] = queue[i]
          \/ i = Len(queue) + 1 /\ queue'[i] = r
    BY <2>1
  <2>3. MaxQueue # 0 => Len(queue') <= MaxQueue
    BY <2>1, WorkerServerAssumption DEF Full
  <2>4. Shapes'
    BY <1>3, <2>1, <2>3 DEF IInv, Shapes
  <2>5. Places'
    BY <1>4, <1>6, <1>7, <2>2 DEF IInv, Places
  <2>6. Counts'
    <3>1. \A i \in DOMAIN toWorker' :
            \E q : q = Id(toWorker'[i]) /\ Waits(q)' /\ posts[q] = 0
      BY <1>6 DEF IInv, Counts, Waits
    <3>2. \A i \in DOMAIN queue' :
            \E q : q = queue'[i] /\ Waits(q)' /\ posts[q] = 0
      BY <1>4, <2>2 DEF IInv, Counts, Waits
    <3>. QED BY <3>1, <3>2 DEF IInv, Counts, Waits
  <2>7. Truths'
    BY TruthsAfterRespond DEF IInv, Truths
  <2>. QED BY <1>5, <2>4, <2>5, <2>6, <2>7 DEF IInv
<1>. QED BY <1>2, <1>8, <1>9, <1>10 DEF HandleInput, TakeIn, Id

-----------------------------------------------------------------------------
(* The processors.                                                         *)

(* What a processor leaves alone unless it takes or answers.               *)
Alone == UNCHANGED <<plugin, timer, edition, up, breaks, listed, foul, asked, toWorker, toRouter,
                     held, told, queue, replies>>

(* A processor at work on a request goes on with it.  It posts at most     *)
(* once, since from a post it goes straight to the answer; and where the   *)
(* outcome is 0, the outside has fulfilled the request.                    *)
LEMMA WorkKeeps ==
  ASSUME IInv, NEW p \in Proc, thread[p].pc \notin {"idle", "answer"}, Alone,
         DOMAIN thread' = Proc, \A q \in Proc : q # p => thread'[q] = thread[q],
         DOMAIN thread'[p] = DOMAIN Idle, thread'[p].req = thread[p].req,
         thread'[p].pc \in Pcs \ {"idle"},
         \/ UNCHANGED posts
         \/ posts' = [posts EXCEPT ![thread[p].req] = @ + 1] /\ thread'[p].pc = "answer",
         \/ UNCHANGED accepted
         \/ accepted' = accepted \cup {thread[p].req},
         thread'[p].pc = "answer" /\ thread'[p].ret = 0 => thread[p].req \in accepted'
  PROVE  IInv'
<1>. USE DEF Alone
<1>1. PICK r : r = thread[p].req
  OBVIOUS
<1>2. r \in Req /\ r # None
  BY <1>1, WorkerServerAssumption DEF IInv, Threads
<1>3. accepted \subseteq accepted' /\ accepted' \subseteq Req
  BY <1>1, <1>2 DEF IInv, Shapes
<1>4. posts' \in [Req -> Nat] /\ \A q \in Req : q # r => posts'[q] = posts[q]
  <2>1. posts \in [Req -> Nat]
    BY DEF IInv, Shapes
  <2>. QED BY <1>1, <1>2, <2>1
<1>5. posts[r] = 0 /\ Waits(r)
  BY <1>1 DEF IInv, Counts
<1>6. posts'[r] <= 1 /\ (thread'[p].pc # "answer" => posts'[r] = 0)
  BY <1>1, <1>2, <1>5 DEF IInv, Shapes
<1>7. \A q \in Proc : thread'[q].req = thread[q].req
  OBVIOUS
<1>8. \A q \in Proc : q # p => thread[q].req # r
  BY <1>1, <1>2 DEF IInv, Places
<1>9. /\ \A i \in DOMAIN toWorker : Id(toWorker[i]) # r /\ Id(toWorker[i]) \in Req
      /\ \A i \in DOMAIN queue : queue[i] # r /\ queue[i] \in Req
  BY <1>1, IdOfLine DEF IInv, Places, Shapes
<1>10. Shapes'
  BY <1>3, <1>4 DEF IInv, Shapes
<1>11. Threads'
  <2>1. \A q \in Proc : q # p => DOMAIN thread'[q] = DOMAIN Idle
    BY DEF IInv, Threads
  <2>2. \A q \in Proc : thread'[q].pc \in Pcs
    BY DEF IInv, Threads
  <2>3. \A q \in Proc : thread'[q].req \in IF thread'[q].pc = "idle" THEN {None} ELSE Req
    BY <1>1, <1>2 DEF IInv, Threads
  <2>4. (DOMAIN Idle)' = DOMAIN Idle
    BY DEF Idle
  <2>. QED BY <2>1, <2>2, <2>3, <2>4 DEF Threads
<1>12. Places'
  BY <1>7 DEF IInv, Places
<1>13. Counts'
  <2>1. \A q \in Req : Waits(q) => Waits(q)'
    BY DEF Waits
  <2>2. \A i \in DOMAIN toWorker :
          \E q : q = Id(toWorker[i]) /\ Waits(q)' /\ posts'[q] = 0
    BY <1>4, <1>9, <2>1 DEF IInv, Counts
  <2>3. \A i \in DOMAIN queue : \E q : q = queue[i] /\ Waits(q)' /\ posts'[q] = 0
    BY <1>4, <1>9, <2>1 DEF IInv, Counts
  <2>4. \A q \in Proc : q # p /\ thread[q].pc # "idle" =>
          \E s : /\ s = thread[q].req /\ Waits(s)'
                 /\ thread[q].pc # "answer" => posts'[s] = 0
    BY <1>4, <1>8, <2>1 DEF IInv, Counts, Threads
  <2>5. Waits(r)' /\ thread'[p].req = r
    BY <1>1, <1>2, <1>5, <2>1
  <2>6. \A q \in Proc : thread'[q].pc # "idle" =>
          \E s : /\ s = thread'[q].req /\ Waits(s)'
                 /\ thread'[q].pc # "answer" => posts'[s] = 0
    BY <1>6, <2>4, <2>5
  <2>7. \A q \in Req : posts'[q] <= 1 /\ (asked[q] = None => posts'[q] = 0)
    BY <1>4, <1>5, <1>6 DEF IInv, Counts, Waits
  <2>. QED BY <2>2, <2>3, <2>6, <2>7 DEF IInv, Counts
<1>14. Truths'
  <2>1. \A t : Truthful(t) => Truthful(t)'
    BY <1>3, TruthfulLater
  <2>2. \E S : toRouter \in Seq(S) /\ \A line \in S : Truthful(line.text)'
    BY <2>1 DEF IInv, Truths
  <2>3. (held # None => Truthful(held))'
    BY <1>3 DEF IInv, Truths, Truthful
  <2>4. \A q \in Proc : thread'[q].pc = "answer" /\ thread'[q].ret = 0
                          => thread'[q].req \in accepted'
    BY <1>3, <1>7 DEF IInv, Truths
  <2>5. HonestSuccess'
    BY <1>3 DEF IInv, Truths, HonestSuccess
  <2>. QED BY <2>2, <2>3, <2>4, <2>5 DEF IInv, Truths
<1>. QED BY <1>10, <1>11, <1>12, <1>13, <1>14 DEF IInv

(* Looking into the book.                                                  *)
LEMMA LookUpKeeps ==
  ASSUME IInv, NEW p \in Proc, LookUpUsers(p) \/ LookUpDepts(p) PROVE IInv'
<1>1. /\ thread[p].pc \in {"users", "depts"} /\ Alone /\ UNCHANGED <<posts, accepted>>
  BY DEF LookUpUsers, LookUpDepts, Quietly, wireVars, histVars, Alone
<1>2. /\ DOMAIN thread = Proc
      /\ DOMAIN thread[p] = {"pc", "req", "users", "depts", "ret", "info", "body"}
      /\ DOMAIN Idle = {"pc", "req", "users", "depts", "ret", "info", "body"}
  BY DEF IInv, Threads, Idle
<1>3. /\ DOMAIN thread' = Proc /\ \A q \in Proc : q # p => thread'[q] = thread[q]
      /\ DOMAIN thread'[p] = DOMAIN Idle
      /\ thread'[p].req = thread[p].req
      /\ thread'[p].pc \in {"depts", "post"}
  <2>1. CASE LookUpUsers(p)
    BY <2>1, <1>2 DEF LookUpUsers
  <2>2. CASE LookUpDepts(p)
    BY <2>2, <1>2 DEF LookUpDepts
  <2>. QED BY <2>1, <2>2
<1>. QED BY <1>1, <1>3, WorkKeeps DEF Pcs

(* Outside.                                                                *)
LEMMA OutcomeEffect ==
  ASSUME IInv, NEW p \in Proc, NEW ret, NEW info, NEW body, Outcome(p, ret, info, body)
  PROVE  /\ DOMAIN thread' = Proc /\ \A q \in Proc : q # p => thread'[q] = thread[q]
         /\ DOMAIN thread'[p] = DOMAIN Idle
         /\ thread'[p].req = thread[p].req
         /\ thread'[p].pc = "answer" /\ thread'[p].ret = ret
  BY DEF Outcome, Done, Idle, IInv, Threads

LEMMA CallEnds ==
  ASSUME IInv, NEW p \in Proc, thread[p].pc \notin {"idle", "answer"}, Alone,
         \/ UNCHANGED posts
         \/ posts' = [posts EXCEPT ![thread[p].req] = @ + 1],
         NEW ret, NEW info, NEW body, Outcome(p, ret, info, body),
         accepted' = accepted \/ accepted' = accepted \cup {thread[p].req},
         ret = 0 => thread[p].req \in accepted'
  PROVE  IInv'
<1>1. /\ DOMAIN thread' = Proc /\ \A q \in Proc : q # p => thread'[q] = thread[q]
      /\ DOMAIN thread'[p] = DOMAIN Idle
      /\ thread'[p].req = thread[p].req
      /\ thread'[p].pc = "answer" /\ thread'[p].ret = ret
  BY OutcomeEffect
<1>. QED BY <1>1, WorkKeeps DEF Pcs

LEMMA CallKeeps ==
  ASSUME IInv, NEW p \in Proc, SendBroadcast(p) \/ SendMail(p) \/ HttpGet(p) PROVE IInv'
<1>1. /\ thread[p].pc \notin {"idle", "answer"} /\ Alone
      /\ UNCHANGED posts \/ posts' = [posts EXCEPT ![thread[p].req] = @ + 1]
  BY DEF SendBroadcast, SendMail, HttpGet, Quietly, wireVars, Alone
<1>2. CurlError # 0
  BY DEF CurlError
<1>3. ASSUME NEW info, Outcome(p, CurlError, info, ""), UNCHANGED accepted
      PROVE  IInv'
  BY <1>1, <1>2, <1>3, CallEnds
<1>4. CASE SendBroadcast(p)
  <2>1. ASSUME NEW rsp \in Reply, NEW s, s = Status(rsp, thread[p].info),
               Outcome(p, s.ret, s.info, ""),
               accepted' = IF GetOr(rsp, "ret", -1) = 0
                           THEN accepted \cup {thread[p].req} ELSE accepted
        PROVE  IInv'
    <3>1. s.ret = 0 => thread[p].req \in accepted'
      BY <2>1, RefusalsAreFailures
    <3>. QED BY <1>1, <2>1, <3>1, CallEnds
  <2>. QED BY <1>3, <1>4, <2>1 DEF SendBroadcast
<1>5. CASE SendMail(p)
  <2>1. ASSUME NEW info, Outcome(p, 0, info, ""), accepted' = accepted \cup {thread[p].req}
        PROVE  IInv'
    BY <1>1, <2>1, CallEnds
  <2>. QED BY <1>3, <1>5, <2>1 DEF SendMail
<1>6. CASE HttpGet(p)
  <2>1. ASSUME NEW page, Outcome(p, 0, "", page), accepted' = accepted \cup {thread[p].req}
        PROVE  IInv'
    BY <1>1, <2>1, CallEnds
  <2>. QED BY <1>3, <1>6, <2>1 DEF HttpGet
<1>. QED BY <1>4, <1>5, <1>6

(* What is taken from the queue is in the hands of one processor, and an   *)
(* outcome that needs no call is no success.                               *)
LEMMA FirstStep ==
  ASSUME NEW r \in Req, NEW t,
         t = IF plugin.service = "standard" THEN Dispatch(r) ELSE Notify(r)
  PROVE  /\ DOMAIN t = DOMAIN Idle /\ t.req = r /\ t.pc \in Pcs \ {"idle"}
         /\ t.pc = "answer" => t.ret # 0
<1>1. \A pc : /\ DOMAIN Doing(r, pc) = DOMAIN Idle
              /\ Doing(r, pc).req = r /\ Doing(r, pc).pc = pc
  BY DEF Doing, Idle
<1>2. -1 # 0
  OBVIOUS
<1>3. CASE t = Dispatch(r)
  <2>1. CASE t = Done(r, -1, "", "")
    BY <2>1, <1>2 DEF Done, Idle, Pcs
  <2>2. CASE t = Doing(r, "get")
    BY <2>2, <1>1 DEF Pcs
  <2>. QED BY <1>3, <2>1, <2>2 DEF Dispatch
<1>4. CASE t = Notify(r)
  <2>1. PICK n : n = Wanted(r)
    OBVIOUS
  <2>2. CASE n.ret # 0
    <3>1. t = Done(r, n.ret, n.info, "")
      BY <1>4, <2>1, <2>2 DEF Notify
    <3>. QED BY <2>2, <3>1 DEF Done, Idle, Pcs
  <2>3. CASE n.ret = 0 /\ n.cmd \notin plugin.ways
    <3>1. t = Done(r, -1, "invalid cmd", "")
      BY <1>4, <2>1, <2>3 DEF Notify
    <3>. QED BY <1>2, <3>1 DEF Done, Idle, Pcs
  <2>4. CASE n.ret = 0 /\ n.cmd \in plugin.ways
    <3>1. PICK pc \in {"smtp", "users", "depts"} : t = [Doing(r, pc) EXCEPT !.info = n.info]
      BY <1>4, <2>1, <2>4 DEF Notify
    <3>. QED BY <3>1 DEF Pcs, Doing, Idle
  <2>. QED BY <2>2, <2>3, <2>4
<1>. QED BY <1>3, <1>4

LEMMA TakeKeeps == ASSUME IInv, NEW p \in Proc, Take(p) PROVE IInv'
<1>1. PICK r : r = Head(queue)
  OBVIOUS
<1>2. PICK t : t = IF plugin.service = "standard" THEN Dispatch(r) ELSE Notify(r)
  OBVIOUS
<1>3. /\ UNCHANGED <<plugin, timer, edition, up, breaks, listed, foul, asked, toWorker, toRouter,
                     held, told, replies, posts, accepted>>
      /\ thread[p].pc = "idle" /\ queue # << >> /\ queue' = Tail(queue)
      /\ thread' = [thread EXCEPT ![p] = t]
  BY <1>1, <1>2 DEF Take, wireVars, histVars
<1>4. /\ queue' \in Seq(Req) /\ Len(queue') = Len(queue) - 1 /\ Len(queue) \in Nat
      /\ 1 \in DOMAIN queue /\ queue[1] = r /\ r \in Req
      /\ \A i \in DOMAIN queue' :
           i + 1 \in DOMAIN queue /\ queue'[i] = queue[i + 1] /\ i \in Nat \ {0}
  <2>1. queue \in Seq(Req)
    BY DEF IInv, Shapes
  <2>. QED BY <1>1, <1>3, <2>1, HeadTailProperties, LenProperties
<1>5. /\ DOMAIN t = DOMAIN Idle /\ t.req = r /\ t.pc \in Pcs \ {"idle"}
      /\ t.pc = "answer" => t.ret # 0
  BY <1>2, <1>4, FirstStep
<1>6. /\ Waits(r) /\ posts[r] = 0
      /\ \A i \in DOMAIN queue' : queue'[i] # r
      /\ \A i \in DOMAIN toWorker : Id(toWorker[i]) # r
      /\ \A q \in Proc : thread[q].req # r
  <2>1. \A i \in DOMAIN queue' : i + 1 # 1
    BY <1>4
  <2>. QED BY <1>4, <2>1 DEF IInv, Places, Counts
<1>7. /\ DOMAIN thread = Proc /\ DOMAIN thread' = Proc /\ thread'[p] = t
      /\ \A q \in Proc : q # p => thread'[q] = thread[q]
  BY <1>3 DEF IInv, Threads
<1>8. \A i \in DOMAIN queue' :
        \E k \in DOMAIN queue : queue'[i] = queue[k] /\ k = i + 1 /\ i \in Nat
  BY <1>4
<1>9. Shapes'
  <2>1. MaxQueue # 0 => Len(queue') <= MaxQueue
    BY <1>4, WorkerServerAssumption DEF IInv, Shapes
  <2>. QED BY <1>3, <1>4, <2>1 DEF IInv, Shapes
<1>10. Threads'
  <2>1. (DOMAIN Idle)' = DOMAIN Idle
    BY DEF Idle
  <2>. QED BY <1>4, <1>5, <1>7, <2>1 DEF IInv, Threads
<1>11. Places'
  <2>1. \A i, j \in DOMAIN queue' : queue'[i] = queue'[j] => i = j
    BY <1>8 DEF IInv, Places
  <2>2. \A q, s \in Proc : thread'[q].req = thread'[s].req /\ thread'[q].req # None => q = s
    BY <1>5, <1>6, <1>7 DEF IInv, Places
  <2>3. \A i \in DOMAIN toWorker, j \in DOMAIN queue' : Id(toWorker[i]) # queue'[j]
    BY <1>8 DEF IInv, Places
  <2>4. \A q \in Proc : thread'[q].req \in {thread[q].req, r}
    BY <1>5, <1>7
  <2>5. \A i \in DOMAIN toWorker, q \in Proc : Id(toWorker[i]) # thread'[q].req
    BY <1>6, <2>4 DEF IInv, Places
  <2>6. \A j \in DOMAIN queue', q \in Proc : queue'[j] # thread'[q].req
    BY <1>6, <1>8, <2>4 DEF IInv, Places
  <2>. QED BY <1>3, <2>1, <2>2, <2>3, <2>5, <2>6 DEF IInv, Places
<1>12. Counts'
  <2>1. \A q : Waits(q) => Waits(q)'
    BY <1>3 DEF Waits
  <2>2. \A i \in DOMAIN queue' : \E q : q = queue'[i] /\ Waits(q)' /\ posts[q] = 0
    BY <1>8, <2>1 DEF IInv, Counts
  <2>3. \A q \in Proc : thread'[q].pc # "idle" =>
          \E s : /\ s = thread'[q].req /\ Waits(s)'
                 /\ thread'[q].pc # "answer" => posts[s] = 0
    BY <1>5, <1>6, <1>7, <2>1 DEF IInv, Counts
  <2>. QED BY <1>3, <2>1, <2>2, <2>3 DEF IInv, Counts, Waits
<1>13. Truths'
  <2>1. \A q \in Proc : thread'[q].pc = "answer" /\ thread'[q].ret = 0
                          => thread'[q].req \in accepted
    BY <1>5, <1>7 DEF IInv, Truths
  <2>. QED BY <1>3, <2>1 DEF IInv, Truths, HonestSuccess, Truthful
<1>. QED BY <1>9, <1>10, <1>11, <1>12, <1>13 DEF IInv

(* Once answered for, a request is nowhere any more.                       *)
LEMMA AnswerKeeps == ASSUME IInv, NEW p \in Proc, Answer(p) PROVE IInv'
<1>1. PICK r : r = thread[p].req
  OBVIOUS
<1>2. /\ UNCHANGED <<plugin, timer, edition, up, breaks, listed, asked, toWorker, held, told, queue,
                     posts, accepted>>
      /\ thread[p].pc = "answer" /\ thread' = [thread EXCEPT ![p] = Idle]
      /\ Respond(r, thread[p].ret, thread[p].info, thread[p].body)
  BY <1>1 DEF Answer, histVars
<1>3. r \in Req /\ r # None /\ asked[r] # None /\ replies[r] = 0
  BY <1>1, <1>2, WorkerServerAssumption DEF IInv, Threads, Counts, Waits
<1>4. /\ replies' = [replies EXCEPT ![r] = @ + 1] /\ foul' \in BOOLEAN
      /\ \E S : toRouter' \in Seq(S) /\ \A line \in S : Truthful(line.text)
  <2>1. thread[p].ret = 0 => r \in accepted
    BY <1>1, <1>2 DEF IInv, Truths
  <2>. QED BY <1>2, <1>3, <2>1, RespondEffect
<1>5. /\ DOMAIN thread' = Proc /\ \A q \in Proc : q # p => thread'[q] = thread[q]
      /\ thread'[p].pc = "idle" /\ thread'[p].req = None /\ DOMAIN thread'[p] = DOMAIN Idle
  BY <1>2 DEF IInv, Threads, Idle
<1>6. /\ \A q \in Req : q # r => replies'[q] = replies[q]
      /\ replies'[r] = 1
  BY <1>3, <1>4 DEF IInv, Shapes
<1>7. /\ \A i \in DOMAIN toWorker : Id(toWorker[i]) # r /\ Id(toWorker[i]) \in Req
      /\ \A i \in DOMAIN queue : queue[i] # r /\ queue[i] \in Req
      /\ \A q \in Proc : q # p => thread[q].req # r
  BY <1>1, <1>3, IdOfLine DEF IInv, Places, Shapes
<1>8. Shapes'
  <2>1. replies' \in [Req -> Nat]
    BY <1>3, <1>4 DEF IInv, Shapes
  <2>2. UNCHANGED <<plugin, timer, edition, up, breaks, listed, asked, toWorker, queue, posts,
                   accepted>>
    BY <1>2
  <2>. QED BY <1>4, <2>1, <2>2 DEF IInv, Shapes
<1>9. Threads'
  <2>1. (DOMAIN Idle)' = DOMAIN Idle
    BY DEF Idle
  <2>. QED BY <1>5, <2>1 DEF IInv, Threads, Pcs
<1>10. Places'
  <2>1. \A q \in Proc : thread'[q].req \in {thread[q].req, None}
    BY <1>5
  <2>2. \A q, s \in Proc : thread'[q].req = thread'[s].req /\ thread'[q].req # None => q = s
    BY <1>5 DEF IInv, Places
  <2>3. \A i \in DOMAIN toWorker : Id(toWorker[i]) # None
    BY <1>7, WorkerServerAssumption
  <2>4. \A j \in DOMAIN queue : queue[j] # None
    BY <1>7, WorkerServerAssumption
  <2>. QED BY <1>2, <2>1, <2>2, <2>3, <2>4 DEF IInv, Places
<1>11. Counts'
  <2>1. \A q \in Req : q # r /\ Waits(q) => Waits(q)'
    BY <1>2, <1>6 DEF Waits
  <2>2. \A i \in DOMAIN toWorker :
          \E q : q = Id(toWorker[i]) /\ Waits(q)' /\ posts[q] = 0
    BY <1>7, <2>1 DEF IInv, Counts
  <2>3. \A i \in DOMAIN queue : \E q : q = queue[i] /\ Waits(q)' /\ posts[q] = 0
    BY <1>7, <2>1 DEF IInv, Counts
  <2>4. \A q \in Proc : thread'[q].pc # "idle" =>
          \E s : /\ s = thread'[q].req /\ Waits(s)'
                 /\ thread'[q].pc # "answer" => posts[s] = 0
    BY <1>5, <1>7, <2>1 DEF IInv, Counts, Threads
  <2>5. \A q \in Req : replies'[q] <= 1 /\ (asked[q] = None => replies'[q] = 0)
    BY <1>3, <1>6 DEF IInv, Counts
  <2>. QED BY <1>2, <2>2, <2>3, <2>4, <2>5 DEF IInv, Counts
<1>12. Truths'
  <2>1. \A q \in Proc : thread'[q].pc = "answer" => thread'[q] = thread[q]
    BY <1>5
  <2>. QED BY <1>2, <1>4, <2>1, TruthsAfterRespond
<1>. QED BY <1>8, <1>9, <1>10, <1>11, <1>12 DEF IInv

LEMMA ProcessorKeeps == ASSUME IInv, NEW p \in Proc, Processor(p) PROVE IInv'
  BY TakeKeeps, LookUpKeeps, CallKeeps, AnswerKeeps DEF Processor

-----------------------------------------------------------------------------
(* The timer, the EQQ service, and all of it.                              *)

(* Neither touches a request or an answer.                                 *)
LEMMA TimerKeeps ==
  ASSUME IInv, FetchUsers \/ FillUsers \/ FetchGroups \/ FillGroups \/ Edit PROVE IInv'
<1>1. /\ UNCHANGED <<plugin, up, breaks, listed, foul, asked, toWorker, toRouter, held, told, queue,
                     thread, replies, posts, accepted>>
      /\ timer'.pc \in {"idle", "users", "half", "groups"}
      /\ edition' \in 1 .. Len(UserList)
  <2>1. CASE Edit
    BY <2>1, WorkerServerAssumption DEF Edit, wireVars, histVars, IInv, Shapes
  <2>2. CASE FetchUsers \/ FillUsers \/ FetchGroups \/ FillGroups
    BY <2>2 DEF FetchUsers, FillUsers, FetchGroups, FillGroups, Elsewhere, wireVars,
                histVars, IInv, Shapes
  <2>. QED BY <2>1, <2>2
<1>2. Shapes'
  BY <1>1 DEF IInv, Shapes
<1>3. Threads' /\ Places'
  BY <1>1 DEF IInv, Threads, Places
<1>4. Counts'
  BY <1>1 DEF IInv, Counts, Waits
<1>5. Truths'
  BY <1>1 DEF IInv, Truths, HonestSuccess, Truthful
<1>. QED BY <1>2, <1>3, <1>4, <1>5 DEF IInv

LEMMA NextIInv == IInv /\ [Next]_vars => IInv'
<1>. SUFFICES ASSUME IInv, [Next]_vars PROVE IInv'
  OBVIOUS
<1>1. CASE UNCHANGED vars
  <2>1. UNCHANGED <<plugin, timer, edition, up, breaks, listed, foul, asked, toWorker, toRouter,
                    held, told, queue, thread, replies, posts, accepted>>
    BY <1>1 DEF vars, wireVars, histVars
  <2>2. Shapes' /\ Threads' /\ Places'
    BY <2>1 DEF IInv, Shapes, Threads, Places
  <2>3. Counts' /\ Truths'
    BY <2>1 DEF IInv, Counts, Waits, Truths, HonestSuccess, Truthful
  <2>. QED BY <2>2, <2>3 DEF IInv
<1>2. CASE \E r \in Req : Forward(r)
  BY <1>2, ForwardKeeps
<1>3. CASE HandleInput \/ RouterReads \/ Break \/ Reconnect
  BY <1>3, HandleInputKeeps, RouterReadsKeeps, BreakKeeps
<1>4. CASE \E p \in Proc : Processor(p)
  BY <1>4, ProcessorKeeps
<1>5. CASE FetchUsers \/ FillUsers \/ FetchGroups \/ FillGroups \/ Edit
  BY <1>5, TimerKeeps
<1>. QED BY <1>1, <1>2, <1>3, <1>4, <1>5 DEF Next

LEMMA AlwaysIInv == Spec => []IInv
<1>. QED BY InitIInv, NextIInv, PTL DEF Spec

-----------------------------------------------------------------------------
(* The address book.                                                       *)

(* The least element of a set of numbers is one of them.                   *)
LEMMA LeastOf ==
  ASSUME NEW S, S \subseteq Nat, S # {}
  PROVE  Min(S) \in S
<1>1. PICK x \in S : \A y \in S : ~ (<<y, x>> \in OpToRel(<, Nat))
  BY NatLessThanWellFounded, WFMin
<1>2. \A a, b \in Nat : a < b => <<a, b>> \in OpToRel(<, Nat)
  BY DEF OpToRel
<1>3. \A y \in S : ~(y < x)
  BY <1>1, <1>2, Zenon
<1>4. \A y \in S : x <= y
  BY <1>3
<1>. QED BY <1>4 DEF Min

(* An item more takes nothing out of a map and changes nothing in it.      *)
LEMMA ItemsOnlyAdd ==
  ASSUME NEW map, NEW items, NEW name, NEW id, NEW new, new = AddItems(map, items, name, id)
  PROVE  /\ DOMAIN map \subseteq DOMAIN new
         /\ \A n \in DOMAIN map : new[n] = map[n]
<1>. DEFINE complete == {i \in DOMAIN items : HasAll(items[i], {id, name})}
            Of(n)    == {i \in complete : Get(items[i], name).val = n}
            names    == {Get(items[i], name).val : i \in complete}
<1>1. new = [n \in DOMAIN map \cup names |->
               IF n \in DOMAIN map THEN map[n] ELSE Get(items[Min(Of(n))], id).val]
  BY DEF AddItems
<1>. HIDE DEF complete
<1>. QED BY <1>1

(* What is new in it is what some item says.                               *)
LEMMA NewIsSaid ==
  ASSUME NEW map, NEW items, DOMAIN items \subseteq Nat, NEW name, NEW id,
         NEW new, new = AddItems(map, items, name, id), NEW n \in DOMAIN new \ DOMAIN map
  PROVE  Says(items, name, id, n, new[n])
<1>. DEFINE complete == {i \in DOMAIN items : HasAll(items[i], {id, name})}
            Of(x)    == {i \in complete : Get(items[i], name).val = x}
            names    == {Get(items[i], name).val : i \in complete}
<1>1. new = [x \in DOMAIN map \cup names |->
               IF x \in DOMAIN map THEN map[x] ELSE Get(items[Min(Of(x))], id).val]
  BY DEF AddItems
<1>. HIDE DEF complete
<1>2. n \in names /\ new[n] = Get(items[Min(Of(n))], id).val
  BY <1>1
<1>3. Of(n) # {} /\ Of(n) \subseteq Nat
  BY <1>2 DEF complete
<1>4. Min(Of(n)) \in Of(n)
  <2>. HIDE DEF Of
  <2>. QED BY <1>3, LeastOf
<1>5. /\ items[Min(Of(n))] \in Range(items)
      /\ Get(items[Min(Of(n))], name).val = n
      /\ HasAll(items[Min(Of(n))], {id, name})
  BY <1>4 DEF complete, Range
<1>. QED BY <1>2, <1>5 DEF Says

(* What an answer of the service makes of a map.                           *)
LEMMA AnswersOnlyAdd ==
  ASSUME NEW rsp, NEW map, NEW name, NEW id, NEW new, new = GetList(rsp, map, name, id).map
  PROVE  /\ DOMAIN map \subseteq DOMAIN new
         /\ new = map \/ /\ Has(rsp, "ret") /\ Get(rsp, "ret").val = 0 /\ HasItems(rsp)
                         /\ new = AddItems(map, Items(rsp), name, id)
<1>1. \/ new = map
      \/ /\ Has(rsp, "ret") /\ Get(rsp, "ret").val = 0 /\ HasItems(rsp)
         /\ new = AddItems(map, Items(rsp), name, id)
  BY DEF GetList
<1>2. DOMAIN map \subseteq DOMAIN new
  BY <1>1, ItemsOnlyAdd
<1>. QED BY <1>1, <1>2

(* The book holds only what the lists say.                                 *)
Given(map)      == \A a \in DOMAIN map : GivenFor(a, map[a])
DeptsGiven(map) == \A d \in DOMAIN map : DeptGivenFor(d, map[d])

LEMMA AnswersAreSaid ==
  ASSUME NEW list, HasItems(list) => DOMAIN Items(list) \subseteq Nat,
         NEW rsp \in Fetched(list), NEW map, NEW name, NEW id,
         NEW new, new = GetList(rsp, map, name, id).map,
         NEW n \in DOMAIN new
  PROVE  (n \in DOMAIN map /\ new[n] = map[n]) \/ Says(Items(list), name, id, n, new[n])
<1>1. \/ new = map
      \/ /\ Has(rsp, "ret") /\ Get(rsp, "ret").val = 0 /\ HasItems(rsp)
         /\ new = AddItems(map, Items(rsp), name, id)
  BY AnswersOnlyAdd
<1>2. CASE new = map
  BY <1>2
<1>3. CASE /\ Has(rsp, "ret") /\ Get(rsp, "ret").val = 0 /\ HasItems(rsp)
           /\ new = AddItems(map, Items(rsp), name, id)
  <2>1. rsp = list
    <3>1. Get(Obj([ret |-> Int32(-5)]), "ret").val # 0
      BY DEF Get, Obj, Int32
    <3>. QED BY <1>3, <3>1 DEF Fetched
  <2>2. CASE n \in DOMAIN map
    BY <1>3, <2>2, ItemsOnlyAdd
  <2>3. CASE n \notin DOMAIN map
    BY <1>3, <2>1, <2>3, NewIsSaid
  <2>. QED BY <2>2, <2>3
<1>. QED BY <1>1, <1>2, <1>3

LEMMA AnswersAreGiven ==
  ASSUME NEW n \in 1 .. Len(UserList), NEW rsp \in Fetched(UserList[n]),
         NEW map, Given(map)
  PROVE  Given(GetOpenidList(rsp, map).map)
<1>1. PICK new : new = GetList(rsp, map, "account", "open_id").map
  OBVIOUS
<1>2. HasItems(UserList[n]) => DOMAIN Items(UserList[n]) \subseteq Nat
  BY WorkerServerAssumption
<1>3. \A a \in DOMAIN new : \/ a \in DOMAIN map /\ new[a] = map[a]
                            \/ Says(Items(UserList[n]), "account", "open_id", a, new[a])
  BY <1>1, <1>2, AnswersAreSaid
<1>. QED BY <1>1, <1>3 DEF Given, GivenFor, GetOpenidList

LEMMA DeptAnswersAreGiven ==
  ASSUME NEW rsp \in Fetched(GroupList), NEW map, DeptsGiven(map)
  PROVE  DeptsGiven(GetEqqGroupList(rsp, map).map)
<1>1. PICK new : new = GetList(rsp, map, "dept_name", "dept_id").map
  OBVIOUS
<1>2. HasItems(GroupList) => DOMAIN Items(GroupList) \subseteq Nat
  BY WorkerServerAssumption
<1>3. \A d \in DOMAIN new : \/ d \in DOMAIN map /\ new[d] = map[d]
                            \/ Says(Items(GroupList), "dept_name", "dept_id", d, new[d])
  BY <1>1, <1>2, AnswersAreSaid
<1>. QED BY <1>1, <1>3 DEF DeptsGiven, DeptGivenFor, GetEqqGroupList

(* The operators of the book are those of the process.                     *)
LEMMA BookReads ==
  ASSUME NEW rsp, NEW map, NEW names
  PROVE  /\ Book!GetOpenidList(rsp, map) = GetOpenidList(rsp, map)
         /\ Book!GetEqqGroupList(rsp, map) = GetEqqGroupList(rsp, map)
         /\ Book!Known(map, names) = {map[n] : n \in Range(names) \cap DOMAIN map}
<1>1. ASSUME NEW items, NEW name, NEW id
      PROVE  Book!AddItems(map, items, name, id) = AddItems(map, items, name, id)
  BY DEF Book!AddItems, AddItems, Book!HasAll, HasAll, Book!Has, Has, Book!Get, Get,
         Book!Min, Min
<1>2. ASSUME NEW name, NEW id
      PROVE  Book!GetList(rsp, map, name, id) = GetList(rsp, map, name, id)
  BY <1>1 DEF Book!GetList, GetList, Book!HasItems, HasItems, Book!Items, Items,
              Book!Has, Has, Book!Get, Get
<1>3. Book!Known(map, names) = {map[n] : n \in Range(names) \cap DOMAIN map}
  BY DEF Book!Known, Book!Range, Range
<1>. QED BY <1>2, <1>3 DEF Book!GetOpenidList, GetOpenidList,
                           Book!GetEqqGroupList, GetEqqGroupList

(* What is under way into the book came from the service, and what was     *)
(* read from the book stands for names of the request.                     *)
GivenTo(m, r, id)     == \E a \in Range(Notification[m][r].receiver) : GivenFor(a, id)
DeptGivenTo(m, r, id) == \E d \in Range(Notification[m][r].groups) : DeptGivenFor(d, id)

Addressed(p) ==
  /\ \A id \in thread[p].users : GivenTo(asked[thread[p].req], thread[p].req, id)
  /\ \A id \in thread[p].depts : DeptGivenTo(asked[thread[p].req], thread[p].req, id)

Looking == {"users", "depts", "post"}

Addresses ==
  /\ Given(openid) /\ DeptsGiven(eqq_group_id)
  /\ timer.pc = "users" => \E n \in 1 .. Len(UserList) : timer.rsp \in Fetched(UserList[n])
  /\ timer.pc = "groups" => timer.rsp \in Fetched(GroupList)
  /\ \A p \in Proc : thread[p].pc \in Looking => Addressed(p)

LEMMA InitAddresses == Init => Addresses
<1>. SUFFICES ASSUME Init PROVE Addresses
  OBVIOUS
<1>1. Given(<< >>) /\ DeptsGiven(<< >>)
  <2>1. DOMAIN << >> = {}
    OBVIOUS
  <2>. QED BY <2>1 DEF Given, DeptsGiven
<1>2. Given(openid) /\ DeptsGiven(eqq_group_id)
  <2>1. CASE openid = << >> /\ eqq_group_id = << >>
    BY <1>1, <2>1
  <2>2. CASE Book!Init(UserList[1], GroupList)
    <3>1. /\ openid = GetOpenidList(UserList[1], << >>).map
          /\ eqq_group_id = GetEqqGroupList(GroupList, << >>).map
      BY <2>2, BookReads DEF Book!Init
    <3>2. /\ 1 \in 1 .. Len(UserList) /\ UserList[1] \in Fetched(UserList[1])
          /\ GroupList \in Fetched(GroupList)
      BY WorkerServerAssumption DEF Fetched
    <3>. QED BY <1>1, <3>1, <3>2, AnswersAreGiven, DeptAnswersAreGiven
  <2>. QED BY <2>1, <2>2 DEF Init, Book!Unused
<1>3. timer.pc = "idle" /\ \A p \in Proc : thread[p].pc = "idle"
  BY DEF Init, Idle
<1>. QED BY <1>2, <1>3 DEF Addresses, Looking

(* A processor that is at work on what it has read goes on with it.        *)
LEMMA AddressedStays ==
  ASSUME IInv, NEW p \in Proc, Addressed(p), thread[p].pc # "idle",
         thread'[p].req = thread[p].req, thread'[p].users = thread[p].users,
         thread'[p].depts = thread[p].depts,
         \A r \in Req : asked[r] # None => asked'[r] = asked[r]
  PROVE  Addressed(p)'
<1>1. asked'[thread[p].req] = asked[thread[p].req]
  BY DEF IInv, Threads, Counts, Waits
<1>. QED BY <1>1 DEF Addressed

(* Where the processors are not concerned.                                 *)
LEMMA AddressesElsewhere ==
  ASSUME IInv, Addresses, UNCHANGED <<openid, eqq_group_id, timer, thread>>,
         \A r \in Req : asked[r] # None => asked'[r] = asked[r]
  PROVE  Addresses'
<1>1. \A p \in Proc : thread[p].pc \in Looking => Addressed(p)'
  BY AddressedStays DEF Addresses, Looking
<1>. QED BY <1>1 DEF Addresses, Looking, Given, GivenFor, DeptsGiven, DeptGivenFor

(* What a processor does for the others.                                   *)
LEMMA AddressesOfOne ==
  ASSUME IInv, Addresses, UNCHANGED <<openid, eqq_group_id, timer, asked>>, NEW p \in Proc,
         \A q \in Proc : q # p => thread'[q] = thread[q],
         thread'[p].pc \in Looking => Addressed(p)'
  PROVE  Addresses'
<1>1. ASSUME NEW q \in Proc, q # p, thread'[q].pc \in Looking PROVE Addressed(q)'
  <2>1. thread'[q] = thread[q]
    BY <1>1
  <2>. QED BY <1>1, <2>1, AddressedStays DEF Addresses, Looking
<1>2. \A q \in Proc : thread'[q].pc \in Looking => Addressed(q)'
  BY <1>1
<1>. QED BY <1>2 DEF Addresses, Given, GivenFor, DeptsGiven, DeptGivenFor

(* A request that is being forwarded is nowhere yet.                       *)
LEMMA WiresKeepAddresses ==
  ASSUME IInv, Addresses,
         \/ \E r \in Req : Forward(r)
         \/ HandleInput \/ RouterReads \/ Break \/ Reconnect
  PROVE  Addresses'
<1>1. CASE \E r \in Req : Forward(r)
  <2>1. PICK r \in Req : Forward(r)
    BY <1>1
  <2>2. UNCHANGED <<openid, eqq_group_id, timer, thread>> /\ asked[r] = None
    BY <2>1 DEF Forward, bookVars
  <2>3. \A q \in Req : q # r => asked'[q] = asked[q]
    BY <2>1 DEF Forward, IInv, Shapes
  <2>. QED BY <2>2, <2>3, AddressesElsewhere
<1>2. CASE HandleInput \/ RouterReads \/ Break \/ Reconnect
  <2>1. UNCHANGED <<openid, eqq_group_id, timer, thread, asked>>
    BY <1>2 DEF HandleInput, RouterReads, Break, Reconnect, bookVars
  <2>. QED BY <2>1, AddressesElsewhere
<1>. QED BY <1>1, <1>2

(* The service looks only where nobody has been looked up yet.             *)
LEMMA FreshThread ==
  ASSUME NEW r
  PROVE  \A t \in {Dispatch(r), Notify(r)} : t.users = {} /\ t.depts = {}
<1>1. ASSUME NEW ret, NEW info, NEW body
      PROVE  Done(r, ret, info, body).users = {} /\ Done(r, ret, info, body).depts = {}
  BY DEF Done, Idle
<1>2. ASSUME NEW pc
      PROVE  /\ Doing(r, pc).users = {} /\ Doing(r, pc).depts = {}
             /\ \A info : /\ [Doing(r, pc) EXCEPT !.info = info].users = {}
                          /\ [Doing(r, pc) EXCEPT !.info = info].depts = {}
  BY DEF Doing, Idle
<1>3. Dispatch(r).users = {} /\ Dispatch(r).depts = {}
  BY <1>1, <1>2 DEF Dispatch
<1>4. Notify(r).users = {} /\ Notify(r).depts = {}
  <2>1. CASE Wanted(r).ret # 0
    BY <1>1, <2>1 DEF Notify
  <2>2. CASE Wanted(r).ret = 0 /\ Wanted(r).cmd \notin plugin.ways
    BY <1>1, <2>2 DEF Notify
  <2>3. CASE Wanted(r).ret = 0 /\ Wanted(r).cmd \in plugin.ways
    BY <1>2, <2>3 DEF Notify
  <2>. QED BY <2>1, <2>2, <2>3
<1>. QED BY <1>3, <1>4

LEMMA TakeKeepsAddresses == ASSUME IInv, Addresses, NEW p \in Proc, Take(p) PROVE Addresses'
<1>1. PICK r : r = Head(queue)
  OBVIOUS
<1>2. /\ UNCHANGED <<openid, eqq_group_id, timer, asked>>
      /\ thread' = [thread EXCEPT ![p] = IF plugin.service = "standard"
                                         THEN Dispatch(r) ELSE Notify(r)]
  BY <1>1 DEF Take, bookVars
<1>3. /\ \A q \in Proc : q # p => thread'[q] = thread[q]
      /\ thread'[p].users = {} /\ thread'[p].depts = {}
  BY <1>2, FreshThread DEF IInv, Threads
<1>4. Addressed(p)'
  BY <1>3 DEF Addressed
<1>. QED BY <1>2, <1>3, <1>4, AddressesOfOne

(* An id that the book has for a name of the request was given for it.     *)
LEMMA LookUpKeepsAddresses ==
  ASSUME IInv, Addresses, NEW p \in Proc, LookUpUsers(p) \/ LookUpDepts(p) PROVE Addresses'
<1>0. /\ DOMAIN thread = Proc
      /\ DOMAIN thread[p] = {"pc", "req", "users", "depts", "ret", "info", "body"}
  BY DEF IInv, Threads, Idle
<1>1. /\ UNCHANGED <<openid, eqq_group_id, timer, asked>>
      /\ \A q \in Proc : q # p => thread'[q] = thread[q]
      /\ thread'[p].req = thread[p].req /\ Addressed(p)
  <2>1. CASE LookUpUsers(p)
    BY <1>0, <2>1 DEF LookUpUsers, Quietly, bookVars, Addresses, Looking
  <2>2. CASE LookUpDepts(p)
    BY <1>0, <2>2 DEF LookUpDepts, Quietly, bookVars, Addresses, Looking
  <2>. QED BY <2>1, <2>2
<1>2. Addressed(p)'
  <2>1. CASE LookUpUsers(p)
    <3>1. /\ thread'[p].users = Book!Known(openid, Wanted(thread[p].req).receiver)
          /\ thread'[p].depts = thread[p].depts
      BY <1>0, <2>1 DEF LookUpUsers, Book!Recipients
    <3>2. ASSUME NEW id \in thread'[p].users
          PROVE  GivenTo(asked[thread[p].req], thread[p].req, id)
      <4>0. PICK names : names = Wanted(thread[p].req).receiver
        OBVIOUS
      <4>1. thread'[p].users = {openid[n] : n \in Range(names) \cap DOMAIN openid}
        BY <3>1, <4>0, BookReads, Zenon
      <4>2. PICK a \in Range(names) \cap DOMAIN openid : id = openid[a]
        BY <4>1
      <4>3. GivenFor(a, id)
        BY <4>2 DEF Addresses, Given
      <4>. QED BY <4>0, <4>2, <4>3 DEF GivenTo, Wanted
    <3>. QED BY <1>1, <3>1, <3>2 DEF Addressed, GivenTo, DeptGivenTo, GivenFor, DeptGivenFor
  <2>2. CASE LookUpDepts(p)
    <3>1. /\ thread'[p].depts = Book!Known(eqq_group_id, Wanted(thread[p].req).groups)
          /\ thread'[p].users = thread[p].users
      BY <1>0, <2>2 DEF LookUpDepts, Book!Departments
    <3>2. ASSUME NEW id \in thread'[p].depts
          PROVE  DeptGivenTo(asked[thread[p].req], thread[p].req, id)
      <4>0. PICK names : names = Wanted(thread[p].req).groups
        OBVIOUS
      <4>1. thread'[p].depts = {eqq_group_id[n] : n \in Range(names) \cap DOMAIN eqq_group_id}
        BY <3>1, <4>0, BookReads, Zenon
      <4>2. PICK d \in Range(names) \cap DOMAIN eqq_group_id : id = eqq_group_id[d]
        BY <4>1
      <4>3. DeptGivenFor(d, id)
        BY <4>2 DEF Addresses, DeptsGiven
      <4>. QED BY <4>0, <4>2, <4>3 DEF DeptGivenTo, Wanted
    <3>. QED BY <1>1, <3>1, <3>2 DEF Addressed, GivenTo, DeptGivenTo, GivenFor, DeptGivenFor
  <2>. QED BY <2>1, <2>2
<1>. QED BY <1>1, <1>2, AddressesOfOne

(* Whoever has called outside, or has answered, posts no more.             *)
LEMMA CallKeepsAddresses ==
  ASSUME IInv, Addresses, NEW p \in Proc,
         SendBroadcast(p) \/ SendMail(p) \/ HttpGet(p) \/ Answer(p)
  PROVE  Addresses'
<1>1. UNCHANGED <<openid, eqq_group_id, timer, asked>>
  BY DEF SendBroadcast, SendMail, HttpGet, Answer, Quietly, bookVars
<1>2. /\ \A q \in Proc : q # p => thread'[q] = thread[q]
      /\ thread'[p].pc \in {"answer", "idle"}
  <2>1. CASE Answer(p)
    BY <2>1 DEF Answer, Idle, IInv, Threads
  <2>2. CASE SendBroadcast(p) \/ SendMail(p) \/ HttpGet(p)
    <3>1. \E ret, info, body : Outcome(p, ret, info, body)
      BY <2>2 DEF SendBroadcast, SendMail, HttpGet
    <3>. QED BY <3>1, OutcomeEffect
  <2>. QED BY <2>1, <2>2
<1>. QED BY <1>1, <1>2, AddressesOfOne DEF Looking

(* The timer fills in what it has fetched from some edition.               *)
LEMMA TimerKeepsAddresses ==
  ASSUME IInv, Addresses, FetchUsers \/ FillUsers \/ FetchGroups \/ FillGroups \/ Edit
  PROVE  Addresses'
<1>1. UNCHANGED <<thread, asked>>
  BY DEF FetchUsers, FillUsers, FetchGroups, FillGroups, Edit, Elsewhere
<1>2. \A p \in Proc : thread'[p].pc \in Looking => Addressed(p)'
  BY <1>1, AddressedStays DEF Addresses, Looking
<1>3. Given(openid') /\ DeptsGiven(eqq_group_id')
  <2>1. CASE FillUsers
    <3>1. /\ openid' = GetOpenidList(timer.rsp, openid).map /\ timer.pc = "users"
          /\ eqq_group_id' = eqq_group_id
      BY <2>1, BookReads DEF FillUsers, Book!UpdateOpenid
    <3>. QED BY <3>1, AnswersAreGiven DEF Addresses
  <2>2. CASE FillGroups
    <3>1. /\ eqq_group_id' = GetEqqGroupList(timer.rsp, eqq_group_id).map
          /\ openid' = openid /\ timer.pc = "groups"
      BY <2>2, BookReads DEF FillGroups, Book!UpdateGroups
    <3>. QED BY <3>1, DeptAnswersAreGiven DEF Addresses
  <2>3. CASE FetchUsers \/ FetchGroups \/ Edit
    <3>1. UNCHANGED <<openid, eqq_group_id>>
      BY <2>3 DEF FetchUsers, FetchGroups, Edit, bookVars
    <3>. QED BY <3>1 DEF Addresses
  <2>. QED BY <2>1, <2>2, <2>3
<1>4. /\ timer'.pc = "users" => \E n \in 1 .. Len(UserList) : timer'.rsp \in Fetched(UserList[n])
      /\ timer'.pc = "groups" => timer'.rsp \in Fetched(GroupList)
  <2>1. CASE FetchUsers
    <3>1. CASE timer' = [pc |-> "half", rsp |-> NotJson]
      BY <3>1
    <3>2. CASE \E rsp \in Fetched(UserList[edition]) : timer' = [pc |-> "users", rsp |-> rsp]
      <4>1. PICK rsp \in Fetched(UserList[edition]) : timer' = [pc |-> "users", rsp |-> rsp]
        BY <3>2
      <4>2. timer'.pc = "users" /\ timer'.rsp \in Fetched(UserList[edition])
        BY <4>1
      <4>. QED BY <4>2 DEF IInv, Shapes
    <3>. QED BY <2>1, <3>1, <3>2 DEF FetchUsers
  <2>2. CASE FetchGroups
    BY <2>2 DEF FetchGroups
  <2>3. CASE FillUsers \/ FillGroups
    BY <2>3 DEF FillUsers, FillGroups
  <2>4. CASE Edit
    BY <2>4 DEF Edit, Addresses
  <2>. QED BY <2>1, <2>2, <2>3, <2>4
<1>5. (Given(openid) /\ DeptsGiven(eqq_group_id))'
  BY <1>3 DEF Given, DeptsGiven, GivenFor, DeptGivenFor
<1>. QED BY <1>2, <1>4, <1>5 DEF Addresses

LEMMA NextAddresses == IInv /\ Addresses /\ [Next]_vars => Addresses'
<1>. SUFFICES ASSUME IInv, Addresses, [Next]_vars PROVE Addresses'
  OBVIOUS
<1>1. CASE UNCHANGED vars
  <2>1. UNCHANGED <<openid, eqq_group_id, timer, thread, asked>>
    BY <1>1 DEF vars, bookVars
  <2>. QED BY <2>1, AddressesElsewhere
<1>2. CASE \/ \E r \in Req : Forward(r)
           \/ HandleInput \/ RouterReads \/ Break \/ Reconnect
  BY <1>2, WiresKeepAddresses
<1>3. CASE \E p \in Proc : Processor(p)
  BY <1>3, TakeKeepsAddresses, LookUpKeepsAddresses, CallKeepsAddresses DEF Processor
<1>4. CASE FetchUsers \/ FillUsers \/ FetchGroups \/ FillGroups \/ Edit
  BY <1>4, TimerKeepsAddresses
<1>. QED BY <1>1, <1>2, <1>3, <1>4 DEF Next

-----------------------------------------------------------------------------
(* The results.                                                            *)

(* Every variable of a worker at work holds a value of its type, and the   *)
(* queue keeps its bound.                                                  *)
THEOREM ServerTyped == Spec => []TypeOK
<1>1. IInv => TypeOK
  <2>. SUFFICES ASSUME IInv PROVE TypeOK
    OBVIOUS
  <2>1. Range(queue) \subseteq {r \in Req : asked[r] # None}
    BY DEF Range, IInv, Shapes, Counts, Waits
  <2>. QED BY <2>1 DEF IInv, Shapes, Threads, Pcs, TypeOK
<1>. QED BY <1>1, AlwaysIInv, PTL

(* Success that the router can pass on is success of the service outside.  *)
THEOREM SuccessIsHonest == Spec => []HonestSuccess
<1>1. IInv => HonestSuccess
  BY DEF IInv, Truths
<1>. QED BY <1>1, AlwaysIInv, PTL

(* No request is answered for twice, and none is posted twice.             *)
THEOREM AnsweredOnce == Spec => []OncePerRequest
<1>1. IInv => OncePerRequest
  BY DEF IInv, Counts, OncePerRequest
<1>. QED BY <1>1, AlwaysIInv, PTL

(* A broadcast goes to nobody but the users and the departments that its   *)
(* request names, under the ids that the service gave for their names,     *)
(* whatever the timer does in between.                                     *)
THEOREM NobodyElse == Spec => []NoStrangers
<1>1. IInv /\ Addresses /\ [Next]_vars => (IInv /\ Addresses)'
  BY NextIInv, NextAddresses
<1>2. Init => IInv /\ Addresses
  BY InitIInv, InitAddresses
<1>3. Addresses => NoStrangers
  BY DEF Addresses, Looking, Addressed, GivenTo, DeptGivenTo, NoStrangers, Wanted
<1>. QED BY <1>1, <1>2, <1>3, PTL DEF Spec

(* No answer of the service, whole, partial or refusing, takes anybody out *)
(* of the book.                                                            *)
THEOREM NobodyForgotten == Spec => KnownStaysKnown
<1>1. [Next]_vars => [DOMAIN openid \subseteq DOMAIN openid'
                      /\ DOMAIN eqq_group_id \subseteq DOMAIN eqq_group_id']_vars
  <2>. SUFFICES ASSUME Next
                PROVE  /\ DOMAIN openid \subseteq DOMAIN openid'
                       /\ DOMAIN eqq_group_id \subseteq DOMAIN eqq_group_id'
    OBVIOUS
  <2>1. CASE FillUsers
    <3>1. openid' = GetOpenidList(timer.rsp, openid).map /\ eqq_group_id' = eqq_group_id
      BY <2>1, BookReads DEF FillUsers, Book!UpdateOpenid
    <3>. QED BY <3>1, AnswersOnlyAdd DEF GetOpenidList
  <2>2. CASE FillGroups
    <3>1. eqq_group_id' = GetEqqGroupList(timer.rsp, eqq_group_id).map /\ openid' = openid
      BY <2>2, BookReads DEF FillGroups, Book!UpdateGroups
    <3>. QED BY <3>1, AnswersOnlyAdd DEF GetEqqGroupList
  <2>3. CASE ~FillUsers /\ ~FillGroups
    <3>1. UNCHANGED <<openid, eqq_group_id>>
      BY <2>3 DEF Next, Forward, HandleInput, RouterReads, Break, Reconnect, Processor, Take,
                  LookUpUsers, LookUpDepts, SendBroadcast, SendMail, HttpGet, Answer,
                  Quietly, FetchUsers, FetchGroups, Edit, bookVars
    <3>. QED BY <3>1
  <2>. QED BY <2>1, <2>2, <2>3
<1>. QED BY <1>1, PTL DEF Spec, KnownStaysKnown
=============================================================================
