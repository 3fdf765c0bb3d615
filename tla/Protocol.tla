------------------------------ MODULE Protocol ------------------------------
(***************************************************************************)
(* The messages of libcomm/protocol.cpp: JSON texts of one line each, with *)
(* a head and mostly a body.  A text is the tree that json-c makes of it,  *)
(* or NotJson; an object is a map from the keys that are there.  Names and *)
(* words are values with a length and the property that they can stand     *)
(* between quotes in a line as they are: the code prints answers with      *)
(* snprintf into buffers of fixed size and escapes nothing.                *)
(*                                                                         *)
(* What only travels along or is only logged (time, channel, peer) is left *)
(* out, and so is get_rsp_staus, which nobody calls.                       *)
(***************************************************************************)
EXTENDS Integers, SequencesExt, StdMaps

CONSTANTS Size(_),   \* the length of a word
          Clean(_),  \* it holds no quote and no newline; as a body: it is JSON
          ShortBuf,  \* the buffer of a message without body
          LongBuf    \* the buffer of an answer with a body

Obj(fields) == [type |-> "object", val |-> fields]
Str(word)   == [type |-> "string", val |-> word]
Arr(items)  == [type |-> "array", val |-> items]
Int32(n)    == [type |-> "int", val |-> n]
NotJson     == [type |-> "error", val |-> << >>]

CMD_HB         == "dip_hb"
CMD_REGISTER   == "dip_register"
CMD_UNREGISTER == "dip_unregister"

-----------------------------------------------------------------------------
(* Reading.                                                                *)

(* json_object_object_get_ex; a text that does not parse has no key.       *)
Has(o, key)          == o.type = "object" /\ key \in DOMAIN o.val
HasAll(o, keys)      == \A key \in keys : Has(o, key)
Get(o, key)          == o.val[key]
GetOr(o, key, other) == IF Has(o, key) THEN Get(o, key).val ELSE other

Failed == [ret |-> -1]

GetReqHead(req) ==
  IF Has(req, "head") /\ HasAll(Get(req, "head"), {"cmd", "service_id"})
  THEN LET head == Get(req, "head")
       IN  [ret |-> 0, cmd |-> Get(head, "cmd").val,
            req_id |-> GetOr(head, "req_id", ""),
            service_id |-> Get(head, "service_id").val]
  ELSE Failed

GetAdminHead(req) ==
  IF Has(req, "head") /\ HasAll(Get(req, "head"), {"cmd", "msg_id"})
  THEN LET head == Get(req, "head")
       IN  [ret |-> 0, cmd |-> Get(head, "cmd").val,
            msg_id |-> Get(head, "msg_id").val,
            req_id |-> GetOr(head, "req_id", ""),
            err |-> GetOr(head, "err", 0)]
  ELSE Failed

GetWorkerInfo(req) ==
  IF /\ Has(req, "body")
     /\ HasAll(Get(req, "body"), {"id", "group_id", "service_id", "server_id", "cmd"})
  THEN LET body == Get(req, "body")
       IN  [ret |-> 0, id |-> Get(body, "id").val, group_id |-> Get(body, "group_id").val]
  ELSE Failed

GetBody(req) ==
  IF Has(req, "head") /\ Has(Get(req, "head"), "cmd") /\ Has(req, "body")
  THEN [ret |-> 0, cmd |-> Get(Get(req, "head"), "cmd").val, body |-> Get(req, "body").val]
  ELSE Failed

(* A notification.  Every failure leaves its reason in err_msg, and so     *)
(* does a list that is there and empty, which is no failure by itself.     *)
Refused(ret, why) == [ret |-> ret, info |-> why]

ListIsBad(body, key) ==
  Has(body, key) /\ (\/ Get(body, key).type # "array"
                     \/ \E one \in Range(Get(body, key).val) : one.type # "string")
NamesIn(body, key) ==
  IF Has(body, key) THEN [n \in DOMAIN Get(body, key).val |-> Get(body, key).val[n].val]
  ELSE << >>
EmptyLists(body) ==
  {key \in {"receiver", "group", "CC"} : Has(body, key) /\ NamesIn(body, key) = << >>}

BodyIsBad(body) ==
  \/ Get(body, "title").type # "string"
  \/ \E key \in {"content", "sender"} : Has(body, key) /\ Get(body, key).type # "string"
  \/ \E key \in {"receiver", "group", "CC"} : ListIsBad(body, key)

NobodyNamed(cmd, body) ==
  /\ NamesIn(body, "receiver") = << >>
  /\ cmd = "notification_EQQ" => NamesIn(body, "group") = << >>

ReadNotification(cmd, body) ==
  IF ~Has(body, "title") THEN Refused(-1, "no title")
  ELSE IF BodyIsBad(body) THEN Refused(-2, "wrong type")
  ELSE IF NobodyNamed(cmd, body) THEN Refused(-1, "invalid receiver")
  ELSE [ret |-> 0, cmd |-> cmd,
        receiver |-> NamesIn(body, "receiver"), groups |-> NamesIn(body, "group"),
        info |-> IF EmptyLists(body) = {} THEN "" ELSE "empty list"]

GetNotification(req) ==
  LET whole == GetBody(req) IN
  IF whole.ret # 0 THEN Refused(-1, "incomplete")
  ELSE IF whole.cmd \notin {"notification_EQQ", "notification_mail"}
  THEN Refused(-1, "bad cmd")
  ELSE ReadNotification(whole.cmd, Get(req, "body"))

-----------------------------------------------------------------------------
(* What the EQQ service sends.                                             *)

(* The items that have both keys are put into the map one by one, and with *)
(* std::map::insert: a key that is there keeps its value, so that of the   *)
(* items with one name the first counts.                                   *)
AddItems(map, items, name, id) ==
  LET Name(i)  == Get(items[i], name).val
      complete == {i \in DOMAIN items : HasAll(items[i], {id, name})}
      First(n) == Min({i \in complete : Name(i) = n})
  IN  [n \in DOMAIN map \cup {Name(i) : i \in complete} |->
         IF n \in DOMAIN map THEN map[n] ELSE Get(items[First(n)], id).val]

HasItems(rsp) == Has(rsp, "data") /\ Has(Get(rsp, "data"), "items")
Items(rsp)    == Get(Get(rsp, "data"), "items").val

GetList(rsp, map, name, id) ==
  IF ~Has(rsp, "ret") THEN [ret |-> -1, map |-> map]
  ELSE IF Get(rsp, "ret").val # 0 THEN [ret |-> Get(rsp, "ret").val, map |-> map]
  ELSE IF ~HasItems(rsp)
  THEN [ret |-> -1, map |-> map]
  ELSE LET new == AddItems(map, Items(rsp), name, id)
       IN  [ret |-> IF DOMAIN new = {} THEN -1 ELSE 0, map |-> new]

GetOpenidList(rsp, map)   == GetList(rsp, map, "account", "open_id")
GetEqqGroupList(rsp, map) == GetList(rsp, map, "dept_name", "dept_id")

(* The reason is that of the service, if it gives one.                     *)
GetEqqRspStatus(rsp, info) ==
  IF ~Has(rsp, "ret") THEN [ret |-> -1, info |-> info]
  ELSE [ret |-> Get(rsp, "ret").val, info |-> GetOr(rsp, "msg", info)]

-----------------------------------------------------------------------------
(* Writing.                                                                *)

(* snprintf into a buffer: of a text and its newline, buffer - 1           *)
(* characters stay.  Without its last brace it is no JSON any more.        *)
Printed(text, size, clean, buffer) ==
  [text    |-> IF clean /\ size < buffer THEN text ELSE NotJson,
   newline |-> size + 1 < buffer]

HeadOnly(fields) == Obj([head |-> Obj(fields)])

SetHb(msg_id) ==
  Printed(HeadOnly([cmd |-> Str(CMD_HB), msg_id |-> Str(msg_id)]),
          Size(CMD_HB) + Size(msg_id), Clean(msg_id), ShortBuf)

SetRegister(msg_id, id, group_id, service_id, server_id, cmd) ==
  Printed(Obj([head |-> Obj([cmd |-> Str(CMD_REGISTER), msg_id |-> Str(msg_id)]),
               body |-> Obj([id |-> Str(id), group_id |-> Str(group_id),
                             service_id |-> Str(service_id),
                             server_id |-> Str(server_id), cmd |-> Str(cmd)])]),
          Size(CMD_REGISTER) + Size(msg_id) + Size(id) + Size(group_id)
            + Size(service_id) + Size(server_id) + Size(cmd),
          \A word \in {msg_id, id, group_id, service_id, server_id, cmd} : Clean(word),
          ShortBuf)

SetUnregister(msg_id, id) ==
  Printed(Obj([head |-> Obj([cmd |-> Str(CMD_UNREGISTER), msg_id |-> Str(msg_id)]),
               body |-> Obj([id |-> Str(id)])]),
          Size(CMD_UNREGISTER) + Size(msg_id) + Size(id),
          Clean(msg_id) /\ Clean(id), ShortBuf)

(* An answer.  A body is printed as it is: both services give is_object.   *)
RspHead(cmd, req_id, msg_id, err) ==
  IF req_id = ""
  THEN Obj([cmd |-> Str(cmd), msg_id |-> Str(msg_id), err |-> Int32(err)])
  ELSE Obj([cmd |-> Str(cmd), req_id |-> Str(req_id), msg_id |-> Str(msg_id),
            err |-> Int32(err)])

SetRspMsg(cmd, req_id, msg_id, err, error_info, body) ==
  LET head  == RspHead(cmd, req_id, msg_id, err)
      size  == Size(cmd) + Size(req_id) + Size(msg_id) + Size(error_info)
      clean == \A word \in {cmd, req_id, msg_id, error_info} : Clean(word)
  IN  IF body = "" THEN Printed(Obj([head |-> head]), size, clean, ShortBuf)
      ELSE Printed(Obj([head |-> head, body |-> Str(body)]),
                   size + Size(body), clean /\ Clean(body), LongBuf)

(* The router's msg_id goes into the head of a request, over one that was  *)
(* there.  A text without head would become the empty one.                 *)
SetNewReq(req, msg_id) ==
  IF Has(req, "head")
  THEN Obj(Insert(req.val, "head", Obj(Insert(Get(req, "head").val, "msg_id", Str(msg_id)))))
  ELSE NotJson
=============================================================================
