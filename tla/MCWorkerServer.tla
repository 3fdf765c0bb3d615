--------------------------- MODULE MCWorkerServer ---------------------------
(* WorkerServer with two requests out of those that take different ways.   *)
EXTENDS WorkerServer
CONSTANTS r1, r2, p1, p2

(* Some words are special: a page for which the buffer is too small by the *)
(* newline, and an id with a quote.  Slow sends cut lines elsewhere.       *)
MCSize(w)  == CASE w = "" -> 0 [] w = "exact" -> 4 [] OTHER -> 1
MCClean(w) == w # "quote"

Text(head, body) == Obj([head |-> Obj(head), body |-> body])
For(service, cmd) == [cmd |-> Str(cmd), service_id |-> Str(service)]
Ask(text) == [text |-> text, size |-> 8]

(* A worker of group n broadcasts, one of group m mails.  Front ends may   *)
(* ask with words of the registration protocol, too.                       *)
MCNotifications ==
  { Ask(Text(For("n", "notification_EQQ"),
             Obj([title |-> Str("t"), receiver |-> Arr(<<Str("ann"), Str("bob")>>),
                  group |-> Arr(<<Str("ops")>>)]))),
    Ask(Text(For("n", "notification_EQQ"),
             Obj([title |-> Str("t"), receiver |-> Arr(<<Str("bob")>>),
                  group |-> Arr(<<Str("lab")>>)]))),
    Ask(Text(For("n", "dip_unregister"), Obj([title |-> Str("t")]))),
    Ask(Text(For("m", "notification_EQQ"),
             Obj([title |-> Str("t"), group |-> Arr(<<Str("ops")>>)]))),
    Ask(Text(For("m", "notification_mail"),
             Obj([title |-> Str("t"), receiver |-> Arr(<<Str("ann")>>), CC |-> Arr(<< >>)]))),
    Ask(Text(For("m", "notification_mail"), Obj([title |-> Arr(<< >>)]))) }

User(a, id) == Obj([account |-> Str(a), open_id |-> Str(id)])
Dept(n, id) == Obj([dept_name |-> Str(n), dept_id |-> Str(id)])
List(items) == Obj([ret |-> Int32(0), data |-> Obj([items |-> Arr(items)])])

MCUserList  == << List(<<User("ann", "a1"), User("eve", "e1")>>),
                  List(<<User("ann", "a2"), User("bob", "b1")>>) >>
MCGroupList == List(<<Dept("ops", "d1"), Obj([dept_id |-> Str("d2")])>>)

MCReply == { Obj([ret |-> Int32(0), msg |-> Str("done")]),
             Obj([ret |-> Int32(3), msg |-> Str("denied")]) }

MCQuery(keys, id) ==
  Text([cmd |-> Str("query"), service_id |-> Str("s"), req_id |-> Str(id)], Str(keys))
MCQueries ==
  { Ask(MCQuery({"username"}, "q")), Ask(MCQuery({}, "quote")),
    [text |-> MCQuery({"username"}, "q"), size |-> 10],
    Ask(Text(For("s", "note"), Str({}))),
    Ask(Text(For("s", "dip_hb"), Str({}))),
    Ask(Obj([head |-> Obj(For("s", "query"))])) }

MCPlugin == { [service |-> "notification", group_id |-> "n", ways |-> {"notification_EQQ"}],
              [service |-> "notification", group_id |-> "m", ways |-> {"notification_mail"}],
              [service |-> "standard", group_id |-> "s", ways |-> {}] }
MCAsked == MCNotifications \cup MCQueries
MCPage == {"page", "exact"}

MCProtocols == [query |-> "http_get", pay |-> "https_get"]
=============================================================================
