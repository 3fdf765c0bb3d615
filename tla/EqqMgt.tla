------------------------------- MODULE EqqMgt -------------------------------
(***************************************************************************)
(* The address book of the notification service (libservice/               *)
(* notification_service/eqq_mgt.cpp): two maps under one mutex, filled at  *)
(* the start and from then on by a timer thread, read by the processors.   *)
(* The HTTP request goes out before the mutex is taken, so that fetching   *)
(* and filling are two steps; each of the operations below is one.         *)
(***************************************************************************)
EXTENDS Protocol

VARIABLES openid,       \* _openid: account -> open id
          eqq_group_id  \* _eqq_group_id: department -> its id

book == <<openid, eqq_group_id>>

(* Without an appid there is no address book to fill.                      *)
Unused == openid = << >> /\ eqq_group_id = << >>

(* init fails, and with it the start of the worker, unless the first two   *)
(* updates succeed.                                                        *)
Init(users, groups) ==
  LET u == GetOpenidList(users, << >>)
      g == GetEqqGroupList(groups, << >>)
  IN  /\ u.ret = 0 /\ openid = u.map
      /\ g.ret = 0 /\ eqq_group_id = g.map

(* Mutant: the map is cleared before the answer is looked at.              *)
UpdateFromScratch(rsp) ==
  openid' = GetOpenidList(rsp, << >>).map /\ UNCHANGED eqq_group_id

(* The second half of update_openid_list and of update_eqq_group_list.     *)
UpdateOpenid(rsp) ==
  openid' = GetOpenidList(rsp, openid).map /\ UNCHANGED eqq_group_id
UpdateGroups(rsp) ==
  eqq_group_id' = GetEqqGroupList(rsp, eqq_group_id).map /\ UNCHANGED openid

(* The recipients of a notification: the ids of those names that are known *)
(* at the moment of one copy of the map.                                   *)
Known(map, names) == {map[n] : n \in Range(names) \cap DOMAIN map}

(* Mutant: names nobody knows stand for everybody.                         *)
RecipientsOrAll(names) ==
  IF Range(names) \cap DOMAIN openid # {} THEN Known(openid, names)
  ELSE Range(openid)

Recipients(names) == Known(openid, names)

(* Mutant: departments nobody knows stand for all of them.                 *)
DepartmentsOrAll(names) ==
  IF Range(names) \cap DOMAIN eqq_group_id # {} THEN Known(eqq_group_id, names)
  ELSE Range(eqq_group_id)

Departments(names) == Known(eqq_group_id, names)
=============================================================================
