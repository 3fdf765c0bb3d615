----------------------------- MODULE SessionMgt -----------------------------
(***************************************************************************)
(* The router's table of front-end sessions (router/session_mgt.cpp), two  *)
(* maps changed together under one mutex.  A session id is made unique by  *)
(* a counter (UID::uid_inc), so the connection it was made for stands for  *)
(* it.  The fields kept for logging (addresses, times, byte counts) are    *)
(* left out, and with them update_read's and update_write's bookkeeping;   *)
(* _status is TRUE for ever, since nothing calls update_status.            *)
(***************************************************************************)
EXTENDS StdMaps

VARIABLES sessions,   \* _sessions: fd -> the session id of its Session
          ids         \* _fds, of which only the keys are read: the valid ids

NoSession == "none"   \* the empty id of a request read without a session

Init == sessions = << >> /\ ids = {}

(* Mutant: the id is noted, the Session is not.                            *)
InsertIdOnly(fd, id) == ids' = ids \cup {id} /\ UNCHANGED sessions

(* insert_session overwrites the Session of a descriptor it already knows, *)
(* and then leaves the id of the overwritten one among the valid ids.      *)
InsertSession(fd, id) ==
  /\ sessions' = Insert(sessions, fd, id)
  /\ ids' = ids \cup {id}

(* Mutant: the ended session's id stays valid.                             *)
RemoveSessionOnly(fd) == sessions' = Erase(sessions, fd) /\ UNCHANGED ids

RemoveSession(fd) ==
  IF fd \in DOMAIN sessions
  THEN /\ ids' = ids \ {sessions[fd]}
       /\ sessions' = Erase(sessions, fd)
  ELSE UNCHANGED <<sessions, ids>>

(* Mutant: the test the wrong way round.                                   *)
IsOver(id) == id \notin ids

(* is_valid_sesssion: asks whether the session ended, not who has its fd.  *)
IsValidSession(id) == id \in ids

(* update_read's result: the session a request read from fd belongs to.    *)
SessionOf(fd) == IF fd \in DOMAIN sessions THEN sessions[fd] ELSE NoSession
=============================================================================
