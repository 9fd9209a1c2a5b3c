---------------------------- MODULE RedisSessions ----------------------------
(***************************************************************************)
(* The /v1/stream, session/init and DELETE handlers (api/v1/chat_router.py,*)
(* services/chat_service.py) on several workers over RedisSessionStore     *)
(* (repositories/redis/task_repository.py).  The client is synchronous: a  *)
(* worker runs one handler between two awaits, one command at a time, and  *)
(* the commands of different workers interleave.                           *)
(*                                                                         *)
(* save_turn() hands update_history() a list of LangChain messages, which  *)
(* json.dumps() cannot encode: it raises TypeError before the SET.         *)
(***************************************************************************)
EXTENDS Redis, Sequences

CONSTANTS
  Requests, SessionIds,
  TTL           \* settings.session_ttl_seconds

ASSUME SessionTTLAssumption ==
  /\ TTL \in Nat \ {0} /\ MaxTime \in Nat
  /\ NoWorker \notin Workers /\ SessionIds # {}

VARIABLES
  db,           \* the keys session:*, holding the turns of the history
  created,      \* ids ever handed out
  deleted,      \* ids whose DELETE was answered
  req           \* the requests' handlers

vars == <<db, created, deleted, now, req>>

Idle == [pc |-> "idle", at |-> NoWorker, sid |-> CHOOSE s \in SessionIds : TRUE,
         renewed |-> FALSE, used |-> 0, history |-> <<>>]

Init ==
  /\ db = NoKeys
  /\ created = {} /\ deleted = {}
  /\ now = 0
  /\ req = [r \in Requests |-> Idle]

Resting == {"idle", "streaming", "done", "lost"}
Free(w) == \A r \in Requests : req[r].at = w => req[r].pc \in Resting
Goto(r, pc) == req' = [req EXCEPT ![r].pc = pc]
Here(r)     == Present(db, req[r].sid, now)

(* create(): one SET.                                                      *)
InitSession ==
  /\ \E w \in Workers : Free(w)
  /\ \E s \in SessionIds \ created :
       /\ db' = AfterSet(db, s, <<>>, now + TTL)
       /\ created' = created \cup {s}
  /\ UNCHANGED <<deleted, now, req>>

(* session_exists(): EXISTS, which does not renew the session.             *)
Exists(r) ==
  /\ req[r].pc = "idle"
  /\ \E w \in Workers, s \in created, next \in {"load", "delete"} :
       /\ Free(w)
       /\ req' = [req EXCEPT ![r] =
                    [@ EXCEPT !.at = w, !.sid = s,
                              !.pc = IF Present(db, s, now) THEN next ELSE "done"]]
  /\ UNCHANGED <<db, created, deleted, now>>

(* DEL.                                                                    *)
Delete(r) ==
  /\ req[r].pc = "delete"
  /\ db' = AfterDel(db, req[r].sid)
  /\ deleted' = deleted \cup {req[r].sid}
  /\ Goto(r, "done")
  /\ UNCHANGED <<created, now>>

(* load_history(): GET ...                                                 *)
LoadGet(r) ==
  /\ req[r].pc = "load"
  /\ Goto(r, IF Here(r) THEN "renew" ELSE "streaming")
  /\ UNCHANGED <<db, created, deleted, now>>

(* Seeded fault: the key expires when it would have without the access.    *)
LoadExpireSkipped(r) ==
  /\ req[r].pc = "renew"
  /\ req' = [req EXCEPT ![r] = [@ EXCEPT !.pc = "streaming", !.used = now,
                                         !.renewed = Here(r)]]
  /\ UNCHANGED <<db, created, deleted, now>>

(* Seeded fault: the lifetime is added to what is left of the last one.    *)
LoadExpireAdding(r) ==
  /\ req[r].pc = "renew"
  /\ db' = IF Here(r) THEN AfterExpire(db, req[r].sid, now, db[req[r].sid].until + TTL) ELSE db
  /\ req' = [req EXCEPT ![r] = [@ EXCEPT !.pc = "streaming", !.used = now,
                                         !.renewed = Here(r)]]
  /\ UNCHANGED <<created, deleted, now>>

(* ... and EXPIRE, which does nothing if the key is gone by then.          *)
LoadExpire(r) ==
  /\ req[r].pc = "renew"
  /\ db' = AfterExpire(db, req[r].sid, now, now + TTL)
  /\ req' = [req EXCEPT ![r] = [@ EXCEPT !.pc = "streaming", !.used = now,
                                         !.renewed = Here(r)]]
  /\ UNCHANGED <<created, deleted, now>>

(* The stream has ended with a reply: save_turn() begins with a GET.       *)
SaveGet(r) ==
  /\ req[r].pc = "streaming"
  /\ \A q \in Requests : req[q].at = req[r].at => req[q].pc \in Resting
  /\ req' = [req EXCEPT ![r] =
               IF Here(r) THEN [@ EXCEPT !.pc = "renewsave",
                                  !.history = Append(db[req[r].sid].value, r)]
                          ELSE [@ EXCEPT !.pc = "done"]]
  /\ UNCHANGED <<db, created, deleted, now>>

SaveExpire(r) ==
  /\ req[r].pc = "renewsave"
  /\ db' = AfterExpire(db, req[r].sid, now, now + TTL)
  /\ Goto(r, "update")
  /\ UNCHANGED <<created, deleted, now>>

(* Seeded fault: the history is encoded after all, and written as it is.   *)
UpdateEncoded(r) ==
  /\ req[r].pc = "update"
  /\ db' = AfterSet(db, req[r].sid, req[r].history, now + TTL)
  /\ Goto(r, "done")
  /\ UNCHANGED <<created, deleted, now>>

(* update_history(): GET, and either the session is gone or json.dumps()   *)
(* raises, which the handler logs.  Nothing is written.                    *)
UpdateHistory(r) ==
  /\ req[r].pc = "update"
  /\ Goto(r, "done")
  /\ UNCHANGED <<db, created, deleted, now>>

(* A worker is restarted.                                                  *)
Crash(w) ==
  /\ req' = [r \in Requests |->
               IF req[r].at = w /\ req[r].pc # "done"
               THEN [req[r] EXCEPT !.pc = "lost"] ELSE req[r]]
  /\ UNCHANGED <<db, created, deleted, now>>

Tick ==
  /\ now < MaxTime /\ now' = now + 1
  /\ UNCHANGED <<db, created, deleted, req>>

Next ==
  \/ Tick \/ InitSession
  \/ \E w \in Workers : Crash(w)
  \/ \E r \in Requests :
       \/ Exists(r) \/ Delete(r) \/ LoadGet(r) \/ LoadExpire(r)
       \/ SaveGet(r) \/ SaveExpire(r) \/ UpdateHistory(r)

Spec == Init /\ [][Next]_vars

(***************************************************************************)
(* Properties                                                              *)
(***************************************************************************)

(* Types of the variables.                                                 *)
TypeOK ==
  /\ DOMAIN db \subseteq created /\ deleted \subseteq created
  /\ created \subseteq SessionIds
  /\ \A s \in DOMAIN db : db[s].until \in 0..(now + TTL) /\ db[s].value \in Seq(Requests)
  /\ now \in 0..MaxTime
  /\ \A r \in Requests :
       /\ req[r].pc \in Resting \cup {"load", "delete", "renew", "renewsave", "update"}
       /\ req[r].at \in Workers \cup {NoWorker}
       /\ req[r].sid \in SessionIds
       /\ req[r].renewed \in BOOLEAN /\ req[r].used \in 0..now

(* A session lives on for its lifetime after each access that renewed it,  *)
(* whatever other workers do with it meanwhile, unless it is deleted: a    *)
(* reply that takes less than the lifetime finds its session               *)
(* (task_repository.py:70-77).                                             *)
KeptWhileUsed ==
  /\ TypeOK
  /\ \A r \in Requests :
       /\ req[r].pc = "streaming" /\ req[r].renewed
       /\ now < req[r].used + TTL /\ req[r].sid \notin deleted
       => Here(r)

(* A session whose deletion was answered does not come back, not even when *)
(* a reply to it ends at the same time on another worker                   *)
(* (task_repository.py:79-92).                                             *)
DeletedStaysDeleted == \A s \in deleted : ~Present(db, s, now)
=============================================================================
