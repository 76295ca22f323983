------------------------------ MODULE McpSession ------------------------------
(* The MCP servers: an AI client drives the gateway through one, which keeps  *)
(* the current session in memory and records it in a session store, so that a *)
(* client that reconnects gets its session back by its thread id.  Of a       *)
(* record, fingerprint and path are left out: no tool reads them.             *)
EXTENDS Naturals

CONSTANTS
  None,       \* Python's None; also the empty thread id of a Postgres row
  Shared,     \* where a store that all servers share keeps its records
  Clients,
  Servers,    \* MCP server processes
  Threads,
  Sessions,   \* the session ids the gateway may make up
  ClientOf,   \* whose server it is
  ThreadsOf   \* the thread ids a client uses; two clients may use the same

\* For whom a session was created, with which thread_id in the call, and which
\* one the context then had.
Creation == [client : Clients, given : Threads \cup {None}, filed : Threads \cup {None}]

ASSUME McpAssumption ==
  /\ ClientOf \in [Servers -> Clients]
  /\ ThreadsOf \in [Clients -> SUBSET Threads]
  /\ Sessions \cap Threads = {}
  /\ None \notin Sessions \cup Threads \cup Clients \cup Servers
  /\ None \notin Creation
  /\ Shared \notin Servers

VARIABLES
  backend,   \* OBR_MCP_SESSION_STORE
  ctx,       \* each server's MCPSessionContext
  pc,        \* where each server is in create_session
  data,      \* the stores' records, by key
  made,      \* observation: how each of the gateway's sessions was created
  told,      \* observation: the session ids each client was answered with
  last       \* observation: the last call sent to the gateway

vars == <<backend, ctx, pc, data, made, told, last>>

Backends == {"memory", "redis", "postgres"}
Keys == Sessions \cup Threads
Context == [session_id : Sessions \cup {None}, thread_id : Threads \cup {None}]
NewContext == [session_id |-> None, thread_id |-> None]
NoRecords == [k \in Keys |-> None]

Or(a, b) == IF a # None THEN a ELSE b      \* Python's `a or b`

McpInit ==
  /\ backend \in Backends
  /\ ctx = [v \in Servers |-> NewContext]
  /\ pc = [v \in Servers |-> "ready"]
  /\ data = [o \in Servers \cup {Shared} |-> NoRecords]
  /\ made = [s \in Sessions |-> None]
  /\ told = [c \in Clients |-> {}]
  /\ last = None

(* The in-memory store belongs to its process.                               *)
store_of(v) == IF backend = "memory" THEN v ELSE Shared

(* get: by its key, or, in Postgres, any row that has the key in one of its  *)
(* two columns (LIMIT 1, in no order).                                       *)
get(v, key) ==
  IF backend = "postgres"
  THEN {r \in {data[Shared][s] : s \in Sessions} \ {None} :
          key \in {r.session_id, r.thread_id}}
  ELSE {data[store_of(v)][key]} \ {None}

(* _maybe_restore, what it may load. A store in another process may not be   *)
(* reachable: the error is swallowed, or, where Postgres cannot connect, ends *)
(* the call with nothing changed.                                            *)
EmptyKeyRestores(c, v, key) ==      \* a mistake: the key is not tested
  IF c.session_id # None \/ (key = None /\ backend # "postgres") THEN {None}
  ELSE get(v, key) \cup {None}
AlwaysRestores(c, v, key) ==        \* a mistake: a set context is replaced
  IF key = None THEN {None} ELSE get(v, key) \cup {None}
maybe_restore(c, v, key) ==
  IF key = None \/ c.session_id # None THEN {None}
  ELSE IF backend = "memory" /\ get(v, key) # {} THEN get(v, key)
  ELSE get(v, key) \cup {None}

load_from_dict(c, rec) ==
  IF rec = None THEN c
  ELSE [session_id |-> Or(rec.session_id, c.session_id),
        thread_id |-> Or(rec.thread_id, c.thread_id)]

(* create_session. The thread is set first, so it is also set when the       *)
(* gateway then refuses.                                                     *)
FirstThreadStays(c, t) ==      \* a mistake: the first thread named is kept
  [c EXCEPT !.thread_id = Or(@, t)]
with_thread(c, t) == [c EXCEPT !.thread_id = Or(t, @)]

create_session(v, t, s) ==
  /\ pc[v] = "ready" /\ made[s] = None
  /\ ctx' = [ctx EXCEPT ![v] = [with_thread(@, t) EXCEPT !.session_id = s]]
  /\ pc' = [pc EXCEPT ![v] = "storing"]
  /\ made' = [made EXCEPT ![s] = [client |-> ClientOf[v], given |-> t,
                                  filed |-> with_thread(ctx[v], t).thread_id]]
  /\ told' = [told EXCEPT ![ClientOf[v]] = @ \cup {s}]
  /\ UNCHANGED <<backend, data, last>>

CreateRefused(v, t) ==
  /\ pc[v] = "ready"
  /\ ctx' = [ctx EXCEPT ![v] = with_thread(@, t)]
  /\ UNCHANGED <<backend, pc, data, made, told, last>>

(* store.set. Memory and Postgres write it all at once; Redis has a key for  *)
(* the session and then, if there is a thread, one for the thread.           *)
Write(v, keys) ==
  data' = [data EXCEPT ![store_of(v)] =
             [k \in Keys |-> IF k \in keys THEN ctx[v] ELSE @[k]]]

SetBothKeys(v) ==      \* a mistake: `if thread_id` is missing
  /\ pc[v] = "storing"
  /\ Write(v, {ctx[v].session_id})
  /\ pc' = [pc EXCEPT ![v] = "storing_thread"]
  /\ UNCHANGED <<backend, ctx, made, told, last>>

set_session(v) ==
  /\ pc[v] = "storing"
  /\ Write(v, IF backend = "memory" THEN {ctx[v].session_id, ctx[v].thread_id}
              ELSE {ctx[v].session_id})
  /\ pc' = [pc EXCEPT ![v] = IF backend = "redis" /\ ctx[v].thread_id # None
                             THEN "storing_thread" ELSE "ready"]
  /\ UNCHANGED <<backend, ctx, made, told, last>>

set_thread(v) ==
  /\ pc[v] = "storing_thread"
  /\ Write(v, {ctx[v].thread_id})
  /\ pc' = [pc EXCEPT ![v] = "ready"]
  /\ UNCHANGED <<backend, ctx, made, told, last>>

(* Redis swallows the error, what it wrote before stays; Postgres rolls      *)
(* back, or raises when it cannot connect. The context is set by then.       *)
SetFails(v) ==
  /\ pc[v] # "ready" /\ backend # "memory"
  /\ pc' = [pc EXCEPT ![v] = "ready"]
  /\ UNCHANGED <<backend, ctx, data, made, told, last>>

(* _session_id and the tools that use it: restore by thread, then by         *)
(* session, and send the call to the session named or the current one. A     *)
(* client names sessions it was told of: create_session and apply_patch      *)
(* answer with the id. Without any session the call fails, nothing sent.     *)
ToolCall(v, sid, t) ==
  /\ pc[v] = "ready"
  /\ sid \in told[ClientOf[v]] \cup {None}
  /\ \E byThread \in maybe_restore(ctx[v], v, t) :
       LET c == load_from_dict(ctx[v], byThread) IN
       \E bySession \in maybe_restore(c, v, Or(sid, c.session_id)) :
         LET d == load_from_dict(c, bySession)
             s == Or(sid, d.session_id)
         IN /\ ctx' = [ctx EXCEPT ![v] = d]
            /\ last' = IF s = None THEN last
                       ELSE [client |-> ClientOf[v], session |-> s,
                             restored |-> IF sid = None /\ byThread # None
                                          THEN t ELSE None]
            /\ told' = [told EXCEPT ![ClientOf[v]] = @ \cup ({s} \ {None})]
  /\ UNCHANGED <<backend, pc, data, made>>

(* A server ends, in the middle of what it does, and is started again.       *)
Reconnect(v) ==
  /\ ctx[v] # NewContext
  /\ ctx' = [ctx EXCEPT ![v] = NewContext]
  /\ pc' = [pc EXCEPT ![v] = "ready"]
  /\ data' = IF backend = "memory" THEN [data EXCEPT ![v] = NoRecords] ELSE data
  /\ UNCHANGED <<backend, made, told, last>>

(* Redis drops a key after its ttl.                                          *)
Expire(k) ==
  /\ backend = "redis" /\ data[Shared][k] # None
  /\ data' = [data EXCEPT ![Shared][k] = None]
  /\ UNCHANGED <<backend, ctx, pc, made, told, last>>

ServerStep(v) ==
  \/ \E t \in ThreadsOf[ClientOf[v]] \cup {None} :
       \/ \E s \in Sessions : create_session(v, t, s)
       \/ CreateRefused(v, t)
       \/ \E sid \in Sessions \cup {None} : ToolCall(v, sid, t)
  \/ set_session(v) \/ set_thread(v) \/ SetFails(v)
  \/ Reconnect(v)
McpNext == (\E v \in Servers : ServerStep(v)) \/ (\E k \in Keys : Expire(k))

McpSpec == McpInit /\ [][McpNext]_vars
-----------------------------------------------------------------------------
(* Types; a server stores the session and the thread it has.                 *)
McpTypeOK ==
  /\ backend \in Backends
  /\ ctx \in [Servers -> Context]
  /\ pc \in [Servers -> {"ready", "storing", "storing_thread"}]
  /\ data \in [Servers \cup {Shared} -> [Keys -> Context \cup {None}]]
  /\ made \in [Sessions -> Creation \cup {None}]
  /\ told \in [Clients -> SUBSET Sessions]
  /\ \A v \in Servers :
       /\ pc[v] # "ready" => ctx[v].session_id # None
       /\ pc[v] = "storing_thread" => ctx[v].thread_id # None

(* The keys of a shared store carry no client. Still, whatever was restored, *)
(* failed halfway, expired or was started again, a call goes to a session    *)
(* created for the client that makes it, or to one of a client with which it *)
(* shares a thread id and which was in that thread when it created it.       *)
CallsStayWithTheirClient ==
  last # None =>
    LET m == made[last.session] IN
    \/ m.client = last.client
    \/ m.filed \in ThreadsOf[last.client] \cap ThreadsOf[m.client]

(* "clients can restore by either after a restart": a call that reaches its  *)
(* session by the thread id never reaches one that was created with another, *)
(* by whichever server and in whatever order they stored. One created with no *)
(* thread_id may be found by a thread id of its client: the one its server   *)
(* still had from an earlier call.                                           *)
ThreadRestoresItsOwnSession ==
  last # None /\ last.restored # None =>
    /\ made[last.session].given \in {last.restored, None}
    /\ last.restored \in ThreadsOf[made[last.session].client]

(* "session affinity": a server that has a session keeps to it until it      *)
(* creates another or is started again; naming another session or thread in  *)
(* a call does not move the calls after it.                                  *)
ServerKeepsItsSession ==
  [][\A v \in Servers :
       ctx[v].session_id # None /\ ctx'[v].session_id # ctx[v].session_id
         => ctx'[v] = NewContext \/ made[ctx'[v].session_id] = None]_vars

-----------------------------------------------------------------------------
(* What makes the three invariants inductive: a session is filed under the   *)
(* thread its context had, which is the one given if any, and one of its     *)
(* client's; a record says what its session was filed under, and is found by *)
(* nothing else; a client is only told of, and a server only has, a session  *)
(* created for the client or filed under a thread the client uses.           *)
MayUse(c, s) ==
  made[s] # None /\ (made[s].client = c \/ made[s].filed \in ThreadsOf[c])

ContextsAreOwn ==
  \A v \in Servers :
    /\ ctx[v].thread_id \in ThreadsOf[ClientOf[v]] \cup {None}
    /\ ctx[v].session_id # None => MayUse(ClientOf[v], ctx[v].session_id)
    /\ pc[v] # "ready" => made[ctx[v].session_id].filed = ctx[v].thread_id

RecordTells(r, k) ==
  /\ r.session_id # None /\ made[r.session_id] # None
  /\ made[r.session_id].filed = r.thread_id
  /\ k \in {r.session_id, r.thread_id}
RecordsAreTrue ==
  \A o \in Servers \cup {Shared}, k \in Keys :
    data[o][k] # None => RecordTells(data[o][k], k)

ThreadsAreOwn ==
  \A s \in Sessions :
    made[s] # None =>
      /\ made[s].filed \in ThreadsOf[made[s].client] \cup {None}
      /\ made[s].given \in {made[s].filed, None}

ToldAreOwn == \A c \in Clients : \A s \in told[c] : MayUse(c, s)

LastCallIsKnown ==
  last # None =>
    /\ last \in [client : Clients, session : Sessions, restored : Threads \cup {None}]
    /\ MayUse(last.client, last.session)

McpInv ==
  /\ McpTypeOK /\ ContextsAreOwn /\ RecordsAreTrue /\ ThreadsAreOwn /\ ToldAreOwn
  /\ LastCallIsKnown /\ CallsStayWithTheirClient /\ ThreadRestoresItsOwnSession
=============================================================================
