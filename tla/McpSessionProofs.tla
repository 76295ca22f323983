--------------------------- MODULE McpSessionProofs ---------------------------
(* MCP servers, for any clients, threads and sessions, any number of servers  *)
(* and each of the stores.                                                    *)
EXTENDS McpSession, TLAPS

(* Python's `or`, of two that may be None.                                    *)
LEMMA OrType ==
  ASSUME NEW S, NEW a \in S \cup {None}, NEW b \in S \cup {None}
  PROVE  Or(a, b) \in S \cup {None} /\ (Or(a, b) = None => a = None /\ b = None)
BY DEF Or

LEMMA InitInv == McpInit => McpInv
<1> SUFFICES ASSUME McpInit PROVE McpInv
  OBVIOUS
<1>1. NewContext \in Context /\ NewContext.session_id = None /\ NewContext.thread_id = None
  BY DEF NewContext, Context
<1>2. \A v \in Servers : ctx[v] = NewContext /\ pc[v] = "ready"
  BY DEF McpInit
<1>3. \A o \in Servers \cup {Shared}, k \in Keys : data[o][k] = None
  BY DEF McpInit, NoRecords
<1>4. McpTypeOK
  <2>1. data \in [Servers \cup {Shared} -> [Keys -> Context \cup {None}]]
    BY DEF McpInit, NoRecords
  <2>. QED  BY <1>1, <1>2, <2>1 DEF McpInit, McpTypeOK
<1>5. ContextsAreOwn /\ RecordsAreTrue
  BY <1>1, <1>2, <1>3 DEF ContextsAreOwn, RecordsAreTrue
<1>6. ThreadsAreOwn /\ ToldAreOwn
  BY DEF McpInit, ThreadsAreOwn, ToldAreOwn
<1>7. LastCallIsKnown /\ CallsStayWithTheirClient /\ ThreadRestoresItsOwnSession
  BY DEF McpInit, LastCallIsKnown, CallsStayWithTheirClient, ThreadRestoresItsOwnSession
<1>. QED  BY <1>4, <1>5, <1>6, <1>7 DEF McpInv

(* Whatever a store gives back was created for the key it was asked by, and   *)
(* is only asked for where there is no session yet.                           *)
LEMMA RestoredIsTrue ==
  ASSUME McpInv, NEW v \in Servers, NEW c, NEW key \in Keys \cup {None},
         NEW r \in maybe_restore(c, v, key), r # None
  PROVE  c.session_id = None /\ key # None /\ r \in Context /\ RecordTells(r, key)
<1>1. key # None /\ c.session_id = None /\ r \in get(v, key)
  BY DEF maybe_restore
<1>2. store_of(v) \in Servers \cup {Shared}
  BY DEF store_of
<1>3. CASE backend = "postgres"
  <2>1. PICK s \in Sessions : r = data[Shared][s] /\ key \in {r.session_id, r.thread_id}
    BY <1>1, <1>3 DEF get
  <2>2. s \in Keys /\ r \in Context
    BY <2>1 DEF McpInv, McpTypeOK, Keys
  <2>3. RecordTells(r, s)
    BY <2>1, <2>2 DEF McpInv, RecordsAreTrue
  <2>. QED  BY <1>1, <2>1, <2>2, <2>3 DEF RecordTells
<1>4. CASE backend # "postgres"
  <2>1. key \in Keys /\ r = data[store_of(v)][key]
    BY <1>1, <1>4 DEF get
  <2>2. r \in Context
    BY <1>2, <2>1 DEF McpInv, McpTypeOK
  <2>3. RecordTells(r, key)
    BY <1>2, <2>1 DEF McpInv, RecordsAreTrue
  <2>. QED  BY <1>1, <2>2, <2>3
<1>. QED  BY <1>3, <1>4

(* A context that may take calls: of its client, with a session it may use.   *)
OwnContext(c, v) ==
  /\ c \in Context
  /\ c.thread_id \in ThreadsOf[ClientOf[v]] \cup {None}
  /\ c.session_id # None => MayUse(ClientOf[v], c.session_id)

(* Restoring by a key of the client - a thread it uses or a session it may    *)
(* use - gives a context of the client. A restored thread's session is one    *)
(* that was filed under that thread.                                          *)
LEMMA RestoringKeepsOwn ==
  ASSUME McpInv, NEW v \in Servers, NEW c, OwnContext(c, v),
         NEW key \in Keys \cup {None}, NEW r \in maybe_restore(c, v, key),
         \/ key \in ThreadsOf[ClientOf[v]] \cup {None}
         \/ key \in Sessions /\ MayUse(ClientOf[v], key)
  PROVE  /\ OwnContext(load_from_dict(c, r), v)
         /\ c.session_id # None => load_from_dict(c, r) = c
         /\ r # None /\ key \in Threads =>
              /\ load_from_dict(c, r).session_id # None
              /\ made[load_from_dict(c, r).session_id].filed = key
<1> USE McpAssumption
<1>1. CASE r = None
  BY <1>1 DEF load_from_dict
<1>2. CASE r # None
  <2>1. c.session_id = None /\ r \in Context /\ RecordTells(r, key) /\ key # None
    BY <1>2, RestoredIsTrue
  <2>2. r.session_id \in Sessions /\ r.thread_id \in Threads \cup {None}
        /\ c.thread_id \in Threads \cup {None}
    BY <2>1 DEF Context, RecordTells, OwnContext
  <2>3. made[r.session_id] \in Creation
    BY <2>1, <2>2 DEF McpInv, McpTypeOK, RecordTells
  <2>4. r.thread_id = made[r.session_id].filed
        /\ r.thread_id \in ThreadsOf[made[r.session_id].client] \cup {None}
    BY <2>1, <2>2 DEF McpInv, ThreadsAreOwn, RecordTells
  <2>5. MayUse(ClientOf[v], r.session_id) /\ r.thread_id \in ThreadsOf[ClientOf[v]] \cup {None}
    <3>1. CASE key \in Sessions
      <4>1. key \notin Threads \cup {None}
        BY <3>1
      <4>2. key = r.session_id
        BY <2>1, <2>2, <4>1 DEF RecordTells
      <4>3. ClientOf[v] \in Clients /\ ThreadsOf[ClientOf[v]] \subseteq Threads
        OBVIOUS
      <4>4. MayUse(ClientOf[v], key)
        BY <3>1, <4>1, <4>3
      <4>. QED  BY <2>4, <4>2, <4>4 DEF MayUse
    <3>2. CASE key \notin Sessions
      <4>1. key = r.thread_id /\ key \in ThreadsOf[ClientOf[v]]
        BY <2>1, <2>2, <3>2 DEF RecordTells
      <4>. QED  BY <2>1, <2>4, <4>1 DEF MayUse, RecordTells
    <3>. QED  BY <3>1, <3>2
  <2> DEFINE d == load_from_dict(c, r)
  <2>6. d = [session_id |-> Or(r.session_id, c.session_id),
             thread_id |-> Or(r.thread_id, c.thread_id)]
    BY <1>2 DEF load_from_dict
  <2>7. Or(r.session_id, c.session_id) = r.session_id
    BY <2>1 DEF Or, RecordTells
  <2>8. Or(r.thread_id, c.thread_id) \in {r.thread_id, c.thread_id}
    BY DEF Or
  <2>9. d.session_id = r.session_id /\ d.thread_id \in {r.thread_id, c.thread_id}
    BY <2>6, <2>7, <2>8
  <2>10. d \in Context
    BY <2>2, <2>6, <2>7, <2>8 DEF Context
  <2>11. OwnContext(d, v)
    BY <2>1, <2>4, <2>5, <2>9, <2>10 DEF OwnContext, RecordTells
  <2>12. key \in Threads => made[d.session_id].filed = key
    BY <2>1, <2>2, <2>9 DEF RecordTells
  <2>13. d.session_id # None
    BY <2>1, <2>9 DEF RecordTells
  <2>. QED  BY <2>1, <2>11, <2>12, <2>13
<1>. QED  BY <1>1, <1>2

(* Facts about one server that a step of another leaves alone.               *)
LEMMA StateFacts ==
  ASSUME McpInv, NEW v \in Servers
  PROVE  /\ OwnContext(ctx[v], v) /\ ClientOf[v] \in Clients
         /\ pc[v] \in {"ready", "storing", "storing_thread"}
         /\ pc[v] # "ready" => RecordTells(ctx[v], ctx[v].session_id)
         /\ pc[v] = "storing_thread" => RecordTells(ctx[v], ctx[v].thread_id)
<1> USE McpAssumption
<1>1. OwnContext(ctx[v], v)
  BY DEF McpInv, McpTypeOK, ContextsAreOwn, OwnContext
<1>2. ClientOf[v] \in Clients
  OBVIOUS
<1>3. pc[v] \in {"ready", "storing", "storing_thread"}
  BY DEF McpInv, McpTypeOK
<1>4. pc[v] # "ready" => RecordTells(ctx[v], ctx[v].session_id)
  BY DEF McpInv, McpTypeOK, ContextsAreOwn, RecordTells, MayUse
<1>5. pc[v] = "storing_thread" => RecordTells(ctx[v], ctx[v].thread_id)
  BY <1>4 DEF RecordTells
<1>. QED  BY <1>1, <1>2, <1>3, <1>4, <1>5

LEMMA WithThread ==
  ASSUME McpInv, NEW v \in Servers, NEW t \in ThreadsOf[ClientOf[v]] \cup {None}
  PROVE  /\ with_thread(ctx[v], t)
              = [session_id |-> ctx[v].session_id, thread_id |-> Or(t, ctx[v].thread_id)]
         /\ Or(t, ctx[v].thread_id) \in ThreadsOf[ClientOf[v]] \cup {None}
         /\ Or(t, ctx[v].thread_id) \in Threads \cup {None}
<1>1. ctx[v] \in Context /\ ctx[v].thread_id \in ThreadsOf[ClientOf[v]] \cup {None}
  BY StateFacts DEF OwnContext
<1>2. Or(t, ctx[v].thread_id) \in ThreadsOf[ClientOf[v]] \cup {None}
  BY <1>1 DEF Or
<1>3. Or(t, ctx[v].thread_id) \in Threads \cup {None}
  BY <1>2, McpAssumption, StateFacts
<1>4. with_thread(ctx[v], t) = [ctx[v] EXCEPT !.thread_id = Or(t, ctx[v].thread_id)]
  BY DEF with_thread
<1> HIDE DEF Or
<1>5. [ctx[v] EXCEPT !.thread_id = Or(t, ctx[v].thread_id)]
        = [session_id |-> ctx[v].session_id, thread_id |-> Or(t, ctx[v].thread_id)]
  BY <1>1 DEF Context
<1>. QED  BY <1>2, <1>3, <1>4, <1>5

(* A step that makes no session and sends no call disturbs only the contexts  *)
(* and records it writes.                                                     *)
LEMMA NothingMade ==
  ASSUME McpInv, UNCHANGED <<made, told, last>>, McpTypeOK', ContextsAreOwn', RecordsAreTrue'
  PROVE  McpInv'
BY DEF McpInv, ThreadsAreOwn, ToldAreOwn, MayUse, LastCallIsKnown, CallsStayWithTheirClient,
       ThreadRestoresItsOwnSession

(* A session is made once, and what is known of it stays so.                  *)
LEMMA CreateStep ==
  ASSUME McpInv, NEW v \in Servers, NEW t \in ThreadsOf[ClientOf[v]] \cup {None},
         NEW s \in Sessions, create_session(v, t, s)
  PROVE  McpInv'
<1> DEFINE thread == Or(t, ctx[v].thread_id)
           one == [client |-> ClientOf[v], given |-> t, filed |-> thread]
           new == [session_id |-> s, thread_id |-> thread]
<1>1. thread \in ThreadsOf[ClientOf[v]] \cup {None} /\ thread \in Threads \cup {None}
      /\ with_thread(ctx[v], t) = [session_id |-> ctx[v].session_id, thread_id |-> thread]
  BY WithThread
<1>2. ClientOf[v] \in Clients /\ s # None /\ t \in Threads \cup {None}
      /\ t \in {thread, None}
  BY StateFacts, McpAssumption DEF Or
<1> HIDE DEF thread
<1>3. one \in Creation /\ one # None
  BY <1>1, <1>2, McpAssumption DEF Creation
<1>4. new \in Context
  BY <1>1 DEF Context
<1>5. made[s] = None /\ made' = [made EXCEPT ![s] = one]
  <2>1. with_thread(ctx[v], t).thread_id = thread
    BY <1>1
  <2>. QED  BY <2>1 DEF create_session
<1>6. ctx' = [ctx EXCEPT ![v] = new]
  <2>1. [with_thread(ctx[v], t) EXCEPT !.session_id = s] = new
    BY <1>1
  <2>2. ctx' = [ctx EXCEPT ![v] = [with_thread(ctx[v], t) EXCEPT !.session_id = s]]
    BY DEF create_session
  <2>. QED  BY <2>1, <2>2
<1>7. pc' = [pc EXCEPT ![v] = "storing"] /\ UNCHANGED <<backend, data, last>>
      /\ told' = [told EXCEPT ![ClientOf[v]] = @ \cup {s}]
  BY DEF create_session
<1>8. one.client = ClientOf[v] /\ one.filed = thread /\ one.given = t
      /\ new.session_id = s /\ new.thread_id = thread
  OBVIOUS
<1> HIDE DEF one, new
<1>9. /\ ctx \in [Servers -> Context] /\ data \in [Servers \cup {Shared} -> [Keys -> Context \cup {None}]]
      /\ pc \in [Servers -> {"ready", "storing", "storing_thread"}]
      /\ made \in [Sessions -> Creation \cup {None}] /\ told \in [Clients -> SUBSET Sessions]
  BY DEF McpInv, McpTypeOK
<1>10. made'[s] = one /\ \A x : made[x] # None /\ x \in Sessions => made'[x] = made[x]
  BY <1>5, <1>9
<1>11. McpTypeOK'
  <2>1. ctx' \in [Servers -> Context] /\ made' \in [Sessions -> Creation \cup {None}]
        /\ told' \in [Clients -> SUBSET Sessions]
        /\ pc' \in [Servers -> {"ready", "storing", "storing_thread"}]
    BY <1>2, <1>3, <1>4, <1>5, <1>6, <1>7, <1>9
  <2>2. ASSUME NEW w \in Servers
        PROVE  (pc'[w] # "ready" => ctx'[w].session_id # None)
               /\ (pc'[w] = "storing_thread" => ctx'[w].thread_id # None)
    <3>1. CASE w = v
      BY <1>2, <1>6, <1>7, <1>8, <1>9, <3>1
    <3>2. CASE w # v
      BY <1>6, <1>7, <1>9, <3>2 DEF McpInv, McpTypeOK
    <3>. QED  BY <3>1, <3>2
  <2>. QED  BY <1>7, <2>1, <2>2 DEF McpInv, McpTypeOK
<1>12. ContextsAreOwn'
  <2> SUFFICES ASSUME NEW w \in Servers
               PROVE  /\ ctx'[w].thread_id \in ThreadsOf[ClientOf[w]] \cup {None}
                      /\ ctx'[w].session_id # None =>
                           /\ made'[ctx'[w].session_id] # None
                           /\ \/ made'[ctx'[w].session_id].client = ClientOf[w]
                              \/ made'[ctx'[w].session_id].filed \in ThreadsOf[ClientOf[w]]
                      /\ pc'[w] # "ready" => made'[ctx'[w].session_id].filed = ctx'[w].thread_id
    BY DEF ContextsAreOwn, MayUse
  <2>1. CASE w = v
    BY <1>1, <1>3, <1>6, <1>8, <1>9, <1>10, <2>1 DEF MayUse
  <2>2. CASE w # v
    <3>1. ctx'[w] = ctx[w] /\ pc'[w] = pc[w] /\ ctx[w].session_id \in Sessions \cup {None}
      BY <1>6, <1>7, <1>9, <2>2 DEF Context
    <3>2. pc[w] # "ready" => ctx[w].session_id # None
      BY DEF McpInv, McpTypeOK
    <3>. QED  BY <1>10, <3>1, <3>2 DEF McpInv, ContextsAreOwn, MayUse
  <2>. QED  BY <2>1, <2>2
<1>13. RecordsAreTrue'
  <2> SUFFICES ASSUME NEW o \in Servers \cup {Shared}, NEW k \in Keys, data[o][k] # None
               PROVE  RecordTells(data[o][k], k)'
    BY <1>7 DEF RecordsAreTrue
  <2>1. RecordTells(data[o][k], k) /\ data[o][k] \in Context
    BY <1>9 DEF McpInv, RecordsAreTrue
  <2>. QED  BY <1>7, <1>10, <2>1 DEF RecordTells, Context
<1>14. ThreadsAreOwn' /\ ToldAreOwn'
  <2>1. ThreadsAreOwn'
    BY <1>1, <1>2, <1>5, <1>8, <1>9, <1>10 DEF McpInv, ThreadsAreOwn
  <2>2. ASSUME NEW c \in Clients, NEW x \in told'[c] PROVE MayUse(c, x)'
    <3>1. CASE x \in told[c]
      BY <1>9, <1>10, <3>1 DEF McpInv, ToldAreOwn, MayUse
    <3>2. CASE x \notin told[c]
      <4>1. x = s /\ c = ClientOf[v]
        BY <1>2, <1>7, <1>9, <2>2, <3>2
      <4>. QED  BY <1>3, <1>8, <1>10, <4>1 DEF MayUse
    <3>. QED  BY <3>1, <3>2
  <2>. QED  BY <2>1, <2>2 DEF ToldAreOwn
<1>15. LastCallIsKnown' /\ CallsStayWithTheirClient' /\ ThreadRestoresItsOwnSession'
  <2>1. last # None => last.session \in Sessions /\ made'[last.session] = made[last.session]
    BY <1>10 DEF McpInv, LastCallIsKnown, MayUse
  <2>. QED  BY <1>7, <2>1 DEF McpInv, LastCallIsKnown, CallsStayWithTheirClient,
                              ThreadRestoresItsOwnSession, MayUse
<1>. QED  BY <1>11, <1>12, <1>13, <1>14, <1>15 DEF McpInv

(* One server's context changes, to one of its client, and it is ready.       *)
LEMMA ContextChanges ==
  ASSUME McpInv, NEW v \in Servers, NEW c, OwnContext(c, v), pc'[v] = "ready",
         \A w \in Servers \ {v} : pc'[w] = pc[w],
         pc' \in [Servers -> {"ready", "storing", "storing_thread"}],
         ctx' = [ctx EXCEPT ![v] = c], UNCHANGED <<backend, made>>
  PROVE  /\ ContextsAreOwn'
         /\ data' \in [Servers \cup {Shared} -> [Keys -> Context \cup {None}]]
              => (told' \in [Clients -> SUBSET Sessions] => McpTypeOK')
<1>1. ctx \in [Servers -> Context] /\ c \in Context
  BY DEF McpInv, McpTypeOK, OwnContext
<1>2. ctx' \in [Servers -> Context] /\ ctx'[v] = c /\ \A w \in Servers \ {v} : ctx'[w] = ctx[w]
  BY <1>1
<1>3. ASSUME NEW w \in Servers
      PROVE  /\ pc'[w] # "ready" => ctx'[w].session_id # None
             /\ pc'[w] = "storing_thread" => ctx'[w].thread_id # None
  BY <1>2 DEF McpInv, McpTypeOK
<1>4. ASSUME NEW w \in Servers
      PROVE  /\ ctx'[w].thread_id \in ThreadsOf[ClientOf[w]] \cup {None}
             /\ ctx'[w].session_id # None => MayUse(ClientOf[w], ctx'[w].session_id)
             /\ pc'[w] # "ready" => made[ctx'[w].session_id].filed = ctx'[w].thread_id
  BY <1>2 DEF McpInv, ContextsAreOwn, OwnContext
<1>5. ContextsAreOwn'
  BY <1>4 DEF ContextsAreOwn, MayUse
<1>6. ASSUME data' \in [Servers \cup {Shared} -> [Keys -> Context \cup {None}]],
             told' \in [Clients -> SUBSET Sessions]
      PROVE  McpTypeOK'
  BY <1>2, <1>3, <1>6 DEF McpInv, McpTypeOK
<1>. QED  BY <1>5, <1>6

LEMMA RefusedStep ==
  ASSUME McpInv, NEW v \in Servers, NEW t \in ThreadsOf[ClientOf[v]] \cup {None},
         CreateRefused(v, t)
  PROVE  McpInv'
<1> DEFINE c == [session_id |-> ctx[v].session_id, thread_id |-> Or(t, ctx[v].thread_id)]
<1>1. with_thread(ctx[v], t) = c /\ Or(t, ctx[v].thread_id) \in ThreadsOf[ClientOf[v]] \cup {None}
      /\ Or(t, ctx[v].thread_id) \in Threads \cup {None}
  BY WithThread
<1> HIDE DEF Or
<1>2. OwnContext(c, v)
  BY <1>1, StateFacts DEF OwnContext, Context
<1>3. ctx' = [ctx EXCEPT ![v] = c]
  BY <1>1 DEF CreateRefused
<1> HIDE DEF c
<1>4. pc[v] = "ready" /\ UNCHANGED <<backend, pc, data, made, told, last>>
  BY DEF CreateRefused
<1>5. ContextsAreOwn' /\ McpTypeOK'
  BY <1>2, <1>3, <1>4, ContextChanges DEF McpInv, McpTypeOK
<1>6. RecordsAreTrue'
  BY <1>4 DEF McpInv, RecordsAreTrue, RecordTells
<1>. QED  BY <1>4, <1>5, <1>6, NothingMade

(* Records change only: to the record of a server under keys it is found by,  *)
(* or to nothing.                                                             *)
LEMMA RecordsChange ==
  ASSUME McpInv, UNCHANGED <<backend, ctx, made, told, last>>,
         pc' \in [Servers -> {"ready", "storing", "storing_thread"}],
         \A w \in Servers : pc'[w] # pc[w] =>
           \/ pc'[w] = "ready"
           \/ pc[w] = "storing" /\ ctx[w].thread_id # None,
         data' \in [Servers \cup {Shared} -> [Keys -> Context \cup {None}]],
         \A o \in Servers \cup {Shared}, k \in Keys :
           data'[o][k] \in {data[o][k], None} \/ RecordTells(data'[o][k], k)
  PROVE  McpInv'
<1>1. ASSUME NEW w \in Servers
      PROVE  /\ pc'[w] # "ready" => pc[w] # "ready"
             /\ pc'[w] = "storing_thread" => pc[w] = "storing_thread" \/ ctx[w].thread_id # None
  OBVIOUS
<1>2. McpTypeOK' /\ ContextsAreOwn'
  BY <1>1 DEF McpInv, McpTypeOK, ContextsAreOwn, MayUse
<1>3. ASSUME NEW o \in Servers \cup {Shared}, NEW k \in Keys, data'[o][k] # None
      PROVE  RecordTells(data[o][k], k)'
  <2>1. RecordTells(data'[o][k], k)
    BY <1>3 DEF McpInv, RecordsAreTrue
  <2>. QED  BY <2>1 DEF RecordTells
<1>4. RecordsAreTrue'
  BY <1>3 DEF RecordsAreTrue
<1>. QED  BY <1>2, <1>4, NothingMade

LEMMA WriteIsTrue ==
  ASSUME McpInv, NEW v \in Servers, NEW keys, Write(v, keys),
         \A k \in keys \cap Keys : RecordTells(ctx[v], k)
  PROVE  /\ data' \in [Servers \cup {Shared} -> [Keys -> Context \cup {None}]]
         /\ \A o \in Servers \cup {Shared}, k \in Keys :
              data'[o][k] \in {data[o][k], None} \/ RecordTells(data'[o][k], k)
<1> DEFINE row == [k \in Keys |-> IF k \in keys THEN ctx[v] ELSE data[store_of(v)][k]]
<1>1. store_of(v) \in Servers \cup {Shared} /\ ctx[v] \in Context
      /\ data \in [Servers \cup {Shared} -> [Keys -> Context \cup {None}]]
  BY DEF store_of, McpInv, McpTypeOK
<1>2. data' = [data EXCEPT ![store_of(v)] = row]
  BY DEF Write
<1>3. row \in [Keys -> Context \cup {None}]
  BY <1>1
<1>4. \A k \in Keys : row[k] = data[store_of(v)][k] \/ RecordTells(row[k], k)
  OBVIOUS
<1> HIDE DEF row
<1>. QED  BY <1>1, <1>2, <1>3, <1>4

LEMMA StoreStep ==
  ASSUME McpInv, NEW v \in Servers, set_session(v) \/ set_thread(v) \/ SetFails(v)
  PROVE  McpInv'
<1>1. pc \in [Servers -> {"ready", "storing", "storing_thread"}]
      /\ data \in [Servers \cup {Shared} -> [Keys -> Context \cup {None}]]
  BY DEF McpInv, McpTypeOK
<1>2. /\ pc[v] # "ready" => RecordTells(ctx[v], ctx[v].session_id)
      /\ pc[v] # "ready" /\ ctx[v].thread_id # None => RecordTells(ctx[v], ctx[v].thread_id)
      /\ None \notin Keys
  BY StateFacts, McpAssumption DEF RecordTells, Keys
<1>3. CASE set_session(v)
  <2> DEFINE keys == IF backend = "memory" THEN {ctx[v].session_id, ctx[v].thread_id}
                     ELSE {ctx[v].session_id}
  <2>1. pc[v] = "storing" /\ Write(v, keys) /\ UNCHANGED <<backend, ctx, made, told, last>>
        /\ pc' = [pc EXCEPT ![v] = IF backend = "redis" /\ ctx[v].thread_id # None
                                   THEN "storing_thread" ELSE "ready"]
    BY <1>3 DEF set_session
  <2>2. \A k \in keys \cap Keys : RecordTells(ctx[v], k)
    BY <1>2, <2>1
  <2> HIDE DEF keys
  <2>3. pc' \in [Servers -> {"ready", "storing", "storing_thread"}]
        /\ \A w \in Servers : pc'[w] # pc[w] =>
             pc'[w] = "ready" \/ (pc[w] = "storing" /\ ctx[w].thread_id # None)
    BY <1>1, <2>1
  <2>. QED  BY <2>1, <2>2, <2>3, WriteIsTrue, RecordsChange
<1>4. CASE set_thread(v)
  <2>1. pc[v] = "storing_thread" /\ Write(v, {ctx[v].thread_id})
        /\ UNCHANGED <<backend, ctx, made, told, last>> /\ pc' = [pc EXCEPT ![v] = "ready"]
    BY <1>4 DEF set_thread
  <2>2. \A k \in {ctx[v].thread_id} \cap Keys : RecordTells(ctx[v], k)
    BY <1>2, <2>1
  <2>3. pc' \in [Servers -> {"ready", "storing", "storing_thread"}]
        /\ \A w \in Servers : pc'[w] # pc[w] => pc'[w] = "ready"
    BY <1>1, <2>1
  <2>. QED  BY <2>1, <2>2, <2>3, WriteIsTrue, RecordsChange
<1>5. CASE SetFails(v)
  <2>1. UNCHANGED <<backend, ctx, data, made, told, last>> /\ pc' = [pc EXCEPT ![v] = "ready"]
    BY <1>5 DEF SetFails
  <2>2. pc' \in [Servers -> {"ready", "storing", "storing_thread"}]
        /\ \A w \in Servers : pc'[w] # pc[w] => pc'[w] = "ready"
    BY <1>1, <2>1
  <2>. QED  BY <1>1, <2>1, <2>2, RecordsChange
<1>. QED  BY <1>3, <1>4, <1>5

LEMMA ExpireStep ==
  ASSUME McpInv, NEW k \in Keys, Expire(k)
  PROVE  McpInv'
<1> DEFINE row == [data[Shared] EXCEPT ![k] = None]
<1>1. data \in [Servers \cup {Shared} -> [Keys -> Context \cup {None}]]
      /\ pc \in [Servers -> {"ready", "storing", "storing_thread"}]
  BY DEF McpInv, McpTypeOK
<1>2. data' = [data EXCEPT ![Shared] = row] /\ UNCHANGED <<backend, ctx, pc, made, told, last>>
  BY DEF Expire
<1>3. row \in [Keys -> Context \cup {None}] /\ \A j \in Keys : row[j] \in {data[Shared][j], None}
  BY <1>1
<1> HIDE DEF row
<1>4. data' \in [Servers \cup {Shared} -> [Keys -> Context \cup {None}]]
      /\ \A o \in Servers \cup {Shared}, j \in Keys : data'[o][j] \in {data[o][j], None}
  BY <1>1, <1>2, <1>3
<1>. QED  BY <1>1, <1>2, <1>4, RecordsChange

LEMMA ReconnectStep ==
  ASSUME McpInv, NEW v \in Servers, Reconnect(v)
  PROVE  McpInv'
<1>1. data \in [Servers \cup {Shared} -> [Keys -> Context \cup {None}]]
      /\ pc \in [Servers -> {"ready", "storing", "storing_thread"}]
      /\ told \in [Clients -> SUBSET Sessions]
  BY DEF McpInv, McpTypeOK
<1>2. OwnContext(NewContext, v)
  BY DEF OwnContext, NewContext, Context
<1>3. ctx' = [ctx EXCEPT ![v] = NewContext] /\ pc' = [pc EXCEPT ![v] = "ready"]
      /\ data' = (IF backend = "memory" THEN [data EXCEPT ![v] = NoRecords] ELSE data)
      /\ UNCHANGED <<backend, made, told, last>>
  BY DEF Reconnect
<1>4. NoRecords \in [Keys -> Context \cup {None}] /\ \A k \in Keys : NoRecords[k] = None
  BY DEF NoRecords
<1>5. data' \in [Servers \cup {Shared} -> [Keys -> Context \cup {None}]]
      /\ \A o \in Servers \cup {Shared}, k \in Keys : data'[o][k] \in {data[o][k], None}
  BY <1>1, <1>3, <1>4
<1>6. ContextsAreOwn' /\ McpTypeOK'
  BY <1>1, <1>2, <1>3, <1>5, ContextChanges
<1>7. ASSUME NEW o \in Servers \cup {Shared}, NEW k \in Keys, data'[o][k] # None
      PROVE  RecordTells(data[o][k], k)'
  <2>1. RecordTells(data'[o][k], k)
    BY <1>5, <1>7 DEF McpInv, RecordsAreTrue
  <2>. QED  BY <1>3, <2>1 DEF RecordTells
<1>8. RecordsAreTrue'
  BY <1>7 DEF RecordsAreTrue
<1>. QED  BY <1>3, <1>6, <1>8, NothingMade

(* A call restores twice, and goes to a session of its client: the one it     *)
(* names, or the one its context has by then.                                 *)
LEMMA CallStep ==
  ASSUME McpInv, NEW v \in Servers, NEW t \in ThreadsOf[ClientOf[v]] \cup {None},
         NEW sid \in Sessions \cup {None}, ToolCall(v, sid, t)
  PROVE  /\ McpInv'
         /\ ctx[v].session_id # None => ctx'[v].session_id = ctx[v].session_id
         /\ \A w \in Servers \ {v} : ctx'[w] = ctx[w]
<1> USE McpAssumption
<1>1. PICK byThread \in maybe_restore(ctx[v], v, t) :
        LET c == load_from_dict(ctx[v], byThread) IN
        \E bySession \in maybe_restore(c, v, Or(sid, c.session_id)) :
          LET d == load_from_dict(c, bySession)
              s == Or(sid, d.session_id)
          IN /\ ctx' = [ctx EXCEPT ![v] = d]
             /\ last' = IF s = None THEN last
                        ELSE [client |-> ClientOf[v], session |-> s,
                              restored |-> IF sid = None /\ byThread # None
                                           THEN t ELSE None]
             /\ told' = [told EXCEPT ![ClientOf[v]] = @ \cup ({s} \ {None})]
  BY DEF ToolCall
<1> DEFINE c == load_from_dict(ctx[v], byThread)
<1>2. PICK bySession \in maybe_restore(c, v, Or(sid, c.session_id)) :
        LET d == load_from_dict(c, bySession)
            s == Or(sid, d.session_id)
        IN /\ ctx' = [ctx EXCEPT ![v] = d]
           /\ last' = IF s = None THEN last
                      ELSE [client |-> ClientOf[v], session |-> s,
                            restored |-> IF sid = None /\ byThread # None
                                         THEN t ELSE None]
           /\ told' = [told EXCEPT ![ClientOf[v]] = @ \cup ({s} \ {None})]
  BY <1>1
<1> DEFINE d == load_from_dict(c, bySession)
           s == Or(sid, d.session_id)
           restored == IF sid = None /\ byThread # None THEN t ELSE None
           call == [client |-> ClientOf[v], session |-> s, restored |-> restored]
<1>3. ctx' = [ctx EXCEPT ![v] = d] /\ last' = (IF s = None THEN last ELSE call)
      /\ told' = [told EXCEPT ![ClientOf[v]] = @ \cup ({s} \ {None})]
  BY <1>2
<1>4. /\ pc[v] = "ready" /\ UNCHANGED <<backend, pc, data, made>>
      /\ sid # None => MayUse(ClientOf[v], sid)
  BY McpAssumption DEF ToolCall, McpInv, ToldAreOwn
<1>5. OwnContext(ctx[v], v) /\ ClientOf[v] \in Clients /\ t \in Threads \cup {None}
      /\ t \in Keys \cup {None}
  BY StateFacts DEF Keys
<1>6. /\ OwnContext(c, v)
      /\ ctx[v].session_id # None => c = ctx[v]
      /\ byThread # None /\ t \in Threads => c.session_id # None /\ made[c.session_id].filed = t
  BY <1>5, RestoringKeepsOwn
<1>7. byThread # None => t \in Threads
  BY <1>5, RestoredIsTrue
<1> HIDE DEF c
<1>8. LET key == Or(sid, c.session_id) IN
      /\ key \in Keys \cup {None}
      /\ key = None \/ (key \in Sessions /\ MayUse(ClientOf[v], key))
  BY <1>4, <1>6 DEF Or, OwnContext, Context, Keys
<1>9. OwnContext(d, v) /\ (c.session_id # None => d = c)
  <2> DEFINE key == Or(sid, c.session_id)
  <2>1. key \in Keys \cup {None} /\ bySession \in maybe_restore(c, v, key)
        /\ (key = None \/ (key \in Sessions /\ MayUse(ClientOf[v], key)))
    BY <1>8
  <2> HIDE DEF key
  <2>. QED  BY <1>6, <2>1, RestoringKeepsOwn
<1> HIDE DEF d
<1>10. s \in Sessions \cup {None} /\ (s # None => MayUse(ClientOf[v], s))
  BY <1>4, <1>9 DEF Or, OwnContext, Context
<1>11. restored # None => restored = t /\ s # None /\ made[s].filed = restored
  BY <1>6, <1>7, <1>9 DEF Or
<1>12. restored \in Threads \cup {None}
  BY <1>5
<1> HIDE DEF s, restored
<1>13. call \in [client : Clients, session : Sessions \cup {None}, restored : Threads \cup {None}]
       /\ call.client = ClientOf[v] /\ call.session = s /\ call.restored = restored
  BY <1>5, <1>10, <1>12
<1>14. s # None => call \in [client : Clients, session : Sessions, restored : Threads \cup {None}]
  BY <1>5, <1>10, <1>12
<1> HIDE DEF call
<1>15. /\ told' \in [Clients -> SUBSET Sessions]
       /\ \A x \in Clients : told'[x] \subseteq told[x] \cup (IF x = ClientOf[v] THEN {s} \ {None} ELSE {})
  <2>1. told \in [Clients -> SUBSET Sessions]
    BY DEF McpInv, McpTypeOK
  <2>. QED  BY <1>3, <1>5, <1>10, <2>1
<1>16. ContextsAreOwn' /\ McpTypeOK'
  BY <1>3, <1>4, <1>9, <1>15, ContextChanges DEF McpInv, McpTypeOK
<1>17. RecordsAreTrue' /\ ThreadsAreOwn' /\ ToldAreOwn' /\ LastCallIsKnown'
       /\ CallsStayWithTheirClient' /\ ThreadRestoresItsOwnSession'
  <2>1. RecordsAreTrue' /\ ThreadsAreOwn'
    BY <1>4 DEF McpInv, RecordsAreTrue, RecordTells, ThreadsAreOwn
  <2>2. ToldAreOwn'
    <3> SUFFICES ASSUME NEW x \in Clients, NEW y \in told'[x] PROVE MayUse(x, y)
      BY <1>4 DEF ToldAreOwn, MayUse
    <3>. QED  BY <1>10, <1>15 DEF McpInv, ToldAreOwn
  <2>3. CASE s = None
    <3>1. LastCallIsKnown' /\ CallsStayWithTheirClient' /\ ThreadRestoresItsOwnSession'
      BY <1>3, <1>4, <2>3 DEF McpInv, LastCallIsKnown, CallsStayWithTheirClient,
                              ThreadRestoresItsOwnSession, MayUse
    <3>. QED  BY <2>1, <2>2, <3>1
  <2>4. CASE s # None
    <3>1. last' = call /\ made' = made
      BY <1>3, <1>4, <2>4
    <3>2. s \in Sessions /\ MayUse(ClientOf[v], s) /\ made[s] # None
      BY <1>10, <2>4 DEF MayUse
    <3>3. /\ made[s].filed \in ThreadsOf[made[s].client] \cup {None}
          /\ made[s].given \in {made[s].filed, None}
          /\ None \notin ThreadsOf[ClientOf[v]]
      BY <1>5, <3>2 DEF McpInv, ThreadsAreOwn
    <3>4. LastCallIsKnown'
      BY <1>13, <1>14, <3>1, <3>2 DEF LastCallIsKnown, MayUse
    <3>5. CallsStayWithTheirClient'
      BY <1>13, <3>1, <3>2, <3>3 DEF CallsStayWithTheirClient, MayUse
    <3>6. ThreadRestoresItsOwnSession'
      BY <1>11, <1>13, <3>1, <3>3 DEF ThreadRestoresItsOwnSession
    <3>. QED  BY <2>1, <2>2, <3>4, <3>5, <3>6
  <2>. QED  BY <2>3, <2>4
<1>18. ctx \in [Servers -> Context]
  BY DEF McpInv, McpTypeOK
<1>19. ctx'[v] = d /\ \A w \in Servers \ {v} : ctx'[w] = ctx[w]
  BY <1>3, <1>18
<1>20. ctx[v].session_id # None => d.session_id = ctx[v].session_id
  BY <1>6, <1>9
<1>. QED  BY <1>16, <1>17, <1>19, <1>20 DEF McpInv

LEMMA NextKeepsInv == McpInv /\ [McpNext]_vars => McpInv'
<1> SUFFICES ASSUME McpInv, [McpNext]_vars PROVE McpInv'
  OBVIOUS
<1>1. CASE \E v \in Servers : ServerStep(v)
  <2>1. PICK v \in Servers : ServerStep(v)
    BY <1>1
  <2>2. ASSUME NEW t \in ThreadsOf[ClientOf[v]] \cup {None}, NEW s \in Sessions, create_session(v, t, s)
        PROVE  McpInv'
    BY <2>2, CreateStep
  <2>3. ASSUME NEW t \in ThreadsOf[ClientOf[v]] \cup {None}, CreateRefused(v, t)
        PROVE  McpInv'
    BY <2>3, RefusedStep
  <2>4. ASSUME NEW t \in ThreadsOf[ClientOf[v]] \cup {None}, NEW sid \in Sessions \cup {None},
               ToolCall(v, sid, t)
        PROVE  McpInv'
    BY <2>4, CallStep
  <2>5. CASE set_session(v) \/ set_thread(v) \/ SetFails(v)
    BY <2>5, StoreStep
  <2>6. CASE Reconnect(v)
    BY <2>6, ReconnectStep
  <2>. QED  BY <2>1, <2>2, <2>3, <2>4, <2>5, <2>6 DEF ServerStep
<1>2. CASE \E k \in Keys : Expire(k)
  BY <1>2, ExpireStep
<1>3. CASE UNCHANGED vars
  <2>1. UNCHANGED <<backend, ctx, pc, data, made, told, last>>
    BY <1>3 DEF vars
  <2>. QED  BY <2>1 DEF McpInv, McpTypeOK, ContextsAreOwn, RecordsAreTrue, RecordTells,
                        ThreadsAreOwn, ToldAreOwn, MayUse, LastCallIsKnown, CallsStayWithTheirClient,
                        ThreadRestoresItsOwnSession
<1>. QED  BY <1>1, <1>2, <1>3 DEF McpNext

(* The invariant behind the theorems below, for every behaviour of the MCP    *)
(* servers and their store.                                                   *)
THEOREM McpInvariant == McpSpec => []McpInv
<1>1. McpInit => McpInv
  BY InitInv
<1>2. McpInv /\ [McpNext]_vars => McpInv'
  BY NextKeepsInv
<1>. QED  BY <1>1, <1>2, PTL DEF McpSpec

(* Every variable keeps its type, and a server only stores a session it has   *)
(* and only writes a thread it has (mcp_session_store.py, RedisStore.set).    *)
THEOREM McpTypeCorrect == McpSpec => []McpTypeOK
<1>1. McpInv => McpTypeOK
  BY DEF McpInv
<1>. QED  BY <1>1, McpInvariant, PTL

(* A call of an MCP tool goes to a session created for the client that makes  *)
(* it or filed under a thread id that both clients use, though all clients    *)
(* share a store that forgets, fails halfway and, in Postgres, answers with   *)
(* any row that has the key.                                                  *)
THEOREM CallsGoHome == McpSpec => []CallsStayWithTheirClient
<1>1. McpInv => CallsStayWithTheirClient
  BY DEF McpInv
<1>. QED  BY <1>1, McpInvariant, PTL

(* A session reached by a thread id was created with that thread_id, or with  *)
(* none; never with another one, and never by a client that does not use it.  *)
THEOREM ThreadsFindTheirSession == McpSpec => []ThreadRestoresItsOwnSession
<1>1. McpInv => ThreadRestoresItsOwnSession
  BY DEF McpInv
<1>. QED  BY <1>1, McpInvariant, PTL

(* No step moves a server from one session to another that existed before:    *)
(* restoring only fills an empty context (_maybe_restore).                    *)
THEOREM SessionsStick == McpSpec => ServerKeepsItsSession
<1> DEFINE Sticks(v) == ctx[v].session_id # None /\ ctx'[v].session_id # ctx[v].session_id
                          => ctx'[v] = NewContext \/ made[ctx'[v].session_id] = None
<1>1. McpInv /\ [McpNext]_vars => [\A v \in Servers : Sticks(v)]_vars
  <2> SUFFICES ASSUME McpInv, McpNext, NEW v \in Servers PROVE Sticks(v)
    OBVIOUS
  <2>1. CASE UNCHANGED ctx
    BY <2>1
  <2>2. ASSUME NEW u \in Servers, NEW t \in ThreadsOf[ClientOf[u]] \cup {None},
               NEW s \in Sessions, create_session(u, t, s)
        PROVE  Sticks(v)
    <3>1. with_thread(ctx[u], t) = [session_id |-> ctx[u].session_id,
                                    thread_id |-> Or(t, ctx[u].thread_id)]
      BY WithThread
    <3>2. made[s] = None /\ ctx' = [ctx EXCEPT ![u] = [with_thread(ctx[u], t) EXCEPT !.session_id = s]]
      BY <2>2 DEF create_session
    <3>3. [with_thread(ctx[u], t) EXCEPT !.session_id = s].session_id = s
      BY <3>1
    <3>4. ctx \in [Servers -> Context]
      BY DEF McpInv, McpTypeOK
    <3>. QED  BY <3>2, <3>3, <3>4
  <2>3. ASSUME NEW u \in Servers, NEW t \in ThreadsOf[ClientOf[u]] \cup {None}, CreateRefused(u, t)
        PROVE  Sticks(v)
    <3>1. with_thread(ctx[u], t) = [session_id |-> ctx[u].session_id,
                                    thread_id |-> Or(t, ctx[u].thread_id)]
      BY WithThread
    <3>2. ctx' = [ctx EXCEPT ![u] = with_thread(ctx[u], t)] /\ ctx \in [Servers -> Context]
      BY <2>3 DEF CreateRefused, McpInv, McpTypeOK
    <3>. QED  BY <3>1, <3>2
  <2>4. ASSUME NEW u \in Servers, NEW t \in ThreadsOf[ClientOf[u]] \cup {None},
               NEW sid \in Sessions \cup {None}, ToolCall(u, sid, t)
        PROVE  Sticks(v)
    BY <2>4, CallStep
  <2>5. ASSUME NEW u \in Servers, Reconnect(u)
        PROVE  Sticks(v)
    <3>1. ctx' = [ctx EXCEPT ![u] = NewContext] /\ ctx \in [Servers -> Context]
      BY <2>5 DEF Reconnect, McpInv, McpTypeOK
    <3>. QED  BY <3>1
  <2>6. ASSUME NEW u \in Servers, set_session(u) \/ set_thread(u) \/ SetFails(u)
        PROVE  UNCHANGED ctx
    BY <2>6 DEF set_session, set_thread, SetFails
  <2>7. ASSUME NEW k \in Keys, Expire(k)
        PROVE  UNCHANGED ctx
    BY <2>7 DEF Expire
  <2>. HIDE DEF Sticks
  <2>. QED  BY <2>1, <2>2, <2>3, <2>4, <2>5, <2>6, <2>7 DEF McpNext, ServerStep
<1>. QED  BY <1>1, McpInvariant, PTL DEF McpSpec, ServerKeepsItsSession
=============================================================================
