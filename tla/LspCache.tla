------------------------------- MODULE LspCache -------------------------------
(* The gateway's cache of language servers (lsp_client.py): requests of many  *)
(* sessions run in threads, one `lean --server` process per workspace is      *)
(* started under a lock, reused, evicted when the cache is full, and read by  *)
(* whoever holds it, without a lock: first a header line, then the body.      *)
EXTENDS Naturals, Sequences, FiniteSets

CONSTANTS
  None,             \* no process, no workspace, no thread
  Requests,         \* threads serving one request each
  Workspaces,       \* resolved workspace paths, the keys of _LSP_CACHE
  Procs,            \* bound: language servers that can ever be started
  Documents,        \* texts of files that requests open
  Broken,           \* the documents Lean reports an error for
  MaxSize,          \* _LSP_MAX_SIZE
  StandardFraming   \* the server ends its header with an empty line

ASSUME LspAssumption ==
  /\ None \notin Requests \cup Workspaces \cup Procs \cup {"errors", "not_started"}
  /\ Broken \subseteq Documents
  /\ Documents \cap {"initialize", "query"} = {}
  /\ MaxSize \in Nat \ {0}
  /\ StandardFraming \in BOOLEAN

VARIABLES
  lock,     \* the thread that holds _LSP_LOCK across a blocking start
  cached,   \* _LSP_CACHE: the process of a workspace
  older,    \* <<v, w>> : the time stamp of v is older than that of w
  home,     \* the workspace a process was started in, None before
  alive,    \* processes that have not exited
  stdin,    \* what was written to a process and it has not answered
  stdout,   \* what it wrote and nobody has read
  reads,    \* how far into _read each thread is
  req       \* the threads

lspVars == <<lock, cached, older, home, alive, stdin, stdout, reads, req>>

Operations == {"check", "goal"}
LspPhases == {"idle", "called", "starting", "open", "reading", "replying",
              "touching", "done"}
LspAnswers == {None, "ok", "errors", "not_ok", "goals", "raised", "not_started"}

(* A message is what the reader tells apart: the response with a result to a *)
(* request, diagnostics of some document, and any other, a notification.     *)
Message == [kind : {"notification", "diagnostics", "response"},
            about : Documents \cup {None}]
Notification == [kind |-> "notification", about |-> None]
Diagnostics(d) == [kind |-> "diagnostics", about |-> d]
Response == [kind |-> "response", about |-> None]

(* The stream of a server's output: the header line and the body of each      *)
(* message, and what is left of one, a "line" or a "text", when a read ended  *)
(* in its middle. The body ends no line. A length in bytes is one in          *)
(* characters, and no message has more than 65536.                            *)
Piece == [part : {"header", "body", "line", "text"}, message : Message]
PieceOf(p, m) == [part |-> p, message |-> m]
Sent(m) == <<PieceOf("header", m), PieceOf("body", m)>>
EndsLine(x) == x.part \in {"header", "line"}
LeftOf(x) == PieceOf(IF EndsLine(x) THEN "line" ELSE "text", x.message)

(* A thread is about to read a line, in the middle of one that is no header,  *)
(* about to read the body that is due, or past the point where that body ends.*)
Reading == [stage : {"line", "middle", "body", "torn"}, due : Message \cup {None}]
AtLine == [stage |-> "line", due |-> None]
InMiddle == [stage |-> "middle", due |-> None]
Due(m) == [stage |-> "body", due |-> m]
Torn == [stage |-> "torn", due |-> None]

(* What is written to a server: initialize, a didOpen with its text, a query.*)
Input == {"initialize", "query"} \cup Documents

Request == [pc : LspPhases, op : Operations, ws : Workspaces \cup {None},
            doc : Documents \cup {None}, proc : Procs \cup {None},
            answer : LspAnswers]

Restricted(kept) == [w \in Workspaces |-> IF w \in kept THEN cached[w] ELSE None]
Keys(c) == {w \in Workspaces : c[w] # None}

(* A fresh time stamp for w, if the cache c has an entry for it.            *)
Touched(c, w) ==
  {o \in older : {o[1], o[2]} \subseteq Keys(c) \ {w}}
    \cup {<<v, w>> : v \in IF w \in Keys(c) THEN Keys(c) \ {w} ELSE {}}

(* while len(_LSP_CACHE) >= _LSP_MAX_SIZE: _evict_oldest(). What can be left *)
(* are the most recently used entries, one fewer than the cache may hold.    *)
MostRecent(keys, n) ==
  {kept \in SUBSET keys :
     /\ Cardinality(kept) = n
     /\ \A k \in kept, e \in keys \ kept : <<e, k>> \in older}

evict_oldest(keys) ==
  IF Cardinality(keys) < MaxSize THEN {keys} ELSE MostRecent(keys, MaxSize - 1)

(* Evicted processes are terminated and, if need be, killed.                 *)
EvictEntryOnly(kept) == alive     \* a mistake: the process is forgotten
StillAlive(kept) == alive \ {cached[w] : w \in Keys(cached) \ kept}

(* A mistake: a key that several workspaces share.                           *)
ServerOfAnyWorkspace(w) ==
  IF \E v \in Workspaces : cached[v] \in alive
  THEN cached[CHOOSE v \in Workspaces : cached[v] \in alive] ELSE None

server_of(w) == cached[w]
Usable(w) == server_of(w) \in alive
-----------------------------------------------------------------------------
LspInit ==
  /\ lock = None
  /\ cached = [w \in Workspaces |-> None]
  /\ older = {}
  /\ home = [p \in Procs |-> None]
  /\ alive = {}
  /\ stdin = [p \in Procs |-> <<>>]
  /\ stdout = [p \in Procs |-> <<>>]
  /\ reads = [r \in Requests |-> AtLine]
  /\ req = [r \in Requests |->
              [pc |-> "idle", op |-> "check", ws |-> None, doc |-> None,
               proc |-> None, answer |-> None]]

at(r) == req[r].pc
Goto(r, next) == req' = [req EXCEPT ![r].pc = next]
Finishes(r, next, a) == req' = [req EXCEPT ![r].pc = next, ![r].answer = a]

(* A gateway thread enters run_check, or one of run_get_goal, run_hover and  *)
(* run_definition, which read alike.                                         *)
LspCall(r, op, w, d) ==
  /\ at(r) = "idle"
  /\ req' = [req EXCEPT ![r].pc = "called", ![r].op = op,
                        ![r].ws = w, ![r].doc = d]
  /\ UNCHANGED <<lock, cached, older, home, alive, stdin, stdout, reads>>

(* _get_or_create_lsp finds a live process.                                  *)
Reuse(r) ==
  LET w == req[r].ws IN
  /\ at(r) = "called" /\ lock = None /\ Usable(w)
  /\ older' = Touched(cached, w)
  /\ req' = [req EXCEPT ![r].pc = "open", ![r].proc = server_of(w)]
  /\ UNCHANGED <<lock, cached, home, alive, stdin, stdout, reads>>

(* The next process, when one is left: which of them it is, is only a name.  *)
NewProc == CHOOSE p \in Procs : home[p] = None

(* _get_or_create_lsp drops a dead entry, makes room, and _start_lsp spawns  *)
(* a server, writes initialize and goes to wait, all under the lock.         *)
Spawn(r, p, kept) ==
  LET w == req[r].ws IN
  /\ at(r) = "called" /\ lock = None /\ ~Usable(w)
  /\ p = NewProc /\ home[p] = None
  /\ kept \in evict_oldest(Keys(cached) \ {w})
  /\ lock' = r
  /\ cached' = Restricted(kept)
  /\ home' = [home EXCEPT ![p] = w]
  /\ alive' = StillAlive(kept) \cup {p}
  /\ stdin' = [stdin EXCEPT ![p] = <<"initialize">>]
  /\ req' = [req EXCEPT ![r].pc = "starting", ![r].proc = p]
  /\ UNCHANGED <<older, stdout, reads>>

(* The same with no `lean` to run: Popen raises OSError after the eviction.  *)
SpawnFails(r, kept) ==
  /\ at(r) = "called" /\ lock = None /\ ~Usable(req[r].ws)
  /\ kept \in evict_oldest(Keys(cached) \ {req[r].ws})
  /\ cached' = Restricted(kept)
  /\ alive' = StillAlive(kept)
  /\ Finishes(r, "done", "not_ok")
  /\ UNCHANGED <<lock, older, home, stdin, stdout, reads>>

(* _read, by whichever threads hold the server: readline and read take what  *)
(* is at the head of one stream, nobody's lock held, and wait for more.      *)
InRead(r) == at(r) \in {"starting", "reading", "replying"}
stage(r) == reads[r].stage
Stream(r) == stdout[req[r].proc]
Received(r) == Head(Stream(r))
Take(r, rest) == stdout' = [stdout EXCEPT ![req[r].proc] = rest]
AtEof(r) == Stream(r) = <<>> /\ req[r].proc \notin alive

(* The body that is due was taken by a thread that read in between.          *)
Astray(r) ==
  \/ stage(r) = "torn"
  \/ stage(r) = "body" /\ Received(r) # PieceOf("body", reads[r].due)

(* Steps within _read: readline has a header; or the beginning of a line      *)
(* that is none; or read(n) went past the body that is due and takes more.   *)
ReadsOn(r) ==
  /\ InRead(r) /\ Stream(r) # <<>>
  /\ Take(r, Tail(Stream(r)))
  /\ \/ /\ stage(r) = "line" /\ Received(r).part = "header"
        /\ reads' = [reads EXCEPT ![r] = Due(Received(r).message)]
     \/ /\ stage(r) \in {"line", "middle"} /\ ~EndsLine(Received(r))
        /\ reads' = [reads EXCEPT ![r] = InMiddle]
     \/ /\ Astray(r)
        /\ reads' = [reads EXCEPT ![r] = Torn]
  /\ UNCHANGED <<lock, cached, older, home, alive, stdin, req>>

(* _read returns m: None for a line that is no header and at the end of the  *)
(* stream, else the body at the head, its own or one of the same length.     *)
Returns(r, m) ==
  /\ reads' = [reads EXCEPT ![r] = AtLine]
  /\ \/ /\ Stream(r) # <<>> /\ EndsLine(Received(r))
        /\ stage(r) = "middle" \/ (stage(r) = "line" /\ Received(r).part = "line")
        /\ m = None
        /\ Take(r, Tail(Stream(r)))
     \/ /\ AtEof(r) /\ stage(r) # "torn"
        /\ m = None
        /\ UNCHANGED stdout
     \/ /\ Stream(r) # <<>> /\ stage(r) = "body" /\ Received(r).part = "body"
        /\ m = Received(r).message
        /\ Take(r, Tail(Stream(r)))

(* _read raises: what it took for a body is no JSON. It may have ended in    *)
(* the middle of a piece.                                                    *)
Raises(r) ==
  /\ reads' = [reads EXCEPT ![r] = AtLine]
  /\ \/ /\ Stream(r) # <<>> /\ Astray(r)
        /\ \/ Take(r, Tail(Stream(r)))
           \/ Take(r, <<LeftOf(Received(r))>> \o Tail(Stream(r)))
     \/ /\ AtEof(r) /\ stage(r) = "torn"
        /\ UNCHANGED stdout

(* The answer to initialize, when the first message is one.                  *)
Initialized(r) ==
  LET w == req[r].ws
      p == req[r].proc
      filled == [cached EXCEPT ![w] = p]
  IN
  /\ at(r) = "starting" /\ p \in alive /\ ~StandardFraming
  /\ Returns(r, Response)
  /\ lock' = None
  /\ cached' = filled
  /\ older' = Touched(filled, w)
  /\ Goto(r, "open")
  /\ UNCHANGED <<home, alive, stdin>>

(* An exception leaves _start_lsp and _get_or_create_lsp, past the clean-up   *)
(* and the cache: the pipe of a dead process breaks, or _read raises. It     *)
(* takes Content-Length characters right after the header line, which are    *)
(* not the body where an empty line ends the header.                         *)
StartRaises(r) ==
  /\ at(r) = "starting"
  /\ \/ req[r].proc \notin alive /\ UNCHANGED <<stdout, reads>>
     \/ StandardFraming /\ \E m \in Message : Returns(r, m)
     \/ Raises(r)
  /\ lock' = None
  /\ Finishes(r, "done", "not_started")
  /\ UNCHANGED <<cached, older, home, alive, stdin>>

(* There is no first message, or one without a result. The server, which may *)
(* be as alive as before, is terminated; if it has not ended two seconds     *)
(* later, wait raises and leaves it running.                                 *)
NoResult(r) ==
  \E m \in {None} \cup (IF StandardFraming THEN {} ELSE Message \ {Response}) :
    Returns(r, m)

(* A mistake: a failed start returns with the lock still held.               *)
InitializeFailsUnderLock(r) ==
  /\ at(r) = "starting" /\ NoResult(r)
  /\ alive' = alive \ {req[r].proc}
  /\ Finishes(r, "done", "not_ok")
  /\ UNCHANGED <<lock, cached, older, home, stdin>>

InitializeFails(r) ==
  /\ at(r) = "starting" /\ NoResult(r)
  /\ \/ alive' = alive \ {req[r].proc} /\ Finishes(r, "done", "not_ok")
     \/ req[r].proc \in alive /\ UNCHANGED alive /\ Finishes(r, "done", "not_started")
  /\ lock' = None
  /\ UNCHANGED <<cached, older, home, stdin>>

(* didOpen with the file's text; the pipe of a dead process raises.          *)
DidOpen(r) ==
  LET p == req[r].proc IN
  /\ at(r) = "open"
  /\ IF p \in alive
     THEN /\ stdin' = [stdin EXCEPT ![p] = Append(@, req[r].doc)]
          /\ Goto(r, "reading")
     ELSE /\ Finishes(r, "touching", "raised")
          /\ UNCHANGED stdin
  /\ UNCHANGED <<lock, cached, older, home, alive, stdout, reads>>

NoSuchFile(r) ==
  /\ at(r) = "open"
  /\ Finishes(r, "touching", IF req[r].op = "check" THEN "not_ok" ELSE "goals")
  /\ UNCHANGED <<lock, cached, older, home, alive, stdin, stdout, reads>>

(* One turn of run_check's loop. It ends with the first diagnostics, of      *)
(* whatever document, with any response, when _read has nothing, or when the *)
(* deadline passed; without an error diagnostic the answer is ok.            *)
ReadCheck(r) ==
  /\ at(r) = "reading" /\ req[r].op = "check"
  /\ \/ Raises(r) /\ Finishes(r, "touching", "raised")
     \/ \E m \in Message \cup {None} :
          /\ Returns(r, m)
          /\ IF m # None /\ m.kind = "diagnostics" /\ m.about \in Broken
             THEN Finishes(r, "touching", "errors")
             ELSE \/ Finishes(r, "touching", "ok")
                  \/ m = Notification /\ UNCHANGED req
  /\ UNCHANGED <<lock, cached, older, home, alive, stdin>>

(* The goal, hover and definition requests read one message, of any kind,    *)
(* then write their query and take the next message for its answer.          *)
ReadOne(r) ==
  /\ at(r) = "reading" /\ req[r].op = "goal"
  /\ \/ /\ (\E m \in Message \cup {None} : Returns(r, m)) /\ req[r].proc \in alive
        /\ stdin' = [stdin EXCEPT ![req[r].proc] = Append(@, "query")]
        /\ Goto(r, "replying")
     \/ /\ \/ (\E m \in Message \cup {None} : Returns(r, m)) /\ req[r].proc \notin alive
           \/ Raises(r)
        /\ Finishes(r, "touching", "raised")
        /\ UNCHANGED stdin
  /\ UNCHANGED <<lock, cached, older, home, alive>>

ReadReply(r) ==
  /\ at(r) = "replying"
  /\ \/ (\E m \in Message \cup {None} : Returns(r, m)) /\ Finishes(r, "touching", "goals")
     \/ Raises(r) /\ Finishes(r, "touching", "raised")
  /\ UNCHANGED <<lock, cached, older, home, alive, stdin>>

(* finally: _touch_lsp, for the entry the workspace has by then.             *)
Touch(r) ==
  /\ at(r) = "touching" /\ lock = None
  /\ older' = Touched(cached, req[r].ws)
  /\ Goto(r, "done")
  /\ UNCHANGED <<lock, cached, home, alive, stdin, stdout, reads>>

(* The language server, as the client uses it: it answers in order, a        *)
(* document with a progress notification and its diagnostics; to initialize  *)
(* its first message may be another one than the response.                   *)
Replies(input) ==
  IF input \in Documents
  THEN {Sent(Notification) \o Sent(Diagnostics(input))}
  ELSE {Sent(Response)} \cup (IF input = "initialize" THEN {Sent(Notification)} ELSE {})
ServerStep(p) ==
  /\ p \in alive /\ stdin[p] # <<>>
  /\ stdin' = [stdin EXCEPT ![p] = Tail(@)]
  /\ \E written \in Replies(Head(stdin[p])) :
       stdout' = [stdout EXCEPT ![p] = @ \o written]
  /\ UNCHANGED <<lock, cached, older, home, alive, reads, req>>

ServerExits(p) ==
  /\ p \in alive
  /\ alive' = alive \ {p}
  /\ UNCHANGED <<lock, cached, older, home, stdin, stdout, reads, req>>

ThreadStep(r) ==
  \/ Reuse(r)
  \/ \E kept \in SUBSET Workspaces :
       SpawnFails(r, kept) \/ \E p \in Procs : Spawn(r, p, kept)
  \/ Initialized(r) \/ StartRaises(r) \/ InitializeFails(r)
  \/ DidOpen(r) \/ NoSuchFile(r)
  \/ ReadsOn(r) \/ ReadCheck(r) \/ ReadOne(r) \/ ReadReply(r)
  \/ Touch(r)

LspNext ==
  \/ \E r \in Requests :
       \/ \E op \in Operations, w \in Workspaces, d \in Documents : LspCall(r, op, w, d)
       \/ ThreadStep(r)
  \/ \E p \in Procs : ServerStep(p) \/ ServerExits(p)

LspSpec == LspInit /\ [][LspNext]_lspVars

(* A thread that can go on does. The lock is handed to every waiter in the   *)
(* end because each thread takes it at most twice. Nothing is assumed of the *)
(* servers.                                                                  *)
FairLspSpec == LspSpec /\ \A r \in Requests : WF_lspVars(ThreadStep(r))
-----------------------------------------------------------------------------
(* Types; whoever waits for a new server, and nobody else, holds the lock.   *)
LspTypeOK ==
  /\ lock \in Requests \cup {None}
  /\ \A r \in Requests : at(r) = "starting" <=> lock = r
  /\ cached \in [Workspaces -> Procs \cup {None}]
  /\ older \subseteq Workspaces \X Workspaces
  /\ home \in [Procs -> Workspaces \cup {None}]
  /\ alive \subseteq Procs
  /\ stdin \in [Procs -> Seq(Input)]
  /\ stdout \in [Procs -> Seq(Piece)]
  /\ reads \in [Requests -> Reading]
  /\ req \in [Requests -> Request]

(* The cache keeps its limit, and whatever starts, dies and is evicted, a    *)
(* live server is the cached one of its workspace, the one that the holder   *)
(* of the lock is starting, or one whose start ended in an exception. Those  *)
(* last ones are the servers that nobody will ever stop.                     *)
OnlyRaisingStartsLeak ==
  /\ Cardinality(Keys(cached)) <= MaxSize
  /\ \A p \in alive :
       \/ cached[home[p]] = p
       \/ lock # None /\ req[lock].proc = p
       \/ \E r \in Requests : req[r].proc = p /\ req[r].answer = "not_started"

(* "one long-lived LSP process per workspace" (lsp_client.py:3).             *)
OneServerPerWorkspace ==
  \A p, q \in alive : home[p] = home[q] => p = q

(* Sessions are apart, however their reads of one stream cut its messages:   *)
(* an error that a check reports is of a document that some request opened   *)
(* in the same workspace.                                                    *)
ErrorsStayInTheirWorkspace ==
  \A r \in Requests :
    req[r].answer = "errors" =>
      \E q \in Requests : req[q].ws = req[r].ws /\ req[q].doc \in Broken

(* Two threads read one server, one of them in the middle of a message.      *)
Crosses(r) ==
  \E q \in Requests \ {r} :
    /\ InRead(r) /\ InRead(q) /\ req[q].proc = req[r].proc
    /\ stage(r) # "line" \/ stage(q) # "line"

(* As long as each server reads what it was sent or exits, every request of  *)
(* the Lean transport ends, sharing servers or not, evicted or not, on a     *)
(* stream that others left in the middle of a message or not; except one     *)
(* that itself crossed another in the middle of a message. A server that is  *)
(* silent blocks its readers, and all starts if it was being started.        *)
RequestsEnd ==
  (\A p \in Procs : []<>(stdin[p] = <<>> \/ p \notin alive))
    => \A r \in Requests : at(r) = "called" ~> (at(r) = "done" \/ Crosses(r))
=============================================================================
