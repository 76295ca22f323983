--------------------------- MODULE SessionWorkspace ---------------------------
(* Environments and sessions of the gateway: the snapshot directory that      *)
(* open_environment fills once per fingerprint, the writable copy that        *)
(* create_session makes of it, apply_patch writing that copy file by file,    *)
(* and the checks that read it. Clients call in turn, the gateway serves them *)
(* in threads, and the repository they work on changes meanwhile.             *)
EXTENDS Naturals, Sequences

CONSTANTS
  Absent,      \* no such file; also: no session
  Files,       \* files of the repository's directory
  Pinned,      \* toolchain, lakefile, manifest: what the fingerprint hashes
  Contents,    \* contents of a file
  Directories, \* what the repository's directory may hold over time
  Outside,     \* a path that leaves the workspace
  Clients,     \* callers of the gateway; a client also names its session
  GraphRuns,   \* those that are invocations of the obligation graph
  Patches      \* sequences of writes a client may apply

ASSUME SessionAssumption ==
  /\ Pinned \subseteq Files /\ GraphRuns \subseteq Clients
  /\ Directories \subseteq [Files -> Contents]
  /\ Outside \notin Files /\ Absent \notin Contents \cup Clients
  /\ Patches \subseteq Seq([file : Files \cup {Outside}, text : Contents])

Tree == [Files -> Contents \cup {Absent}]
Empty == [f \in Files |-> Absent]
Fingerprints == [Pinned -> Contents]

VARIABLES
  repo,     \* the caller's directory, repo_path
  base,     \* <root>/environments/<fingerprint>/base, file by file
  present,  \* fingerprints whose base directory exists
  sealed,   \* those that are filled and made read-only
  work,     \* <root>/overlays/<session>/work
  leases,   \* SessionManager._sessions, in the gateway's memory
  client,   \* where each client's calls are
  whole,    \* observation: sessions made from a sealed base
  seen      \* observation: the trees the checks of a client read

vars == <<repo, base, present, sealed, work, leases, client, whole, seen>>
disk == <<base, present, sealed, work>>
observed == <<whole, seen>>

Checks == {"interactive", "build", "audit", "fresh"}
Phases == {"idle", "opening", "making", "filling", "opened", "copying",
           "session", "patching", "patched", "ended", "failed"} \cup Checks

Client == [pc : Phases, fp : Fingerprints, todo : SUBSET Files,
           patch : Patches, written : Nat, session : Clients \cup {Absent}]

(* The tree that the first n writes of a patch make of another, and that the *)
(* patch makes, applied to the end.                                          *)
PatchedBy(tree, patch, n) ==
  [f \in Files |->
     LET writes == {m \in 1..n : patch[m].file = f} IN
     IF writes = {} THEN tree[f]
     ELSE patch[CHOOSE m \in writes : \A k \in writes : k <= m].text]
Patched(tree, patch) == PatchedBy(tree, patch, Len(patch))

SessionInit ==
  /\ repo \in Directories
  /\ base = [fp \in Fingerprints |-> Empty]
  /\ present = {} /\ sealed = {} /\ leases = {} /\ whole = {}
  /\ work = [s \in Clients |-> Empty]
  /\ client \in [Clients -> {[pc |-> "idle", fp |-> [f \in Pinned |-> repo[f]],
                              todo |-> {}, patch |-> p, written |-> 0,
                              session |-> Absent] : p \in Patches}]
  /\ seen = [c \in Clients |-> {}]

pc(c) == client[c].pc
fp_of(c) == client[c].fp
Goto(c, next) == client' = [client EXCEPT ![c].pc = next]

(* Somebody edits the repository, or checks out another commit.              *)
Edit(tree) ==
  /\ repo # tree
  /\ repo' = tree
  /\ UNCHANGED <<disk, leases, client, observed>>

(* open_environment: build_from_repo hashes the pinned files; the commit is  *)
(* whatever the caller says, HEAD.                                           *)
build_from_repo(tree) == [f \in Pinned |-> tree[f]]
open_environment(c) ==
  /\ pc(c) = "idle"
  /\ client' = [client EXCEPT ![c].pc = "opening",
                              ![c].fp = build_from_repo(repo)]
  /\ UNCHANGED <<repo, disk, leases, observed>>

(* ensure_snapshot, its test: an existing directory is taken for a snapshot. *)
FindSnapshot(c) ==
  /\ pc(c) = "opening"
  /\ Goto(c, IF fp_of(c) \in present THEN "opened" ELSE "making")
  /\ UNCHANGED <<repo, disk, leases, observed>>

(* copytree creates the directory, and fails where there is one by now.      *)
ExistOk(fp) == TRUE     \* a mistake: copytree(..., dirs_exist_ok=True)
MayCreate(fp) == fp \notin present
MakeSnapshot(c) ==
  /\ pc(c) = "making"
  /\ IF MayCreate(fp_of(c))
     THEN /\ present' = present \cup {fp_of(c)}
          /\ client' = [client EXCEPT ![c].pc = "filling", ![c].todo = Files]
     ELSE Goto(c, "failed") /\ UNCHANGED present
  /\ UNCHANGED <<repo, base, sealed, work, leases, observed>>

(* copytree, one file, in any order; the directory may be edited meanwhile.  *)
FillSnapshot(c, f) ==
  /\ pc(c) = "filling" /\ f \in client[c].todo
  /\ base' = [base EXCEPT ![fp_of(c)][f] = repo[f]]
  /\ client' = [client EXCEPT ![c].todo = @ \ {f}]
  /\ UNCHANGED <<repo, present, sealed, work, leases, observed>>

(* _make_readonly and the metadata, which nothing reads.                     *)
SealSnapshot(c) ==
  /\ pc(c) = "filling" /\ client[c].todo = {}
  /\ sealed' = sealed \cup {fp_of(c)}
  /\ Goto(c, "opened")
  /\ UNCHANGED <<repo, base, present, work, leases, observed>>

(* create_session, create_overlay: copytree lists the base it finds.         *)
create_session(c) ==
  /\ pc(c) = "opened"
  /\ client' = [client EXCEPT ![c].pc = "copying",
       ![c].todo = {f \in Files : base[fp_of(c)][f] # Absent}]
  /\ whole' = IF c \in GraphRuns /\ fp_of(c) \in sealed THEN whole \cup {c} ELSE whole
  /\ UNCHANGED <<repo, disk, leases, seen>>

(* A mistake: one overlay directory per fingerprint.                         *)
OverlayOfFingerprint(c) ==
  CHOOSE d \in Clients : fp_of(d) = fp_of(c)
overlay_of(c) == c

CopyOverlay(c, f) ==
  /\ pc(c) = "copying" /\ f \in client[c].todo
  /\ work' = [work EXCEPT ![overlay_of(c)][f] = base[fp_of(c)][f]]
  /\ client' = [client EXCEPT ![c].todo = @ \ {f}]
  /\ UNCHANGED <<repo, base, present, sealed, leases, observed>>

(* The copy is made writable; open_session registers the lease.              *)
open_session(c) ==
  /\ pc(c) = "copying" /\ client[c].todo = {}
  /\ leases' = leases \cup {overlay_of(c)}
  /\ client' = [client EXCEPT ![c].pc = "session", ![c].session = overlay_of(c)]
  /\ UNCHANGED <<repo, disk, observed>>

(* SDK and MCP callers may address a session another of them created.        *)
Join(c, d) ==
  /\ pc(c) = "idle" /\ {c, d} \cap GraphRuns = {}
  /\ d \in leases
  /\ client' = [client EXCEPT ![c].pc = "session", ![c].session = d]
  /\ UNCHANGED <<repo, disk, leases, observed>>

(* 404: the session is not, or no longer, known.                             *)
Known(c) == client[c].session \in leases
SessionNotFound(c) ==
  /\ pc(c) \in {"session", "patched", "interactive"} /\ ~Known(c)
  /\ Goto(c, "failed")
  /\ UNCHANGED <<repo, disk, leases, observed>>

apply_patch(c) ==
  /\ pc(c) = "session" /\ Known(c)
  /\ Goto(c, "patching")
  /\ UNCHANGED <<repo, disk, leases, observed>>

(* One file of the patch. A path outside the workspace ends the request with *)
(* 400, and what was written before it stays.                                *)
WriteFile(c) ==
  LET n == client[c].written + 1 IN
  /\ pc(c) = "patching" /\ n <= Len(client[c].patch)
  /\ LET w == client[c].patch[n] IN
     IF w.file = Outside
     THEN Goto(c, "failed") /\ UNCHANGED work
     ELSE /\ work' = [work EXCEPT ![client[c].session][w.file] = w.text]
          /\ client' = [client EXCEPT ![c].written = n]
  /\ UNCHANGED <<repo, base, present, sealed, leases, observed>>

PatchApplied(c) ==
  /\ pc(c) = "patching" /\ client[c].written = Len(client[c].patch)
  /\ Goto(c, "patched")
  /\ UNCHANGED <<repo, disk, leases, observed>>

(* interactive_check, then batch_verify: it looks the session up once and    *)
(* runs build, audit and fresh checker in its workspace, one after another.  *)
(* The checks only read; followed here are those of the graph's runs.        *)
Check(c, from, tool) ==
  /\ c \in GraphRuns /\ pc(c) = from
  /\ from \in {"patched", "interactive"} => Known(c)
  /\ seen' = [seen EXCEPT ![c] = @ \cup {work[client[c].session]}]
  /\ Goto(c, tool)
  /\ UNCHANGED <<repo, disk, leases, whole>>

interactive_check(c) == Check(c, "patched", "interactive")
batch_verify(c) ==
  \/ Check(c, "interactive", "build")
  \/ Check(c, "build", "audit")
  \/ Check(c, "audit", "fresh")

(* The answer is in. A caller that patches again is one more that joins.     *)
Answered(c) ==
  /\ pc(c) = "fresh"
  /\ Goto(c, "ended")
  /\ UNCHANGED <<repo, disk, leases, observed>>

(* The gateway dies and is started again: its directories remain, its leases *)
(* do not, and requests under way fail.                                      *)
Restart ==
  /\ \E c \in Clients : pc(c) # "idle"
  /\ leases' = {}
  /\ client' = [c \in Clients |->
       IF pc(c) \in {"idle", "opened", "session", "patched", "interactive",
                     "ended", "failed"}
       THEN client[c] ELSE [client[c] EXCEPT !.pc = "failed", !.todo = {}]]
  /\ UNCHANGED <<repo, disk, observed>>

SessionNext ==
  \/ \E tree \in Directories : Edit(tree)
  \/ \E c \in Clients :
       \/ open_environment(c) \/ FindSnapshot(c) \/ MakeSnapshot(c)
       \/ \E f \in Files : FillSnapshot(c, f) \/ CopyOverlay(c, f)
       \/ SealSnapshot(c) \/ create_session(c) \/ open_session(c)
       \/ \E d \in Clients : Join(c, d)
       \/ SessionNotFound(c) \/ apply_patch(c) \/ WriteFile(c) \/ PatchApplied(c)
       \/ interactive_check(c) \/ batch_verify(c) \/ Answered(c)
  \/ Restart

SessionSpec == SessionInit /\ [][SessionNext]_vars
-----------------------------------------------------------------------------
(* Types; nobody fills a snapshot that is sealed.                            *)
SessionTypeOK ==
  /\ repo \in Directories
  /\ base \in [Fingerprints -> Tree]
  /\ sealed \subseteq present /\ present \subseteq Fingerprints
  /\ work \in [Clients -> Tree]
  /\ leases \subseteq Clients /\ whole \subseteq Clients
  /\ client \in [Clients -> Client]
  /\ \A c \in Clients : pc(c) = "filling" => fp_of(c) \in present \ sealed
  /\ seen \in [Clients -> SUBSET Tree]

(* "Overlays must never mutate the base snapshot", nor may anything else: no *)
(* step changes a base once it is filled and read-only, whoever opens the    *)
(* fingerprint again, patches a session or crashes.                          *)
SealedBaseIsImmutable ==
  [][\A fp \in sealed : fp \in sealed' /\ base'[fp] = base[fp]]_vars

(* What a graph run's checks judge is the snapshot with its whole patch, the *)
(* same for each of them, in every interleaving with other sessions, opens,  *)
(* edits and restarts; for sessions made from a sealed base.                 *)
RunsJudgeSnapshotWithPatch ==
  \A c \in GraphRuns \cap whole :
    seen[c] \subseteq {Patched(base[fp_of(c)], client[c].patch)}

(* What this rests on: one request fills a directory, nobody else works in   *)
(* the session of a graph run, and the run's copy is its snapshot, file by   *)
(* file, and then what its patch has made of that so far.                    *)
OneFiller ==
  \A c, d \in Clients :
    pc(c) = "filling" /\ pc(d) = "filling" /\ fp_of(c) = fp_of(d) => c = d

Unopened == {"idle", "opening", "making", "filling", "opened"}

OwnSession(c) ==
  /\ \A d \in Clients : client[d].session = c => d = c
  /\ pc(c) \in Unopened => work[c] = Empty /\ seen[c] = {}
  /\ pc(c) \in Unopened \cup {"copying", "session"} => client[c].written = 0
  /\ pc(c) \in {"session", "patching", "patched"} \cup Checks => client[c].session = c

SnapshotRun(c) ==
  LET tree == base[fp_of(c)]
      patch == client[c].patch IN
  /\ fp_of(c) \in sealed /\ pc(c) \notin Unopened
  /\ pc(c) = "copying" =>
       \A f \in Files \ client[c].todo : work[c][f] = tree[f]
  /\ pc(c) \in {"session", "patching"} => work[c] = PatchedBy(tree, patch, client[c].written)
  /\ pc(c) \in {"patched"} \cup Checks => work[c] = Patched(tree, patch)

SessionInv ==
  /\ SessionTypeOK /\ OneFiller
  /\ \A c \in GraphRuns : OwnSession(c)
  /\ \A c \in GraphRuns \cap whole : SnapshotRun(c)
  /\ RunsJudgeSnapshotWithPatch
===============================================================================
