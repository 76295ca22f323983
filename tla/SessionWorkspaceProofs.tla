------------------------ MODULE SessionWorkspaceProofs ------------------------
(* Snapshots and sessions, for any repository, patches and number of clients. *)
EXTENDS SessionWorkspace, TLAPS

(* A patch of which nothing is written yet, and one more write of it.         *)
LEMMA NothingWritten ==
  ASSUME NEW tree \in Tree, NEW patch
  PROVE  PatchedBy(tree, patch, 0) = tree
<1>1. \A f \in Files : {m \in 1..0 : patch[m].file = f} = {}
  OBVIOUS
<1>2. PatchedBy(tree, patch, 0) = [f \in Files |-> tree[f]]
  BY <1>1 DEF PatchedBy
<1>. QED  BY <1>2 DEF Tree

LEMMA OneMoreWritten ==
  ASSUME NEW tree, NEW patch, NEW n \in Nat, NEW g \in Files, patch[n + 1].file = g
  PROVE  PatchedBy(tree, patch, n + 1)
           = [PatchedBy(tree, patch, n) EXCEPT ![g] = patch[n + 1].text]
<1> DEFINE writes(k, f) == {m \in 1..k : patch[m].file = f}
           greatest(S) == CHOOSE m \in S : \A j \in S : j <= m
           last(k, f) == greatest(writes(k, f))
           text(k, f) == IF writes(k, f) = {} THEN tree[f] ELSE patch[last(k, f)].text
<1>1. \A k : PatchedBy(tree, patch, k) = [f \in Files |-> text(k, f)]
  BY DEF PatchedBy
<1>2. \A f \in Files \ {g} : writes(n + 1, f) = writes(n, f)
  OBVIOUS
<1>3. \A f \in Files \ {g} : text(n + 1, f) = text(n, f)
  <2>1. TAKE f \in Files \ {g}
  <2>2. writes(n + 1, f) = writes(n, f)
    BY <1>2
  <2> HIDE DEF writes, greatest
  <2>. QED  BY <2>2
<1>4. n + 1 \in writes(n + 1, g) /\ \A m \in writes(n + 1, g) : m \in Nat /\ m <= n + 1
  OBVIOUS
<1>5. last(n + 1, g) = n + 1
  <2> HIDE DEF writes
  <2>1. last(n + 1, g) \in writes(n + 1, g) /\ \A j \in writes(n + 1, g) : j <= last(n + 1, g)
    BY <1>4
  <2> HIDE DEF last
  <2>. QED  BY <2>1, <1>4
<1>6. text(n + 1, g) = patch[n + 1].text
  <2> HIDE DEF writes, last, greatest
  <2>. QED  BY <1>4, <1>5
<1> HIDE DEF text
<1>. QED  BY <1>1, <1>3, <1>6

\* Client c is now in phase p, with these fields; the other clients stay.
Becomes(c, p, fp, todo, written, session) ==
  /\ client' \in [Clients -> Client]
  /\ \A d \in Clients \ {c} : client'[d] = client[d]
  /\ client'[c].pc = p /\ client'[c].fp = fp /\ client'[c].todo = todo
  /\ client'[c].written = written /\ client'[c].session = session
  /\ client'[c].patch = client[c].patch

LEMMA GotoEffect ==
  ASSUME SessionTypeOK, NEW c \in Clients, NEW p \in Phases, Goto(c, p)
  PROVE  Becomes(c, p, fp_of(c), client[c].todo, client[c].written, client[c].session)
BY DEF SessionTypeOK, Goto, Becomes, Client, fp_of

(* What the invariant says of one graph run, and of all when only client c    *)
(* has moved: a run that is neither c nor worked on by c stands as it did.    *)
Sound(c) ==
  /\ OwnSession(c)
  /\ c \in whole => SnapshotRun(c) /\ seen[c] \subseteq {Patched(base[fp_of(c)], client[c].patch)}

LEMMA SessionInvParts ==
  /\ SessionInv <=> SessionTypeOK /\ OneFiller /\ \A c \in GraphRuns : Sound(c)
  /\ SessionInv' <=> SessionTypeOK' /\ OneFiller' /\ \A c \in GraphRuns : Sound(c)'
BY DEF SessionInv, Sound, RunsJudgeSnapshotWithPatch

SealedStay == \A fp \in sealed : fp \in sealed' /\ base'[fp] = base[fp]

LEMMA OthersStay ==
  ASSUME SessionInv, SealedStay, NEW c \in Clients, NEW p, NEW fp, NEW todo, NEW written, NEW session,
         Becomes(c, p, fp, todo, written, session),
         session \in {client[c].session, c} \cup (Clients \ GraphRuns),
         \A d \in GraphRuns \ {c} : work'[d] = work[d] /\ seen'[d] = seen[d],
         whole' \subseteq whole \cup {c},
         SessionTypeOK', OneFiller', c \in GraphRuns => Sound(c)'
  PROVE  SessionInv'
<1> SUFFICES ASSUME NEW d \in GraphRuns, d # c
             PROVE  Sound(d)'
  BY SessionInvParts
<1>1. Sound(d) /\ d \in Clients
  BY SessionInvParts, SessionAssumption
<1>2. client'[d] = client[d] /\ pc(d)' = pc(d) /\ fp_of(d)' = fp_of(d)
  BY <1>1 DEF Becomes, pc, fp_of
<1>3. \A e \in Clients : client'[e].session = d => client[e].session = d \/ e = d
  BY DEF Becomes
<1>4. OwnSession(d)'
  BY <1>1, <1>2, <1>3 DEF Sound, OwnSession
<1>5. ASSUME d \in whole'
      PROVE  SnapshotRun(d)' /\ seen'[d] \subseteq {Patched(base'[fp_of(d)'], client'[d].patch)}
  <2>1. d \in whole /\ SnapshotRun(d) /\ fp_of(d) \in sealed
    BY <1>1, <1>5 DEF Sound, SnapshotRun
  <2>2. base'[fp_of(d)] = base[fp_of(d)] /\ fp_of(d) \in sealed'
    BY <2>1 DEF SealedStay
  <2>. QED  BY <1>1, <1>2, <2>1, <2>2 DEF SnapshotRun, Sound
<1>. QED  BY <1>4, <1>5 DEF Sound

(* A client goes on without touching anything on disk.                        *)
LEMMA PhaseStep ==
  ASSUME SessionInv, NEW c \in Clients, NEW next \in Phases, Goto(c, next),
         UNCHANGED <<repo, disk, leases, observed>>,
         \/ next \in {"failed", "ended"}
         \/ pc(c) \in Unopened /\ next \in Unopened \ {"filling"}
         \/ pc(c) = "session" /\ next = "patching"
         \/ /\ pc(c) = "patching" /\ next = "patched"
            /\ client[c].written = Len(client[c].patch)
  PROVE  SessionInv'
<1>1. SessionTypeOK /\ OneFiller
  BY DEF SessionInv
<1>2. Becomes(c, next, fp_of(c), client[c].todo, client[c].written, client[c].session)
  BY <1>1, GotoEffect
<1>3. UNCHANGED <<repo, base, present, sealed, work, leases, whole, seen>>
  BY DEF disk, observed
<1>4. next # "filling"
  OBVIOUS
<1>5. SessionTypeOK'
  BY <1>1, <1>2, <1>3, <1>4 DEF SessionTypeOK, Becomes, pc, fp_of
<1>6. OneFiller'
  BY <1>1, <1>2, <1>4 DEF OneFiller, Becomes, pc, fp_of
<1>7. ASSUME c \in GraphRuns
      PROVE  Sound(c)'
  <2>1. Sound(c)
    BY <1>7, SessionInvParts
  <2>2. pc(c)' = next /\ fp_of(c)' = fp_of(c)
    BY <1>2 DEF Becomes, pc, fp_of
  <2>3. OwnSession(c)'
    BY <2>1, <2>2, <1>2, <1>3 DEF Sound, OwnSession, Becomes, Unopened, Checks
  <2>4. ASSUME c \in whole
        PROVE  SnapshotRun(c)'
    BY <2>1, <2>2, <2>4, <1>2, <1>3 DEF Sound, SnapshotRun, Patched, Becomes, Unopened, Checks
  <2>. QED  BY <2>1, <2>2, <2>3, <2>4, <1>2, <1>3 DEF Sound, Becomes
<1>. QED  BY <1>2, <1>3, <1>5, <1>6, <1>7, OthersStay DEF SealedStay

LEMMA EditStep ==
  ASSUME SessionInv, NEW tree \in Directories, Edit(tree)
  PROVE  SessionInv'
<1>1. repo' = tree /\ UNCHANGED <<base, present, sealed, work, leases, client, whole, seen>>
  BY DEF Edit, disk, observed
<1>2. SessionTypeOK'
  BY <1>1 DEF SessionInv, SessionTypeOK, pc, fp_of
<1>3. OneFiller' /\ \A c \in GraphRuns : Sound(c)'
  BY <1>1, SessionInvParts DEF OneFiller, Sound, OwnSession, SnapshotRun, pc, fp_of
<1>. QED  BY <1>2, <1>3, SessionInvParts

(* open_environment takes the pinned files of what the directory holds now.   *)
LEMMA OpenStep ==
  ASSUME SessionInv, NEW c \in Clients, open_environment(c)
  PROVE  SessionInv'
<1> DEFINE fp == build_from_repo(repo)
<1>1. SessionTypeOK /\ OneFiller
  BY DEF SessionInv
<1>2. fp \in Fingerprints
  BY <1>1, SessionAssumption DEF SessionTypeOK, build_from_repo, Fingerprints
<1> HIDE DEF fp
<1>3. /\ client' = [client EXCEPT ![c].pc = "opening", ![c].fp = fp]
      /\ pc(c) = "idle"
      /\ UNCHANGED <<repo, base, present, sealed, work, leases, whole, seen>>
  BY DEF open_environment, disk, observed, fp
<1>4. Becomes(c, "opening", fp, client[c].todo, client[c].written, client[c].session)
  BY <1>1, <1>2, <1>3 DEF SessionTypeOK, Becomes, Client, Phases
<1>5. SessionTypeOK'
  BY <1>1, <1>3, <1>4 DEF SessionTypeOK, Becomes, pc, fp_of
<1>6. OneFiller'
  BY <1>1, <1>4 DEF OneFiller, Becomes, pc, fp_of
<1>7. ASSUME c \in GraphRuns
      PROVE  Sound(c)'
  <2>1. OwnSession(c) /\ c \notin whole
    BY <1>3, <1>7, SessionInvParts DEF Sound, SnapshotRun, Unopened
  <2>2. OwnSession(c)'
    BY <2>1, <1>3, <1>4 DEF OwnSession, Becomes, pc, Unopened, Checks
  <2>. QED  BY <2>1, <2>2, <1>3 DEF Sound
<1>. QED  BY <1>3, <1>4, <1>5, <1>6, <1>7, OthersStay DEF SealedStay

(* Only one of those that found no directory creates it, and fills it.        *)
LEMMA MakeStep ==
  ASSUME SessionInv, NEW c \in Clients, MakeSnapshot(c)
  PROVE  SessionInv'
<1>1. SessionTypeOK /\ OneFiller
  BY DEF SessionInv
<1>2. CASE MayCreate(fp_of(c))
  <2>1. /\ client' = [client EXCEPT ![c].pc = "filling", ![c].todo = Files]
        /\ pc(c) = "making" /\ fp_of(c) \notin present /\ present' = present \cup {fp_of(c)}
        /\ UNCHANGED <<repo, base, sealed, work, leases, whole, seen>>
    BY <1>2 DEF MakeSnapshot, MayCreate, observed
  <2>2. Becomes(c, "filling", fp_of(c), Files, client[c].written, client[c].session)
    BY <1>1, <2>1 DEF SessionTypeOK, Becomes, Client, Phases, fp_of
  <2>3. fp_of(c) \in Fingerprints /\ fp_of(c) \notin sealed
    BY <1>1, <2>1 DEF SessionTypeOK, Client, fp_of
  <2>4. SessionTypeOK'
    BY <1>1, <2>1, <2>2, <2>3 DEF SessionTypeOK, Becomes, pc, fp_of
  <2>5. OneFiller'
    BY <1>1, <2>1, <2>2 DEF SessionTypeOK, OneFiller, Becomes, pc, fp_of
  <2>6. ASSUME c \in GraphRuns
        PROVE  Sound(c)'
    <3>1. OwnSession(c) /\ c \notin whole
      BY <2>1, <2>6, SessionInvParts DEF Sound, SnapshotRun, Unopened
    <3>2. OwnSession(c)'
      BY <3>1, <2>1, <2>2 DEF OwnSession, Becomes, pc, Unopened, Checks
    <3>. QED  BY <3>1, <3>2, <2>1 DEF Sound
  <2>. QED  BY <2>1, <2>2, <2>4, <2>5, <2>6, OthersStay DEF SealedStay
<1>3. CASE ~MayCreate(fp_of(c))
  <2>1. Goto(c, "failed") /\ UNCHANGED <<repo, disk, leases, observed>>
    BY <1>3 DEF MakeSnapshot, disk
  <2>2. "failed" \in Phases
    BY DEF Phases
  <2>. QED  BY <2>1, <2>2, PhaseStep
<1>. QED  BY <1>2, <1>3

(* The one that fills a directory is the only one, so sealed ones stay.       *)
LEMMA FillStep ==
  ASSUME SessionInv, NEW c \in Clients, NEW f \in Files, FillSnapshot(c, f)
  PROVE  SessionInv' /\ SealedStay
<1>1. SessionTypeOK /\ OneFiller
  BY DEF SessionInv
<1>2. /\ client' = [client EXCEPT ![c].todo = @ \ {f}] /\ pc(c) = "filling"
      /\ base' = [base EXCEPT ![fp_of(c)][f] = repo[f]]
      /\ UNCHANGED <<repo, present, sealed, work, leases, whole, seen>>
  BY DEF FillSnapshot, observed
<1>3. Becomes(c, "filling", fp_of(c), client[c].todo \ {f}, client[c].written, client[c].session)
  BY <1>1, <1>2 DEF SessionTypeOK, Becomes, Client, pc, fp_of
<1>4. fp_of(c) \in Fingerprints /\ fp_of(c) \in present \ sealed
  BY <1>1, <1>2 DEF SessionTypeOK, Client, fp_of
<1>5. base' \in [Fingerprints -> Tree]
  <2>1. repo[f] \in Contents
    BY <1>1, SessionAssumption DEF SessionTypeOK
  <2>2. base[fp_of(c)] \in Tree
    BY <1>1, <1>4 DEF SessionTypeOK
  <2>3. [base[fp_of(c)] EXCEPT ![f] = repo[f]] \in Tree
    BY <2>1, <2>2 DEF Tree
  <2>4. base' = [base EXCEPT ![fp_of(c)] = [base[fp_of(c)] EXCEPT ![f] = repo[f]]]
    BY <1>2
  <2>. QED  BY <1>1, <2>3, <2>4 DEF SessionTypeOK
<1>6. SealedStay
  BY <1>1, <1>2, <1>4 DEF SealedStay, SessionTypeOK
<1>7. SessionTypeOK'
  BY <1>1, <1>2, <1>3, <1>4, <1>5 DEF SessionTypeOK, Becomes, pc, fp_of
<1>8. OneFiller'
  BY <1>1, <1>2, <1>3 DEF OneFiller, Becomes, pc, fp_of
<1>9. ASSUME c \in GraphRuns
      PROVE  Sound(c)'
  <2>1. OwnSession(c) /\ c \notin whole
    BY <1>2, <1>9, SessionInvParts DEF Sound, SnapshotRun, Unopened
  <2>2. OwnSession(c)'
    BY <2>1, <1>2, <1>3 DEF OwnSession, Becomes, pc, Unopened, Checks
  <2>. QED  BY <2>1, <2>2, <1>2 DEF Sound
<1>. QED  BY <1>2, <1>3, <1>6, <1>7, <1>8, <1>9, OthersStay

LEMMA SealStep ==
  ASSUME SessionInv, NEW c \in Clients, SealSnapshot(c)
  PROVE  SessionInv'
<1>1. SessionTypeOK /\ OneFiller
  BY DEF SessionInv
<1>2. /\ Goto(c, "opened") /\ pc(c) = "filling" /\ sealed' = sealed \cup {fp_of(c)}
      /\ UNCHANGED <<repo, base, present, work, leases, whole, seen>>
  BY DEF SealSnapshot, observed
<1>3. Becomes(c, "opened", fp_of(c), client[c].todo, client[c].written, client[c].session)
  BY <1>1, <1>2, GotoEffect DEF Phases
<1>4. fp_of(c) \in present
  BY <1>1, <1>2 DEF SessionTypeOK
<1>5. SessionTypeOK'
  <2>1. \A d \in Clients : pc(d)' = "filling" => fp_of(d)' \in present' \ sealed'
    BY <1>1, <1>2, <1>3 DEF SessionTypeOK, OneFiller, Becomes, pc, fp_of
  <2>. QED  BY <2>1, <1>1, <1>2, <1>3, <1>4 DEF SessionTypeOK, Becomes
<1>6. OneFiller'
  BY <1>1, <1>3 DEF OneFiller, Becomes, pc, fp_of
<1>7. ASSUME c \in GraphRuns
      PROVE  Sound(c)'
  <2>1. OwnSession(c) /\ c \notin whole
    BY <1>2, <1>7, SessionInvParts DEF Sound, SnapshotRun, Unopened
  <2>2. OwnSession(c)'
    BY <2>1, <1>2, <1>3 DEF OwnSession, Becomes, pc, Unopened, Checks
  <2>. QED  BY <2>1, <2>2, <1>2 DEF Sound
<1>. QED  BY <1>2, <1>3, <1>5, <1>6, <1>7, OthersStay DEF SealedStay

(* A copy is begun: what it does not have to copy is not there, here or in    *)
(* the still empty workspace.                                                 *)
LEMMA CreateStep ==
  ASSUME SessionInv, NEW c \in Clients, create_session(c)
  PROVE  SessionInv'
<1> DEFINE found == {f \in Files : base[fp_of(c)][f] # Absent}
<1>1. SessionTypeOK /\ OneFiller
  BY DEF SessionInv
<1>2. /\ client' = [client EXCEPT ![c].pc = "copying", ![c].todo = found] /\ pc(c) = "opened"
      /\ whole' = IF c \in GraphRuns /\ fp_of(c) \in sealed THEN whole \cup {c} ELSE whole
      /\ UNCHANGED <<repo, base, present, sealed, work, leases, seen>>
  BY DEF create_session, disk
<1>3. found \in SUBSET Files /\ \A f \in Files \ found : base[fp_of(c)][f] = Absent
  OBVIOUS
<1> HIDE DEF found
<1>4. Becomes(c, "copying", fp_of(c), found, client[c].written, client[c].session)
  BY <1>1, <1>2, <1>3 DEF SessionTypeOK, Becomes, Client, Phases, fp_of
<1>5. SessionTypeOK'
  BY <1>1, <1>2, <1>4 DEF SessionTypeOK, Becomes, pc, fp_of
<1>6. OneFiller'
  BY <1>1, <1>4 DEF OneFiller, Becomes, pc, fp_of
<1>7. ASSUME c \in GraphRuns
      PROVE  Sound(c)'
  <2>1. OwnSession(c) /\ c \notin whole /\ work[c] = Empty /\ seen[c] = {}
    BY <1>2, <1>7, SessionInvParts DEF Sound, SnapshotRun, OwnSession, Unopened
  <2>2. OwnSession(c)'
    BY <2>1, <1>2, <1>4 DEF OwnSession, Becomes, pc, Unopened, Checks
  <2>3. ASSUME c \in whole'
        PROVE  SnapshotRun(c)'
    <3>1. fp_of(c) \in sealed
      BY <2>1, <2>3, <1>2
    <3>2. \A f \in Files \ found : work[c][f] = base[fp_of(c)][f]
      BY <2>1, <1>3 DEF Empty
    <3>. QED  BY <3>1, <3>2, <1>2, <1>4 DEF SnapshotRun, Becomes, pc, fp_of, Unopened, Checks
  <2>. QED  BY <2>1, <2>2, <2>3, <1>2 DEF Sound
<1>8. whole' \subseteq whole \cup {c}
  BY <1>2
<1>. QED  BY <1>2, <1>4, <1>5, <1>6, <1>7, <1>8, OthersStay DEF SealedStay

(* What the workspaces hold when one file of one of them is written.          *)
LEMMA WorkWritten ==
  ASSUME SessionTypeOK, NEW s \in Clients, NEW f \in Files, NEW text \in Contents \cup {Absent},
         work' = [work EXCEPT ![s][f] = text]
  PROVE  /\ work' \in [Clients -> Tree]
         /\ \A d \in Clients \ {s} : work'[d] = work[d]
         /\ work'[s] = [work[s] EXCEPT ![f] = text]
<1>1. work' = [work EXCEPT ![s] = [work[s] EXCEPT ![f] = text]]
  OBVIOUS
<1>2. [work[s] EXCEPT ![f] = text] \in Tree
  BY DEF SessionTypeOK, Tree
<1>. QED  BY <1>1, <1>2 DEF SessionTypeOK

LEMMA CopyStep ==
  ASSUME SessionInv, NEW c \in Clients, NEW f \in Files, CopyOverlay(c, f)
  PROVE  SessionInv'
<1> DEFINE text == base[fp_of(c)][f]
<1>1. SessionTypeOK /\ OneFiller
  BY DEF SessionInv
<1>2. text \in Contents \cup {Absent}
  BY <1>1 DEF SessionTypeOK, Client, Tree, fp_of
<1>3. /\ client' = [client EXCEPT ![c].todo = @ \ {f}] /\ pc(c) = "copying"
      /\ work' = [work EXCEPT ![c][f] = text]
      /\ UNCHANGED <<repo, base, present, sealed, leases, whole, seen>>
  BY DEF CopyOverlay, overlay_of, observed
<1>4. Becomes(c, "copying", fp_of(c), client[c].todo \ {f}, client[c].written, client[c].session)
  BY <1>1, <1>3 DEF SessionTypeOK, Becomes, Client, pc, fp_of
<1>5. /\ work' \in [Clients -> Tree]
      /\ \A d \in Clients \ {c} : work'[d] = work[d]
      /\ work'[c] = [work[c] EXCEPT ![f] = text]
  <2> HIDE DEF text
  <2>. QED  BY <1>1, <1>2, <1>3, WorkWritten
<1>6. SessionTypeOK'
  BY <1>1, <1>3, <1>4, <1>5 DEF SessionTypeOK, Becomes, pc, fp_of
<1>7. OneFiller'
  BY <1>1, <1>4 DEF OneFiller, Becomes, pc, fp_of
<1>8. ASSUME c \in GraphRuns
      PROVE  Sound(c)'
  <2>1. Sound(c)
    BY <1>8, SessionInvParts
  <2>2. pc(c)' = "copying" /\ fp_of(c)' = fp_of(c)
    BY <1>4 DEF Becomes, pc, fp_of
  <2>3. OwnSession(c)'
    BY <2>1, <2>2, <1>3, <1>4 DEF Sound, OwnSession, Becomes, Unopened, Checks
  <2>4. ASSUME c \in whole
        PROVE  SnapshotRun(c)'
    <3>1. \A g \in Files \ (client[c].todo \ {f}) : work'[c][g] = base[fp_of(c)][g]
      BY <2>1, <2>4, <1>1, <1>3, <1>5 DEF Sound, SnapshotRun, SessionTypeOK, Tree
    <3>. QED  BY <3>1, <2>1, <2>2, <2>4, <1>3, <1>4
                 DEF Sound, SnapshotRun, Becomes, Unopened, Checks
  <2>. QED  BY <2>1, <2>2, <2>3, <2>4, <1>3, <1>4 DEF Sound, Becomes
<1>9. \A d \in GraphRuns \ {c} : work'[d] = work[d]
  BY <1>5, SessionAssumption
<1>. QED  BY <1>3, <1>4, <1>6, <1>7, <1>8, <1>9, OthersStay DEF SealedStay

(* The copy is complete, and what it is of a sealed snapshot is that snapshot.*)
LEMMA SessionOpensStep ==
  ASSUME SessionInv, NEW c \in Clients, open_session(c)
  PROVE  SessionInv'
<1>1. SessionTypeOK /\ OneFiller
  BY DEF SessionInv
<1>2. /\ client' = [client EXCEPT ![c].pc = "session", ![c].session = c]
      /\ pc(c) = "copying" /\ client[c].todo = {} /\ leases' = leases \cup {c}
      /\ UNCHANGED <<repo, base, present, sealed, work, whole, seen>>
  BY DEF open_session, overlay_of, disk, observed
<1>3. Becomes(c, "session", fp_of(c), {}, client[c].written, c)
  BY <1>1, <1>2 DEF SessionTypeOK, Becomes, Client, Phases, fp_of
<1>4. SessionTypeOK'
  BY <1>1, <1>2, <1>3 DEF SessionTypeOK, Becomes, pc, fp_of
<1>5. OneFiller'
  BY <1>1, <1>3 DEF OneFiller, Becomes, pc, fp_of
<1>6. ASSUME c \in GraphRuns
      PROVE  Sound(c)'
  <2>1. Sound(c)
    BY <1>6, SessionInvParts
  <2>2. pc(c)' = "session" /\ fp_of(c)' = fp_of(c)
    BY <1>3 DEF Becomes, pc, fp_of
  <2>3. OwnSession(c)'
    BY <2>1, <2>2, <1>2, <1>3 DEF Sound, OwnSession, Becomes, Unopened, Checks
  <2>4. ASSUME c \in whole
        PROVE  SnapshotRun(c)'
    <3>1. \A f \in Files : work[c][f] = base[fp_of(c)][f]
      BY <2>1, <2>4, <1>2 DEF Sound, SnapshotRun
    <3>2. work[c] \in Tree /\ base[fp_of(c)] \in Tree
      BY <1>1 DEF SessionTypeOK, Client, fp_of
    <3>3. work[c] = base[fp_of(c)]
      BY <3>1, <3>2 DEF Tree
    <3>4. client[c].written = 0
      BY <2>1, <1>2 DEF Sound, OwnSession
    <3>5. work[c] = PatchedBy(base[fp_of(c)], client[c].patch, 0)
      BY <3>2, <3>3, NothingWritten
    <3>. QED  BY <3>4, <3>5, <2>1, <2>2, <2>4, <1>2, <1>3
                 DEF Sound, SnapshotRun, Becomes, Unopened, Checks
  <2>. QED  BY <2>1, <2>2, <2>3, <2>4, <1>2, <1>3 DEF Sound, Becomes
<1>. QED  BY <1>2, <1>3, <1>4, <1>5, <1>6, OthersStay DEF SealedStay

LEMMA JoinStep ==
  ASSUME SessionInv, NEW c \in Clients, NEW d \in Clients, Join(c, d)
  PROVE  SessionInv'
<1>1. SessionTypeOK /\ OneFiller
  BY DEF SessionInv
<1>2. /\ client' = [client EXCEPT ![c].pc = "session", ![c].session = d]
      /\ c \notin GraphRuns /\ d \notin GraphRuns
      /\ UNCHANGED <<repo, base, present, sealed, work, leases, whole, seen>>
  BY DEF Join, disk, observed
<1>3. Becomes(c, "session", fp_of(c), client[c].todo, client[c].written, d)
  BY <1>1, <1>2 DEF SessionTypeOK, Becomes, Client, Phases, fp_of
<1>4. SessionTypeOK'
  BY <1>1, <1>2, <1>3 DEF SessionTypeOK, Becomes, pc, fp_of
<1>5. OneFiller'
  BY <1>1, <1>3 DEF OneFiller, Becomes, pc, fp_of
<1>. QED  BY <1>2, <1>3, <1>4, <1>5, OthersStay DEF SealedStay

(* A file of a patch is written: in a graph run's session only by the run.    *)
LEMMA WriteStep ==
  ASSUME SessionInv, NEW c \in Clients, WriteFile(c)
  PROVE  SessionInv'
<1> DEFINE n == client[c].written + 1
           w == client[c].patch[n]
           s == client[c].session
<1>1. SessionTypeOK /\ OneFiller
  BY DEF SessionInv
<1>2. pc(c) = "patching" /\ n <= Len(client[c].patch)
  BY DEF WriteFile
<1>3. client[c].written \in Nat /\ n \in 1..Len(client[c].patch)
  BY <1>1, <1>2 DEF SessionTypeOK, Client
<1>4. w \in [file : Files \cup {Outside}, text : Contents]
  <2> DEFINE Writes == [file : Files \cup {Outside}, text : Contents]
  <2>1. client[c].patch \in Seq(Writes)
    BY <1>1, SessionAssumption DEF SessionTypeOK, Client
  <2> HIDE DEF Writes
  <2>2. \A k \in 1..Len(client[c].patch) : client[c].patch[k] \in Writes
    BY <2>1
  <2> HIDE DEF n
  <2>3. w \in Writes
    BY <2>2, <1>3
  <2>. QED  BY <2>3 DEF Writes
<1>5. CASE w.file = Outside
  <2>1. Goto(c, "failed") /\ UNCHANGED <<repo, disk, leases, observed>>
    BY <1>5 DEF WriteFile, disk
  <2>. QED  BY <2>1, PhaseStep DEF Phases
<1>6. CASE w.file # Outside
  <2>1. /\ work' = [work EXCEPT ![s][w.file] = w.text]
        /\ client' = [client EXCEPT ![c].written = n]
        /\ UNCHANGED <<repo, base, present, sealed, leases, whole, seen>>
    BY <1>6 DEF WriteFile, observed
  <2>2. w.file \in Files /\ w.text \in Contents
    BY <1>4, <1>6
  <2>3. Becomes(c, "patching", fp_of(c), client[c].todo, n, s)
    BY <1>1, <1>2, <1>3, <2>1 DEF SessionTypeOK, Becomes, Client, pc, fp_of
  <2>4. /\ work' \in [Clients -> Tree]
        /\ \A d \in Clients \ {s} : work'[d] = work[d]
        /\ s \in Clients => work'[s] = [work[s] EXCEPT ![w.file] = w.text]
    <3> HIDE DEF w, s
    <3>1. CASE s \in Clients
      BY <3>1, <1>1, <2>1, <2>2, WorkWritten
    <3>2. CASE s \notin Clients
      <4>1. work' = work
        BY <3>2, <1>1, <2>1 DEF SessionTypeOK
      <4>. QED  BY <3>2, <4>1, <1>1 DEF SessionTypeOK
    <3>. QED  BY <3>1, <3>2
  <2>5. SessionTypeOK'
    BY <1>1, <2>1, <2>3, <2>4 DEF SessionTypeOK, Becomes, pc, fp_of
  <2>6. OneFiller'
    BY <1>1, <2>3 DEF OneFiller, Becomes, pc, fp_of
  <2>7. ASSUME c \in GraphRuns
        PROVE  Sound(c)'
    <3>1. Sound(c)
      BY <2>7, SessionInvParts
    <3>2. pc(c)' = "patching" /\ fp_of(c)' = fp_of(c)
      BY <2>3 DEF Becomes, pc, fp_of
    <3>3. OwnSession(c)'
      BY <3>1, <3>2, <1>2, <2>1, <2>3 DEF Sound, OwnSession, Becomes, Unopened, Checks
    <3>4. ASSUME c \in whole
          PROVE  SnapshotRun(c)'
      <4>1. s = c
        BY <3>1, <1>2 DEF Sound, OwnSession
      <4>2. work[c] = PatchedBy(base[fp_of(c)], client[c].patch, client[c].written)
        BY <3>1, <3>4, <1>2 DEF Sound, SnapshotRun
      <4>3. work'[c] = [work[c] EXCEPT ![w.file] = w.text]
        BY <4>1, <2>4
      <4>4. work'[c] = PatchedBy(base[fp_of(c)], client[c].patch, n)
        BY <4>2, <4>3, <1>3, <2>2, OneMoreWritten
      <4> HIDE DEF n
      <4>. QED  BY <4>4, <3>1, <3>2, <3>4, <2>1, <2>3
                   DEF Sound, SnapshotRun, Becomes, Unopened, Checks
    <3>. QED  BY <3>1, <3>2, <3>3, <3>4, <2>1, <2>3 DEF Sound, Becomes
  <2>8. \A d \in GraphRuns \ {c} : work'[d] = work[d]
    <3> SUFFICES ASSUME NEW d \in GraphRuns \ {c}
                 PROVE  d \in Clients \ {s}
      BY <2>4
    <3>1. OwnSession(d)
      BY SessionInvParts DEF Sound
    <3>. QED  BY <3>1, SessionAssumption DEF OwnSession
  <2> HIDE DEF n, w
  <2>. QED  BY <2>1, <2>3, <2>5, <2>6, <2>7, <2>8, OthersStay DEF SealedStay
<1>. QED  BY <1>5, <1>6

(* A check of a graph run reads the run's own workspace.                      *)
LEMMA CheckStep ==
  ASSUME SessionInv, NEW c \in Clients, NEW from \in {"patched"} \cup Checks, NEW tool \in Checks,
         Check(c, from, tool)
  PROVE  SessionInv'
<1>1. SessionTypeOK /\ OneFiller
  BY DEF SessionInv
<1>2. /\ c \in GraphRuns /\ pc(c) = from /\ Goto(c, tool)
      /\ seen' = [seen EXCEPT ![c] = @ \cup {work[client[c].session]}]
      /\ UNCHANGED <<repo, base, present, sealed, work, leases, whole>>
  BY DEF Check, disk
<1>3. Becomes(c, tool, fp_of(c), client[c].todo, client[c].written, client[c].session)
  BY <1>1, <1>2, GotoEffect DEF Phases
<1>4. Sound(c)
  BY <1>2, SessionInvParts
<1>5. client[c].session = c
  BY <1>2, <1>4 DEF Sound, OwnSession
<1>6. /\ seen' \in [Clients -> SUBSET Tree]
      /\ seen'[c] = seen[c] \cup {work[c]}
      /\ \A d \in Clients \ {c} : seen'[d] = seen[d]
  BY <1>1, <1>2, <1>5 DEF SessionTypeOK
<1>7. tool \notin {"filling", "copying", "session", "patching"} \cup Unopened /\ from \notin Unopened
  BY DEF Checks, Unopened
<1>8. SessionTypeOK'
  BY <1>1, <1>2, <1>3, <1>6, <1>7 DEF SessionTypeOK, Becomes, pc, fp_of
<1>9. OneFiller'
  BY <1>1, <1>3, <1>7 DEF OneFiller, Becomes, pc, fp_of
<1>10. Sound(c)'
  <2>1. pc(c)' = tool /\ fp_of(c)' = fp_of(c)
    BY <1>3 DEF Becomes, pc, fp_of
  <2>2. OwnSession(c)'
    BY <2>1, <1>2, <1>3, <1>4, <1>5, <1>7 DEF Sound, OwnSession, Becomes
  <2>3. ASSUME c \in whole
        PROVE  SnapshotRun(c)' /\ work[c] = Patched(base[fp_of(c)], client[c].patch)
    BY <2>1, <2>3, <1>2, <1>3, <1>4, <1>7 DEF Sound, SnapshotRun, Becomes
  <2>. QED  BY <2>1, <2>2, <2>3, <1>2, <1>3, <1>4, <1>6 DEF Sound, Becomes
<1>11. \A d \in GraphRuns \ {c} : seen'[d] = seen[d]
  BY <1>6, SessionAssumption
<1>. QED  BY <1>2, <1>3, <1>8, <1>9, <1>10, <1>11, OthersStay DEF SealedStay

(* A restart: directories stay, and requests under way end.                   *)
LEMMA RestartStep ==
  ASSUME SessionInv, Restart
  PROVE  SessionInv'
<1> DEFINE waiting == {"idle", "opened", "session", "patched", "interactive", "ended", "failed"}
<1>1. SessionTypeOK /\ OneFiller
  BY DEF SessionInv
<1>2. /\ leases' = {}
      /\ client' = [c \in Clients |-> IF pc(c) \in waiting THEN client[c]
                                      ELSE [client[c] EXCEPT !.pc = "failed", !.todo = {}]]
      /\ UNCHANGED <<repo, base, present, sealed, work, whole, seen>>
  BY DEF Restart, disk, observed
<1>3. \A c \in Clients :
        /\ client'[c] \in Client
        /\ (client'[c] = client[c] /\ pc(c) \in waiting) \/ client'[c].pc = "failed"
        /\ client'[c].fp = client[c].fp /\ client'[c].patch = client[c].patch
        /\ client'[c].written = client[c].written /\ client'[c].session = client[c].session
  BY <1>1, <1>2 DEF SessionTypeOK, Client, Phases
<1>4. client' \in [Clients -> Client]
  BY <1>2, <1>3
<1>5. \A c \in Clients : pc(c)' # "filling" /\ fp_of(c)' = fp_of(c)
  BY <1>3 DEF pc, fp_of
<1>6. SessionTypeOK' /\ OneFiller'
  BY <1>1, <1>2, <1>4, <1>5 DEF SessionTypeOK, OneFiller
<1>7. ASSUME NEW c \in GraphRuns
      PROVE  Sound(c)'
  <2>1. Sound(c) /\ c \in Clients
    BY SessionInvParts, SessionAssumption
  <2>2. /\ (pc(c)' = pc(c) /\ client'[c] = client[c]) \/ pc(c)' = "failed"
        /\ fp_of(c)' = fp_of(c)
    BY <2>1, <1>3 DEF pc, fp_of
  <2>3. OwnSession(c)'
    BY <2>1, <2>2, <1>2, <1>3 DEF Sound, OwnSession, Unopened, Checks
  <2>4. c \in whole => SnapshotRun(c)'
    BY <2>1, <2>2, <1>2, <1>3 DEF Sound, SnapshotRun, Unopened, Checks
  <2>. QED  BY <2>1, <2>2, <2>3, <2>4, <1>2, <1>3 DEF Sound
<1>. QED  BY <1>6, <1>7, SessionInvParts

LEMMA SessionStart ==
  ASSUME SessionInit
  PROVE  SessionInv
<1>1. PICK patches \in [Clients -> Patches] : \A c \in Clients :
        client[c] = [pc |-> "idle", fp |-> [f \in Pinned |-> repo[f]], todo |-> {},
                     patch |-> patches[c], written |-> 0, session |-> Absent]
  <2> DEFINE fresh == {[pc |-> "idle", fp |-> [f \in Pinned |-> repo[f]], todo |-> {},
                        patch |-> p, written |-> 0, session |-> Absent] : p \in Patches}
  <2>1. client \in [Clients -> fresh]
    BY DEF SessionInit
  <2>2. \A c \in Clients : client[c].patch \in Patches /\
          client[c] = [pc |-> "idle", fp |-> [f \in Pinned |-> repo[f]], todo |-> {},
                       patch |-> client[c].patch, written |-> 0, session |-> Absent]
    BY <2>1
  <2>3. [c \in Clients |-> client[c].patch] \in [Clients -> Patches]
    BY <2>2
  <2>. QED  BY <2>2, <2>3
<1>2. /\ repo \in Directories /\ base = [fp \in Fingerprints |-> Empty]
      /\ present = {} /\ sealed = {} /\ leases = {} /\ whole = {}
      /\ work = [s \in Clients |-> Empty] /\ seen = [c \in Clients |-> {}]
      /\ DOMAIN client = Clients /\ client = [c \in Clients |-> client[c]]
  BY DEF SessionInit
<1>3. Empty \in Tree /\ [f \in Pinned |-> repo[f]] \in Fingerprints
  <2>1. Empty \in Tree
    BY DEF Empty, Tree
  <2>2. repo \in [Files -> Contents] /\ Pinned \subseteq Files
    BY <1>2, SessionAssumption
  <2>. QED  BY <2>1, <2>2 DEF Fingerprints
<1>4. \A c \in Clients : client[c] \in Client /\ pc(c) = "idle" /\ client[c].session = Absent
  <2> TAKE c \in Clients
  <2>1. PICK hashed \in Fingerprints : hashed = [f \in Pinned |-> repo[f]]
    BY <1>3
  <2>2. client[c] = [pc |-> "idle", fp |-> hashed, todo |-> {}, patch |-> patches[c],
                     written |-> 0, session |-> Absent]
    BY <1>1, <2>1
  <2>3. patches[c] \in Patches /\ "idle" \in Phases
    BY DEF Phases
  <2>4. client[c] \in Client
    BY <2>2, <2>3 DEF Client
  <2>. QED  BY <2>2, <2>4 DEF pc
<1>5. SessionTypeOK /\ OneFiller
  BY <1>2, <1>3, <1>4 DEF SessionTypeOK, OneFiller
<1>6. ASSUME NEW c \in GraphRuns
      PROVE  Sound(c)
  <2>1. OwnSession(c)
    BY <1>1, <1>2, <1>4, SessionAssumption DEF OwnSession, Checks, pc
  <2>. QED  BY <2>1, <1>2 DEF Sound
<1>. QED  BY <1>5, <1>6, SessionInvParts

LEMMA SessionStep ==
  ASSUME SessionInv, [SessionNext]_vars
  PROVE  SessionInv'
<1>1. ASSUME NEW c \in Clients, FindSnapshot(c)
      PROVE  SessionInv'
  <2>1. PICK next \in {"opened", "making"} : Goto(c, next)
    BY <1>1 DEF FindSnapshot
  <2>. QED  BY <1>1, <2>1, PhaseStep DEF FindSnapshot, Phases, Unopened
<1>2. ASSUME NEW c \in Clients, SessionNotFound(c) \/ Answered(c)
      PROVE  SessionInv'
  <2>1. PICK next \in {"failed", "ended"} : Goto(c, next) /\ UNCHANGED <<repo, disk, leases, observed>>
    BY <1>2 DEF SessionNotFound, Answered
  <2>. QED  BY <2>1, PhaseStep DEF Phases
<1>3. ASSUME NEW c \in Clients, apply_patch(c)
      PROVE  SessionInv'
  BY <1>3, PhaseStep DEF apply_patch, Phases
<1>4. ASSUME NEW c \in Clients, PatchApplied(c)
      PROVE  SessionInv'
  BY <1>4, PhaseStep DEF PatchApplied, Phases
<1>5. ASSUME NEW c \in Clients, interactive_check(c) \/ batch_verify(c)
      PROVE  SessionInv'
  <2>1. PICK from \in {"patched"} \cup Checks, tool \in Checks : Check(c, from, tool)
    BY <1>5 DEF interactive_check, batch_verify, Checks
  <2>. QED  BY <2>1, CheckStep
<1>6. CASE UNCHANGED vars
  <2>1. UNCHANGED <<repo, base, present, sealed, work, leases, client, whole, seen>>
    BY <1>6 DEF vars
  <2>2. SessionTypeOK' /\ OneFiller'
    BY <2>1 DEF SessionInv, SessionTypeOK, OneFiller, pc, fp_of
  <2>3. \A c \in GraphRuns : Sound(c)'
    BY <2>1, SessionInvParts DEF Sound, OwnSession, SnapshotRun, pc, fp_of
  <2>. QED  BY <2>2, <2>3, SessionInvParts
<1>. QED  BY <1>1, <1>2, <1>3, <1>4, <1>5, <1>6, EditStep, OpenStep, MakeStep, FillStep, SealStep,
             CreateStep, CopyStep, SessionOpensStep, JoinStep, WriteStep, RestartStep
          DEF SessionNext

(* The inductive invariant: one request fills a snapshot, a graph run's       *)
(* session is its own, and its workspace is the sealed snapshot with the      *)
(* part of the patch that is written.                                         *)
THEOREM SessionInvariant == SessionSpec => []SessionInv
<1>1. SessionInit => SessionInv
  BY SessionStart
<1>2. SessionInv /\ [SessionNext]_vars => SessionInv'
  BY SessionStep
<1>. QED  BY <1>1, <1>2, PTL DEF SessionSpec

(* Types of environments and sessions; nobody fills a sealed snapshot.        *)
THEOREM SessionTypeCorrect == SessionSpec => []SessionTypeOK
<1>1. SessionInv => SessionTypeOK
  BY DEF SessionInv
<1>. QED  BY <1>1, SessionInvariant, PTL

(* "Overlays must never mutate the base snapshot": no open, patch, session,   *)
(* edit or restart changes a snapshot that was filled and made read-only.     *)
THEOREM SealedBaseStays == SessionSpec => SealedBaseIsImmutable
<1>1. SessionInv /\ [SessionNext]_vars
        => [\A fp \in sealed : fp \in sealed' /\ base'[fp] = base[fp]]_vars
  <2> SUFFICES ASSUME SessionInv, SessionNext
               PROVE  SealedStay
    BY DEF SealedStay
  <2>1. ASSUME NEW c \in Clients, NEW f \in Files, FillSnapshot(c, f)
        PROVE  SealedStay
    BY <2>1, FillStep
  <2>2. ASSUME NEW c \in Clients, SealSnapshot(c)
        PROVE  SealedStay
    BY <2>2 DEF SealSnapshot, SealedStay
  <2>3. ASSUME NEW c \in Clients, NEW f \in Files, CopyOverlay(c, f)
        PROVE  SealedStay
    BY <2>3 DEF CopyOverlay, SealedStay
  <2>4. ASSUME NEW c \in Clients, \/ open_environment(c) \/ FindSnapshot(c) \/ MakeSnapshot(c)
                                  \/ create_session(c) \/ open_session(c)
                                  \/ (\E d \in Clients : Join(c, d))
        PROVE  SealedStay
    BY <2>4 DEF open_environment, FindSnapshot, MakeSnapshot, create_session, open_session,
                Join, disk, SealedStay
  <2>5. ASSUME NEW c \in Clients, \/ SessionNotFound(c) \/ apply_patch(c) \/ WriteFile(c)
                                  \/ PatchApplied(c) \/ interactive_check(c)
                                  \/ batch_verify(c) \/ Answered(c)
        PROVE  SealedStay
    BY <2>5 DEF SessionNotFound, apply_patch, WriteFile, PatchApplied, interactive_check,
                batch_verify, Check, Answered, disk, SealedStay
  <2>6. CASE Restart \/ \E tree \in Directories : Edit(tree)
    BY <2>6 DEF Restart, Edit, disk, SealedStay
  <2>. QED  BY <2>1, <2>2, <2>3, <2>4, <2>5, <2>6 DEF SessionNext
<1>. QED  BY <1>1, SessionInvariant, PTL DEF SessionSpec, SealedBaseIsImmutable

(* What the checks of a graph run judge is its snapshot with its whole patch, *)
(* the same for each of them, whatever other clients do meanwhile.            *)
THEOREM ChecksReadOwnPatch == SessionSpec => []RunsJudgeSnapshotWithPatch
<1>1. SessionInv => RunsJudgeSnapshotWithPatch
  BY DEF SessionInv
<1>. QED  BY <1>1, SessionInvariant, PTL
===============================================================================
