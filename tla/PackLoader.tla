------------------------------ MODULE PackLoader ------------------------------
(* How a policy pack is put together (pack_loader.py): YAML files that extend *)
(* one pack and import others, merged depth first and then validated, and the *)
(* process-wide cache of merged packs.                                        *)
EXTENDS Naturals, Sequences, FiniteSets, SequencesExt

CONSTANTS
  Absent,     \* a key that a file does not have; no file
  Failed,     \* an exception: no such file, too deep, circular, conflict, invalid
  Names,      \* packs, by the path their name stands for
  Keys,       \* what a file may say besides what it extends and imports
  Flags,      \* _IMPORT_SCALAR_KEYS
  Required,   \* the keys PolicyPack has no default for
  Values,     \* of keys
  Refused,    \* values that are not of the type PolicyPack gives the key
  MaxDepth,   \* _MAX_COMPOSITION_DEPTH
  PackFiles,  \* what may be written under each name
  MaxEdits    \* bound: packs edited or removed while one process runs

(* The key "import" is an `import` without entries or an `extends` without a  *)
(* name: it composes nothing, and is a key like others.                      *)
Dict == [Keys -> Values \cup {Absent}]
PackFile == [extends : Names \cup {Absent}, import : Seq(Names), strict : BOOLEAN,
             body : Dict]

ASSUME PackAssumption ==
  /\ MaxDepth \in Nat /\ MaxEdits \in Nat
  /\ Flags \subseteq Keys /\ Required \subseteq Keys
  /\ "import" \in Keys /\ "import" \notin Flags \cup Required
  /\ Absent \notin Names /\ Absent \notin Values /\ Absent \notin PackFile
  /\ Failed \notin Dict /\ Failed # Absent
  /\ \A n \in Names : PackFiles[n] \subseteq PackFile

VARIABLES
  files,    \* the file of a name, Absent if there is none
  cache,    \* _merged_cache, Absent where a pack was not merged yet
  changed   \* packs edited or removed since the process started

packVars == <<files, cache, changed>>

Nothing == [k \in Keys |-> Absent]

(* dict.update: later keys overwrite.                                        *)
FirstWriterWins(merged, sub) ==         \* a mistake: setdefault
  [k \in Keys |-> IF merged[k] = Absent THEN sub[k] ELSE merged[k]]
update(merged, sub) ==
  [k \in Keys |-> IF sub[k] = Absent THEN merged[k] ELSE sub[k]]

ConflictWhenTurnedOff(merged, incoming) ==      \* a mistake: half a comparison
  \E k \in Flags : merged[k] = "true" /\ incoming[k] = "false"
import_scalar_conflict(merged, incoming) ==
  \E k \in Flags : Absent \notin {merged[k], incoming[k]} /\ merged[k] # incoming[k]

(* The body that is merged: neither `extends` nor `import`, whatever they say.*)
body_of(file) == [file.body EXCEPT !["import"] = Absent]

(* The layers a file is merged from, its base first.                         *)
Base(file) == IF file.extends = Absent THEN <<>> ELSE <<file.extends>>
Layers(file) == Base(file) \o file.import

(* `visiting` while a layer of n is merged after others of its layers.       *)
NeverDiscarded(visiting, n, earlier) ==         \* a mistake: no finally clause
  visiting \cup {n} \cup earlier
visiting_in(visiting, n, earlier) == visiting \cup {n}

(* What was merged so far and one more layer, the i-th. Only the file's own  *)
(* policy makes its imports strict; its base is overridden by nothing before.*)
add_layer(file, i, merged, sub) ==
  IF \/ merged = Failed \/ sub = Failed
     \/ /\ file.strict /\ i > Len(Base(file))
        /\ import_scalar_conflict(merged, sub)
  THEN Failed ELSE update(merged, sub)

merge_all(file, subs) ==
  LET count == Len(Layers(file))
      merged[i \in 0..count] ==
        IF i = 0 THEN Nothing ELSE add_layer(file, i, merged[i-1], subs[i])
  IN merged[count]

(* _merge_pack_layers of n; `deeper` is what its layers are merged with.     *)
merge_file(file, n, visiting, deeper) ==
  LET layers == Layers(file)
      bases == merge_all(file, [i \in DOMAIN layers |->
                 deeper[layers[i]]
                       [visiting_in(visiting, n, {layers[j] : j \in 1..(i-1)})]])
  IN IF bases = Failed THEN Failed ELSE update(bases, body_of(file))

merge_pack_layers(fs) ==
  LET merge[depth \in 0..(MaxDepth + 1)] ==
        [n \in Names |-> [visiting \in SUBSET Names |->
           IF depth > MaxDepth \/ n \in visiting \/ fs[n] = Absent THEN Failed
           ELSE merge_file(fs[n], n, visiting, merge[depth + 1])]]
  IN merge

(* _merged_dict_for_entry without its cache. A pack of one file is taken as  *)
(* it stands.                                                                *)
merged_dict(fs, n) ==
  IF fs[n] = Absent THEN Failed
  ELSE IF fs[n].extends = Absent /\ fs[n].import = <<>> THEN fs[n].body
  ELSE merge_pack_layers(fs)[0][n][{}]

(* PolicyPack.model_validate: no other key, no value of another type.        *)
model_validate(d) ==
  IF /\ d # Failed
     /\ d["import"] = Absent
     /\ \A k \in Required : d[k] # Absent
     /\ \A k \in Keys : d[k] \notin Refused
  THEN d ELSE Failed

(* What load_pack answers to a process that has not merged n yet.            *)
loaded(fs, n) == model_validate(merged_dict(fs, n))
-----------------------------------------------------------------------------
PackInit ==
  /\ files = [n \in Names |-> Absent]
  /\ cache = [n \in Names |-> Absent]
  /\ changed = {}

(* An author adds or edits a pack, or removes it. What was merged stays.     *)
WriteFile(n, file) ==
  /\ files[n] # file
  /\ changed' = IF files[n] = Absent THEN changed ELSE changed \cup {n}
  /\ Cardinality(changed') <= MaxEdits
  /\ files' = [files EXCEPT ![n] = file]
  /\ UNCHANGED cache

(* load_pack, from the cache or not: the file must be there. A merged pack is *)
(* cached before it is validated, and nothing is when merging raises.        *)
load_pack(n) ==
  /\ files[n] # Absent /\ cache[n] = Absent
  /\ merged_dict(files, n) # Failed
  /\ cache' = [cache EXCEPT ![n] = merged_dict(files, n)]
  /\ UNCHANGED <<files, changed>>
load_answer(n) ==
  IF files[n] = Absent THEN Failed
  ELSE IF cache[n] = Absent THEN loaded(files, n) ELSE model_validate(cache[n])

PackRestart ==
  /\ cache' = [n \in Names |-> Absent] /\ changed' = {}
  /\ UNCHANGED files

PackNext ==
  \/ \E n \in Names :
       \/ load_pack(n)
       \/ \E file \in PackFiles[n] \cup {Absent} : WriteFile(n, file)
  \/ PackRestart

PackSpec == PackInit /\ [][PackNext]_packVars
-----------------------------------------------------------------------------
(* Types; what is cached is a merged pack.                                   *)
PackTypeOK ==
  /\ \A n \in Names : files[n] \in PackFiles[n] \cup {Absent}
  /\ cache \in [Names -> Dict \cup {Absent}]
  /\ changed \subseteq Names

(* A reference for merging, by chains: the ways down from a pack, of at most *)
(* one step more than allowed; a circular reference has such a chain.        *)
LayersOf(n) == IF files[n] = Absent THEN <<>> ELSE Layers(files[n])
Longer(chains) ==
  UNION {{Append(c, m) : m \in ToSet(LayersOf(Last(c)))} : c \in chains}
Chains(n) ==
  LET down[steps \in 0..(MaxDepth + 1)] ==
        IF steps = 0 THEN {<<n>>} ELSE Longer(down[steps - 1])
  IN UNION {down[steps] : steps \in 0..(MaxDepth + 1)}

Own(n, k) == body_of(files[n])[k]
Writes(n, k) == \E c \in Chains(n) : Own(Last(c), k) # Absent

(* The last writer of a key is at the end of a chain of packs that do not    *)
(* have it and whose later layers do not write it either.                    *)
LeadsToWriter(c, k) ==
  /\ Own(Last(c), k) # Absent
  /\ \A i \in 1..(Len(c) - 1) :
       /\ Own(c[i], k) = Absent
       /\ \E j \in DOMAIN LayersOf(c[i]) :
            /\ LayersOf(c[i])[j] = c[i+1]
            /\ \A later \in DOMAIN LayersOf(c[i]) :
                 later > j => ~Writes(LayersOf(c[i])[later], k)
LastWriter(n, k) ==
  IF Writes(n, k) THEN Own(Last(CHOOSE c \in Chains(n) : LeadsToWriter(c, k)), k)
  ELSE Absent

(* Whatever a strict pack imports agrees on every flag, among itself and     *)
(* with the base.                                                            *)
ImportsAgree(n) ==
  files[n].strict =>
    \A i, j \in DOMAIN LayersOf(n), k \in Flags :
      /\ j > Len(Base(files[n])) /\ i < j
      /\ Writes(LayersOf(n)[i], k) /\ Writes(LayersOf(n)[j], k)
      => LastWriter(LayersOf(n)[i], k) = LastWriter(LayersOf(n)[j], k)

Complete(n) ==
  \A c \in Chains(n) : files[Last(c)] # Absent /\ Len(c) <= MaxDepth + 1

(* What it is merged to is a PolicyPack. An empty `import` is only in the way*)
(* of a pack of one file.                                                    *)
IsPolicyPack(n) ==
  /\ \A k \in Required : Writes(n, k)
  /\ \A k \in Keys : LastWriter(n, k) \notin Refused
  /\ LayersOf(n) = <<>> => files[n].body["import"] = Absent

(* "Cycles raise", depth is capped, conflicts fail, and what is merged must  *)
(* be a PolicyPack: a pack that is not cached loads exactly when all it is   *)
(* composed of exists within the depth, agrees where it must and says what a *)
(* pack must say. A pack reached twice, of which plugin-contract.md:44 says  *)
(* that it raises, loads unless it was reached from itself.                  *)
LoadsExactlySoundPacks ==
  \A n \in Names :
    loaded(files, n) # Failed <=>
      /\ Complete(n) /\ \A c \in Chains(n) : ImportsAgree(Last(c))
      /\ IsPolicyPack(n)

(* Packs that refer only to one another, all of them as they were when the   *)
(* process started, or new.                                                  *)
Untouched(S) ==
  S \cap changed = {} /\ \A n \in S : ToSet(LayersOf(n)) \subseteq S

(* What load_pack answers of such packs, merged now or however long ago, is  *)
(* what the files say. When one of them was edited or removed, the process    *)
(* goes on with what it merged before.                                        *)
StaleOnlyIfChanged ==
  \A n \in Names, S \in SUBSET Names :
    n \in S /\ Untouched(S) => load_answer(n) = loaded(files, n)

(* "The current file's body wins over all bases and imports; later imports   *)
(* overwrite earlier": each key of a pack that load_pack answers is that of  *)
(* its last writer now, unless the pack or one that it refers to, directly   *)
(* or not, was edited or removed since the process started.                  *)
LastWriterWins ==
  \A n \in Names, S \in SUBSET Names :
    n \in S /\ Untouched(S) /\ load_answer(n) # Failed =>
      \A k \in Keys : load_answer(n)[k] = LastWriter(n, k)

(* "Use when parallel imports must not silently disagree": the order of its  *)
(* imports decides neither whether a strict pack can be merged nor any of    *)
(* its flags. It does decide its lists and names (plugin-contract.md:42).    *)
StrictFlagsCommute ==
  \A n \in Names :
    files[n] # Absent /\ files[n].strict =>
      LET here == merged_dict(files, n)
          there == merged_dict([files EXCEPT ![n].import = Reverse(@)], n)
      IN /\ here = Failed <=> there = Failed
         /\ here # Failed => \A k \in Flags : here[k] = there[k]
=============================================================================
