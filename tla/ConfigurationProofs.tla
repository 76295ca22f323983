------------------------- MODULE ConfigurationProofs -------------------------
(* What the program is configured with: the policy packs it merges, for any   *)
(* packs, files and depth, and its settings, for any environments, gateways   *)
(* and doubles.                                                               *)
EXTENDS Deployment, PackLoader, WellFoundedInduction, TLAPS

-----------------------------------------------------------------------------
(* Induction and recursion up to a number                                     *)

(* A non-empty set of indices has a greatest one.                             *)
LEMMA GreatestIndex ==
  ASSUME NEW n \in Nat, NEW S, S \subseteq 1..n, S # {}
  PROVE  \E i \in S : \A j \in S : j <= i
<1> DEFINE R == {ss \in Nat \X Nat : ss[1] < ss[2]}
           T == {n - i : i \in S}
<1>1. IsWellFoundedOn(R, Nat)
  BY NatLessThanWellFounded DEF OpToRel
<1>2. T \subseteq Nat /\ T # {}
  <2>1. \A i \in S : i \in 1..n
    OBVIOUS
  <2>2. \A i \in 1..n : n - i \in Nat
    OBVIOUS
  <2>3. \A i \in S : n - i \in Nat
    BY <2>1, <2>2, Zenon
  <2>4. PICK i \in S : TRUE
    OBVIOUS
  <2>5. n - i \in T
    OBVIOUS
  <2>. QED  BY <2>3, <2>5
<1>3. \A i, j \in Nat : <<j, i>> \notin R => i <= j
  OBVIOUS
<1>4. PICK t \in T : \A u \in T : <<u, t>> \notin R
  <2> HIDE DEF R, T
  <2>. QED  BY <1>1, <1>2, WFMin
<1>5. \A u \in T : t <= u
  <2> HIDE DEF R, T
  <2>. QED  BY <1>2, <1>3, <1>4
<1>6. PICK i \in S : t = n - i
  OBVIOUS
<1>7. \A j \in S : n - i <= n - j
  BY <1>5, <1>6
<1>. QED  BY <1>6, <1>7

(* What holds of 0, and of i + 1 if it holds of i, holds up to n.             *)
LEMMA UpTo ==
  ASSUME NEW n \in Nat, NEW S, 0 \in S, \A i \in 0..(n-1) : i \in S => i + 1 \in S
  PROVE  \A i \in 0..n : i \in S
<1> DEFINE G == {j \in 1..(n+1) : \A i \in 0..(j-1) : i \in S}
<1>1. n + 1 \in Nat /\ G \subseteq 1..(n+1) /\ 1 \in G
  OBVIOUS
<1>2. PICK j \in G : \A l \in G : l <= j
  <2> HIDE DEF G
  <2>. QED  BY <1>1, GreatestIndex
<1>3. CASE j = n + 1
  BY <1>2, <1>3
<1>4. CASE j # n + 1
  <2>1. j \in 1..n /\ \A i \in 0..(j-1) : i \in S
    BY <1>2, <1>4
  <2>2. j - 1 \in 0..(n-1) /\ j - 1 \in S /\ (j - 1) + 1 = j
    BY <2>1
  <2>3. j \in S
    BY <2>2
  <2>4. \A i \in 0..j : i \in 0..(j-1) \/ i = j
    BY <2>1
  <2>5. j + 1 \in 1..(n+1) /\ (j + 1) - 1 = j
    BY <2>1
  <2>6. j + 1 \in G
    BY <2>1, <2>3, <2>4, <2>5
  <2>. QED  BY <1>2, <2>1, <2>6
<1>. QED  BY <1>3, <1>4

(* A recursion over 0..n has a solution.                                      *)
IsStep(step, n, V) == step \in [1..n -> [V -> V]]
Solution(g, n, V, v0, step) ==
  g \in [0..n -> V] /\ g[0] = v0 /\ \A i \in 1..n : g[i] = step[i][g[i-1]]

(* Steps that stay in V can be taken one after the other.                     *)
LEMMA Recursion ==
  ASSUME NEW n \in Nat, NEW V, NEW v0 \in V, NEW step, IsStep(step, n, V)
  PROVE  \E g : Solution(g, n, V, v0, step)
<1> DEFINE Solves(g, k) ==
             g \in [0..k -> V] /\ g[0] = v0 /\ \A i \in 1..k : g[i] = step[i][g[i-1]]
           S == {k \in 0..n : \E g \in [0..k -> V] : Solves(g, k)}
<1>0. step \in [1..n -> [V -> V]]
  BY DEF IsStep
<1>1. 0 \in S
  <2> DEFINE g == [i \in 0..0 |-> v0]
  <2>1. Solves(g, 0) /\ g \in [0..0 -> V] /\ 0 \in 0..n
    OBVIOUS
  <2> HIDE DEF g
  <2>2. \E h \in [0..0 -> V] : Solves(h, 0)
    BY <2>1
  <2> HIDE DEF Solves
  <2>. QED  BY <2>1, <2>2
<1>2. ASSUME NEW k \in 0..(n-1), k \in S
      PROVE  k + 1 \in S
  <2>1. PICK g \in [0..k -> V] : Solves(g, k)
    BY <1>2
  <2> DEFINE h == [i \in 0..(k+1) |-> IF i = k + 1 THEN step[k+1][g[k]] ELSE g[i]]
  <2>2. step[k+1][g[k]] \in V
    <3>1. k + 1 \in 1..n /\ g[k] \in V
      BY <2>1
    <3>. QED  BY <1>0, <3>1
  <2>3. h \in [0..(k+1) -> V]
    BY <2>1, <2>2
  <2>4. h[0] = v0
    BY <2>1
  <2>5. ASSUME NEW i \in 1..(k+1)
        PROVE  h[i] = step[i][h[i-1]]
    <3>1. CASE i = k + 1
      <4>1. i - 1 = k /\ k \in 0..(k+1) /\ k # k + 1 /\ k + 1 \in 0..(k+1)
        BY <3>1
      <4>2. h[k] = g[k] /\ h[k+1] = step[k+1][g[k]]
        BY <4>1
      <4> HIDE DEF h
      <4>. QED  BY <3>1, <4>1, <4>2
    <3>2. CASE i # k + 1
      <4>1. i \in 1..k /\ i \in 0..(k+1) /\ i - 1 \in 0..(k+1) /\ i - 1 # k + 1
        BY <3>2
      <4>2. h[i] = g[i] /\ h[i-1] = g[i-1]
        BY <3>2, <4>1
      <4>3. g[i] = step[i][g[i-1]]
        BY <2>1, <4>1
      <4> HIDE DEF h
      <4>. QED  BY <4>2, <4>3
    <3>. QED  BY <3>1, <3>2
  <2> HIDE DEF h
  <2>6. k + 1 \in 0..n
    OBVIOUS
  <2>. QED  BY <2>3, <2>4, <2>5, <2>6
<1>3. \A k \in 0..n : k \in S
  <2> HIDE DEF S
  <2>. QED  BY <1>1, <1>2, UpTo
<1>4. n \in 0..n
  OBVIOUS
<1>. QED  BY <1>3, <1>4 DEF Solution

-----------------------------------------------------------------------------
(* Merging: the recursion of _merge_pack_layers has a solution                *)

(* What merging can give.                                                     *)
Merged == Dict \cup {Failed}

(* The layers of a file are packs, at most one of them its base.              *)
LEMMA LayersAreNames ==
  ASSUME NEW file \in PackFile
  PROVE  /\ Layers(file) \in Seq(Names) /\ Len(Layers(file)) \in Nat
         /\ Base(file) \in Seq(Names) /\ Len(Base(file)) \in {0, 1}
         /\ \A i \in 1..Len(Layers(file)) : Layers(file)[i] \in Names
<1>1. file.extends \in Names \cup {Absent} /\ file.import \in Seq(Names)
  BY DEF PackFile
<1>2. Base(file) \in Seq(Names) /\ Len(Base(file)) \in {0, 1}
  BY <1>1 DEF Base
<1>3. Layers(file) \in Seq(Names)
  BY <1>1, <1>2 DEF Layers
<1>. QED  BY <1>2, <1>3

(* A layer added to what was merged gives a pack or an exception.             *)
LEMMA AddLayerType ==
  ASSUME NEW file, NEW i, NEW a \in Merged, NEW b \in Merged
  PROVE  add_layer(file, i, a, b) \in Merged
BY DEF add_layer, update, Merged, Dict

(* The loop of _merge_pack_layers: each layer in turn, from nothing.          *)
LEMMA MergeAllSteps ==
  ASSUME NEW file \in PackFile, NEW subs \in [1..Len(Layers(file)) -> Merged]
  PROVE  \E f \in [0..Len(Layers(file)) -> Merged] :
           /\ f[0] = Nothing
           /\ \A i \in 1..Len(Layers(file)) : f[i] = add_layer(file, i, f[i-1], subs[i])
           /\ merge_all(file, subs) = f[Len(Layers(file))]
<1> DEFINE L == Len(Layers(file))
           Body(f) == [i \in 0..L |->
                         IF i = 0 THEN Nothing ELSE add_layer(file, i, f[i-1], subs[i])]
           step == [i \in 1..L |-> [v \in Merged |-> add_layer(file, i, v, subs[i])]]
           merged == CHOOSE f : f = Body(f)
<1>0. L \in Nat /\ Nothing \in Merged
  BY LayersAreNames DEF Nothing, Merged, Dict
<1>1. \E g : g = Body(g)
  <2>1. IsStep(step, L, Merged)
    BY AddLayerType DEF IsStep
  <2>2. PICK g : Solution(g, L, Merged, Nothing, step)
    <3> HIDE DEF step, L
    <3>. QED  BY <1>0, <2>1, Recursion
  <2>3. \A i \in 1..L : g[i-1] \in Merged
    <3> HIDE DEF step, L
    <3>. QED  BY <1>0, <2>2 DEF Solution
  <2>4. \A i \in 1..L : g[i] = add_layer(file, i, g[i-1], subs[i])
    BY <2>2, <2>3 DEF Solution
  <2>5. g = Body(g)
    <3> HIDE DEF step, L
    <3>1. \A i \in 0..L : i = 0 \/ i \in 1..L
      BY <1>0
    <3>. QED  BY <2>2, <2>4, <3>1 DEF Solution
  <2>. QED  BY <2>5
<1>2. merged = Body(merged)
  <2> HIDE DEF Body
  <2>. QED  BY <1>1
<1>3. merge_all(file, subs) = merged[L]
  BY DEF merge_all
<1> HIDE DEF merged, step
<1>4. /\ merged[0] = Nothing
      /\ \A i \in 1..L : merged[i] = add_layer(file, i, merged[i-1], subs[i])
      /\ DOMAIN merged = 0..L
  <2> HIDE DEF L
  <2>1. \A i \in 1..L : i \in 0..L /\ i # 0
    BY <1>0
  <2>2. 0 \in 0..L
    BY <1>0
  <2>. QED  BY <1>2, <2>1, <2>2
<1>5. \A i \in 0..L : merged[i] \in Merged
  <2> DEFINE S == {i \in 0..L : merged[i] \in Merged}
  <2> HIDE DEF L
  <2>1. 0 \in S
    BY <1>0, <1>4
  <2>2. ASSUME NEW i \in 0..(L-1), i \in S
        PROVE  i + 1 \in S
    <3>1. i + 1 \in 1..L /\ (i + 1) - 1 = i /\ i + 1 \in 0..L
      BY <1>0
    <3>2. merged[i+1] = add_layer(file, i + 1, merged[i], subs[i+1])
      BY <1>4, <3>1
    <3>3. subs[i+1] \in Merged
      BY <3>1 DEF L
    <3>. QED  BY <2>2, <3>1, <3>2, <3>3, AddLayerType
  <2>3. \A i \in 0..L : i \in S
    <3> HIDE DEF S
    <3>. QED  BY <1>0, <2>1, <2>2, UpTo
  <2>. QED  BY <2>3
<1>6. merged \in [0..L -> Merged]
  <2> HIDE DEF L
  <2>1. merged = [i \in 0..L |-> merged[i]]
    BY <1>2
  <2>. QED  BY <1>5, <2>1
<1>. QED  BY <1>3, <1>4, <1>6

(* A file, or none, under each name; and what a level of _merge_pack_layers   *)
(* gives.                                                                     *)
FileTable == [Names -> PackFile \cup {Absent}]
Levels == [Names -> [SUBSET Names -> Merged]]

(* What the layers of a file are merged to.                                   *)
Subs(file, n, visiting, deeper) ==
  [i \in 1..Len(Layers(file)) |-> deeper[Layers(file)[i]][visiting \cup {n}]]

(* merge_file by the merges of its layers.                                    *)
LEMMA MergeFileIs ==
  ASSUME NEW file \in PackFile, NEW n \in Names, NEW visiting \in SUBSET Names, NEW deeper
  PROVE  merge_file(file, n, visiting, deeper)
           = IF merge_all(file, Subs(file, n, visiting, deeper)) = Failed THEN Failed
             ELSE update(merge_all(file, Subs(file, n, visiting, deeper)), body_of(file))
<1>1. DOMAIN Layers(file) = 1..Len(Layers(file))
  BY LayersAreNames
<1>. QED  BY <1>1 DEF merge_file, Subs, visiting_in

(* Its layers are merged to packs or exceptions,                              *)
LEMMA SubsType ==
  ASSUME NEW file \in PackFile, NEW n \in Names, NEW visiting \in SUBSET Names,
         NEW deeper \in Levels
  PROVE  Subs(file, n, visiting, deeper) \in [1..Len(Layers(file)) -> Merged]
BY LayersAreNames DEF Subs, Levels

(* as is all of them,                                                         *)
LEMMA MergeAllType ==
  ASSUME NEW file \in PackFile, NEW subs \in [1..Len(Layers(file)) -> Merged]
  PROVE  merge_all(file, subs) \in Merged
<1>1. Len(Layers(file)) \in 0..Len(Layers(file))
  BY LayersAreNames
<1>. QED  BY <1>1, MergeAllSteps

(* dict.update of packs is a pack,                                            *)
LEMMA UpdateType ==
  ASSUME NEW a \in Dict, NEW b \in Dict
  PROVE  update(a, b) \in Dict
BY DEF update, Dict

(* the body that is merged is one, and has all other keys of the file,        *)
LEMMA BodyType ==
  ASSUME NEW file \in PackFile
  PROVE  /\ file.body \in Dict /\ body_of(file) \in Dict
         /\ body_of(file)["import"] = Absent
         /\ \A k \in Keys : k # "import" => body_of(file)[k] = file.body[k]
BY PackAssumption DEF PackFile, body_of, Dict

(* and so is a file under its layers.                                         *)
LEMMA MergeFileType ==
  ASSUME NEW file \in PackFile, NEW n \in Names, NEW visiting \in SUBSET Names,
         NEW deeper \in Levels
  PROVE  merge_file(file, n, visiting, deeper) \in Merged
<1>1. merge_all(file, Subs(file, n, visiting, deeper)) \in Merged
  BY SubsType, MergeAllType
<1>2. body_of(file) \in Dict
  BY BodyType
<1>. QED  BY <1>1, <1>2, MergeFileIs, UpdateType DEF Merged

(* The merges of every pack at every depth: what _merge_pack_layers returns.  *)
LEMMA MergeLevels ==
  ASSUME NEW fs \in FileTable
  PROVE  /\ \A d \in 0..(MaxDepth + 1) : merge_pack_layers(fs)[d] \in Levels
         /\ \A d \in 0..(MaxDepth + 1) : \A n \in Names : \A v \in SUBSET Names :
              merge_pack_layers(fs)[d][n][v]
                = IF d > MaxDepth \/ n \in v \/ fs[n] = Absent THEN Failed
                  ELSE merge_file(fs[n], n, v, merge_pack_layers(fs)[d + 1])
<1> DEFINE M == MaxDepth + 1
           Level(d, deeper) ==
             [n \in Names |-> [v \in SUBSET Names |->
                IF d > MaxDepth \/ n \in v \/ fs[n] = Absent THEN Failed
                ELSE merge_file(fs[n], n, v, deeper)]]
           Body(f) == [d \in 0..M |-> Level(d, f[d + 1])]
           merge == CHOOSE f : f = Body(f)
           step == [i \in 1..M |-> [deeper \in Levels |-> Level(M - i, deeper)]]
           last == [n \in Names |-> [v \in SUBSET Names |-> Failed]]
<1>0. M \in Nat /\ MaxDepth \in Nat /\ M = MaxDepth + 1 /\ Absent \notin PackFile
  BY PackAssumption
<1>1. \A d : \A deeper \in Levels : Level(d, deeper) \in Levels
  <2>1. ASSUME NEW d, NEW deeper \in Levels, NEW n \in Names, NEW v \in SUBSET Names
        PROVE  (IF d > MaxDepth \/ n \in v \/ fs[n] = Absent THEN Failed
                ELSE merge_file(fs[n], n, v, deeper)) \in Merged
    BY <2>1, MergeFileType DEF FileTable, Merged
  <2>. QED  BY <2>1 DEF Levels
<1>2. /\ last \in Levels
      /\ \A deeper : Level(M, deeper) = last
  <2>1. last \in Levels
    BY DEF Levels, Merged
  <2>2. M > MaxDepth
    BY <1>0
  <2>. QED  BY <2>1, <2>2
<1>3. IsStep(step, M, Levels)
  <2> HIDE DEF Level
  <2>. QED  BY <1>1 DEF IsStep
<1>4. PICK g : Solution(g, M, Levels, last, step)
  <2> HIDE DEF M, step, last
  <2>. QED  BY <1>0, <1>2, <1>3, Recursion
<1>5. \E f : f = Body(f)
  <2> DEFINE f == [d \in 0..M |-> g[M - d]]
  <2>1. ASSUME NEW d \in 0..M
        PROVE  f[d] = Level(d, f[d + 1])
    <3>1. CASE d = M
      <4>1. M - d = 0 /\ f[d] = g[M - d] /\ g[0] = last
        BY <1>0, <1>4, <3>1 DEF Solution
      <4> HIDE DEF f, Level, last
      <4>. QED  BY <1>2, <3>1, <4>1
    <3>2. CASE d # M
      <4>1. /\ M - d \in 1..M /\ (M - d) - 1 = M - (d + 1) /\ d + 1 \in 0..M
            /\ M - (M - d) = d /\ M - (d + 1) \in 0..M
        BY <1>0, <3>2
      <4>2. f[d] = g[M - d] /\ f[d + 1] = g[M - (d + 1)]
        BY <4>1
      <4>3. g[M - d] = step[M - d][g[M - (d + 1)]] /\ g[M - (d + 1)] \in Levels
        <5> HIDE DEF step
        <5>. QED  BY <1>4, <4>1 DEF Solution
      <4>4. step[M - d][g[M - (d + 1)]] = Level(M - (M - d), g[M - (d + 1)])
        <5> HIDE DEF Level
        <5>. QED  BY <4>1, <4>3
      <4> HIDE DEF f, Level, step
      <4>. QED  BY <4>1, <4>2, <4>3, <4>4
    <3>. QED  BY <3>1, <3>2
  <2>2. f = Body(f)
    <3>1. f = [d \in 0..M |-> f[d]]
      OBVIOUS
    <3> HIDE DEF f, Level
    <3>. QED  BY <2>1, <3>1
  <2>. QED  BY <2>2
<1>6. merge = Body(merge)
  <2> HIDE DEF Body
  <2>. QED  BY <1>5
<1>7. merge_pack_layers(fs) = merge
  BY DEF merge_pack_layers
<1> HIDE DEF merge
<1>8. \A d \in 0..M : merge[d] = Level(d, merge[d + 1])
  <2> HIDE DEF Level
  <2>. QED  BY <1>6
<1>9. \A d \in 0..M : merge[d] \in Levels
  <2> DEFINE S == {i \in 0..M : merge[M - i] \in Levels}
  <2>1. 0 \in S
    <3>1. M - 0 = M /\ M \in 0..M /\ 0 \in 0..M
      BY <1>0
    <3>2. merge[M] \in Levels
      <4> HIDE DEF Level, last
      <4>. QED  BY <1>2, <1>8, <3>1
    <3>. QED  BY <3>1, <3>2
  <2>2. ASSUME NEW i \in 0..(M - 1), i \in S
        PROVE  i + 1 \in S
    <3>1. /\ M - (i + 1) \in 0..M /\ (M - (i + 1)) + 1 = M - i /\ i + 1 \in 0..M
      BY <1>0
    <3>2. merge[M - i] \in Levels
      BY <2>2
    <3>3. merge[M - (i + 1)] = Level(M - (i + 1), merge[M - i])
      <4> HIDE DEF Level
      <4>. QED  BY <1>8, <3>1
    <3>4. merge[M - (i + 1)] \in Levels
      <4> HIDE DEF Level
      <4>. QED  BY <1>1, <3>2, <3>3
    <3>. QED  BY <3>1, <3>4
  <2>3. \A i \in 0..M : i \in S
    <3> HIDE DEF S, M
    <3>. QED  BY <1>0, <2>1, <2>2, UpTo
  <2>4. \A d \in 0..M : M - d \in 0..M /\ M - (M - d) = d
    BY <1>0
  <2>5. \A d \in 0..M : M - d \in S
    <3> HIDE DEF S
    <3>. QED  BY <2>3, <2>4
  <2>. QED  BY <2>4, <2>5
<1>10. ASSUME NEW d \in 0..M, NEW n \in Names, NEW v \in SUBSET Names
       PROVE  merge[d][n][v]
                = IF d > MaxDepth \/ n \in v \/ fs[n] = Absent THEN Failed
                  ELSE merge_file(fs[n], n, v, merge[d + 1])
  <2>1. merge[d] = Level(d, merge[d + 1])
    <3> HIDE DEF Level
    <3>. QED  BY <1>8
  <2>2. Level(d, merge[d + 1])[n][v]
          = IF d > MaxDepth \/ n \in v \/ fs[n] = Absent THEN Failed
            ELSE merge_file(fs[n], n, v, merge[d + 1])
    OBVIOUS
  <2> HIDE DEF Level
  <2>. QED  BY <2>1, <2>2
<1>. QED  BY <1>7, <1>9, <1>10

-----------------------------------------------------------------------------
(* Strict files: the set of layers decides                                    *)

(* The first i layers can be merged by a strict file: they load and agree.    *)
Agree(subs, i) ==
  /\ \A j \in 1..i : subs[j] # Failed
  /\ \A j, l \in 1..i : \A k \in Flags :
       subs[j][k] # Absent /\ subs[l][k] # Absent => subs[j][k] = subs[l][k]

(* m has the flags of the first i layers and no others.                       *)
Union(m, subs, i) ==
  /\ m \in Dict
  /\ \A k \in Flags : \A j \in 1..i : subs[j][k] # Absent => m[k] = subs[j][k]
  /\ \A k \in Flags : m[k] # Absent => \E j \in 1..i : subs[j][k] = m[k]

(* What a strict file has after its first i layers.                           *)
StrictlyMerged(m, subs, i) ==
  /\ m \in Merged
  /\ m = Failed <=> ~Agree(subs, i)
  /\ m # Failed => Union(m, subs, i)

(* One more layer of a strict file.                                           *)
LEMMA StrictLayer ==
  ASSUME NEW L \in Nat, NEW subs \in [1..L -> Merged], NEW i \in 0..(L-1),
         NEW m \in Merged, NEW n \in Merged,
         m = Failed <=> ~Agree(subs, i),
         m # Failed => Union(m, subs, i),
         n = IF m = Failed \/ subs[i+1] = Failed \/ import_scalar_conflict(m, subs[i+1])
             THEN Failed ELSE update(m, subs[i+1])
  PROVE  /\ n = Failed <=> ~Agree(subs, i + 1)
         /\ n # Failed => Union(n, subs, i + 1)
<1>0. /\ Failed \notin Dict
      /\ i + 1 \in 1..L /\ i + 1 \in 1..(i+1)
      /\ \A j \in 1..i : j \in 1..(i+1) /\ j \in 1..L
      /\ \A j \in 1..(i+1) : j \in 1..i \/ j = i + 1
  BY PackAssumption
<1>1. CASE m = Failed
  <2>1. ~Agree(subs, i + 1)
    BY <1>0, <1>1 DEF Agree
  <2>. QED  BY <1>1, <2>1
<1>2. CASE m # Failed /\ subs[i+1] = Failed
  <2>1. ~Agree(subs, i + 1)
    BY <1>0, <1>2 DEF Agree
  <2>. QED  BY <1>2, <2>1
<1>3. CASE m # Failed /\ subs[i+1] # Failed
  <2> DEFINE s == subs[i+1]
  <2>0. /\ s \in Dict /\ m \in Dict /\ s # Failed /\ Union(m, subs, i) /\ Agree(subs, i)
        /\ s = subs[i+1]
    BY <1>0, <1>3 DEF Merged
  <2> HIDE DEF s
  <2>1. CASE import_scalar_conflict(m, s)
    <3>1. PICK k \in Flags : m[k] # Absent /\ s[k] # Absent /\ m[k] # s[k]
      BY <2>1 DEF import_scalar_conflict
    <3>2. PICK j \in 1..i : subs[j][k] = m[k]
      BY <2>0, <3>1 DEF Union
    <3>3. ~Agree(subs, i + 1)
      BY <1>0, <2>0, <3>1, <3>2 DEF Agree
    <3>4. n = Failed
      BY <1>3, <2>0, <2>1
    <3>. QED  BY <3>3, <3>4
  <2>2. CASE ~import_scalar_conflict(m, s)
    <3>1. n = update(m, s)
      BY <1>3, <2>0, <2>2
    <3>2. n \in Dict
      BY <2>0, <3>1, UpdateType
    <3>3. \A k \in Flags : m[k] # Absent /\ s[k] # Absent => m[k] = s[k]
      BY <2>2 DEF import_scalar_conflict
    <3>4. \A k \in Flags : n[k] = IF s[k] = Absent THEN m[k] ELSE s[k]
      BY <3>1, PackAssumption DEF update
    <3>5. \A k \in Flags : \A j \in 1..i : subs[j][k] # Absent => m[k] = subs[j][k]
      BY <2>0 DEF Union
    <3>6. \A k \in Flags : m[k] # Absent => \E j \in 1..i : subs[j][k] = m[k]
      BY <2>0 DEF Union
    <3>7. Agree(subs, i + 1)
      <4>1. \A j \in 1..(i+1) : subs[j] # Failed
        BY <1>0, <2>0 DEF Agree
      <4>2. ASSUME NEW j \in 1..(i+1), NEW l \in 1..(i+1), NEW k \in Flags,
                   subs[j][k] # Absent, subs[l][k] # Absent
            PROVE  subs[j][k] = subs[l][k]
        <5>1. CASE j \in 1..i /\ l \in 1..i
          BY <2>0, <4>2, <5>1 DEF Agree
        <5>2. CASE j = i + 1 /\ l \in 1..i
          BY <2>0, <3>3, <3>5, <4>2, <5>2
        <5>3. CASE j \in 1..i /\ l = i + 1
          BY <2>0, <3>3, <3>5, <4>2, <5>3
        <5>. QED  BY <1>0, <5>1, <5>2, <5>3
      <4>. QED  BY <4>1, <4>2 DEF Agree
    <3>8. Union(n, subs, i + 1)
      <4>1. ASSUME NEW k \in Flags, NEW j \in 1..(i+1), subs[j][k] # Absent
            PROVE  n[k] = subs[j][k]
        BY <1>0, <2>0, <3>3, <3>4, <3>5, <4>1
      <4>2. ASSUME NEW k \in Flags, n[k] # Absent
            PROVE  \E j \in 1..(i+1) : subs[j][k] = n[k]
        BY <1>0, <2>0, <3>4, <3>6, <4>2
      <4>. QED  BY <3>2, <4>1, <4>2 DEF Union
    <3>. QED  BY <1>0, <3>2, <3>7, <3>8
  <2>. QED  BY <2>1, <2>2
<1>. QED  BY <1>1, <1>2, <1>3

(* What a strict file merges its layers to, whatever their order.             *)
LEMMA StrictMerge ==
  ASSUME NEW file \in PackFile, file.strict,
         NEW subs \in [1..Len(Layers(file)) -> Merged]
  PROVE  StrictlyMerged(merge_all(file, subs), subs, Len(Layers(file)))
<1> DEFINE L == Len(Layers(file))
<1>0. L \in Nat /\ Len(Base(file)) \in {0, 1} /\ Failed \notin Dict
  BY LayersAreNames, PackAssumption
<1>1. PICK f \in [0..L -> Merged] :
        /\ f[0] = Nothing
        /\ \A i \in 1..L : f[i] = add_layer(file, i, f[i-1], subs[i])
        /\ merge_all(file, subs) = f[L]
  BY MergeAllSteps
<1> DEFINE S == {i \in 0..L : StrictlyMerged(f[i], subs, i)}
<1>2. 0 \in S
  <2>1. Nothing \in Dict /\ \A k \in Flags : Nothing[k] = Absent
    BY PackAssumption DEF Nothing, Dict
  <2>2. Agree(subs, 0)
    BY DEF Agree
  <2>3. Union(Nothing, subs, 0)
    BY <2>1 DEF Union
  <2>4. StrictlyMerged(f[0], subs, 0)
    <3> HIDE DEF L
    <3>. QED  BY <1>0, <1>1, <2>1, <2>2, <2>3 DEF StrictlyMerged, Merged
  <2>. QED  BY <1>0, <2>4
<1>3. ASSUME NEW i \in 0..(L-1), i \in S
      PROVE  i + 1 \in S
  <2>1. i + 1 \in 1..L /\ i \in 0..L /\ i + 1 \in 0..L /\ (i + 1) - 1 = i
    BY <1>0
  <2>2. f[i] \in Merged /\ f[i+1] \in Merged /\ subs[i+1] \in Merged
    BY <1>1, <2>1
  <2>3. f[i+1] = add_layer(file, i + 1, f[i], subs[i+1])
    BY <1>1, <2>1
  <2>4. i = 0 => ~import_scalar_conflict(f[i], subs[i+1])
    BY <1>1, PackAssumption DEF import_scalar_conflict, Nothing
  <2>5. i # 0 => i + 1 > Len(Base(file))
    BY <1>0, <2>1
  <2>6. f[i+1] = IF \/ f[i] = Failed \/ subs[i+1] = Failed
                    \/ import_scalar_conflict(f[i], subs[i+1])
                 THEN Failed ELSE update(f[i], subs[i+1])
    BY <2>3, <2>4, <2>5 DEF add_layer
  <2>7. StrictlyMerged(f[i], subs, i)
    BY <1>3
  <2>8. StrictlyMerged(f[i+1], subs, i + 1)
    <3> HIDE DEF S
    <3>. QED  BY <1>0, <2>2, <2>6, <2>7, StrictLayer DEF StrictlyMerged
  <2>. QED  BY <2>1, <2>8
<1>4. L \in S
  <2>1. \A i \in 0..L : i \in S
    <3> HIDE DEF S, L
    <3>. QED  BY <1>0, <1>2, <1>3, UpTo
  <2>2. L \in 0..L
    BY <1>0
  <2>. QED  BY <2>1, <2>2
<1>5. StrictlyMerged(f[L], subs, L)
  BY <1>4
<1> HIDE DEF S
<1>. QED  BY <1>1, <1>5

(* Each layer of the one is a layer of the other.                             *)
Covers(a, p, b, q) == \A i \in 1..p : \E j \in 1..q : a[i] = b[j]

(* Neither depends on the order of the layers.                                *)
LEMMA AgreeOfSet ==
  ASSUME NEW a, NEW b, NEW p, NEW q,
         Covers(a, p, b, q), Agree(b, q)
  PROVE  Agree(a, p)
<1>1. ASSUME NEW i \in 1..p, NEW l \in 1..p, NEW k \in Flags,
             a[i][k] # Absent, a[l][k] # Absent
      PROVE  a[i][k] = a[l][k]
  <2>1. PICK j \in 1..q : a[i] = b[j]
    BY DEF Covers
  <2>2. PICK o \in 1..q : a[l] = b[o]
    BY DEF Covers
  <2>. QED  BY <1>1, <2>1, <2>2 DEF Agree
<1>2. \A i \in 1..p : a[i] # Failed
  BY DEF Agree, Covers
<1>. QED  BY <1>1, <1>2 DEF Agree

(* A flag is in both unions, with one value, or in neither.                   *)
LEMMA UnionOfSet ==
  ASSUME NEW a, NEW b, NEW p, NEW q, NEW m, NEW n, NEW k \in Flags,
         Covers(a, p, b, q), Covers(b, q, a, p),
         Union(m, a, p), Union(n, b, q)
  PROVE  m[k] = n[k]
<1>1. CASE m[k] # Absent
  <2>1. PICK i \in 1..p : a[i][k] = m[k]
    BY <1>1 DEF Union
  <2>2. PICK j \in 1..q : a[i] = b[j]
    BY DEF Covers
  <2>3. b[j][k] = m[k]
    BY <2>1, <2>2
  <2>. QED  BY <1>1, <2>3 DEF Union
<1>2. CASE n[k] # Absent
  <2>1. PICK j \in 1..q : b[j][k] = n[k]
    BY <1>2 DEF Union
  <2>2. PICK i \in 1..p : b[j] = a[i]
    BY DEF Covers
  <2>3. a[i][k] = n[k]
    BY <2>1, <2>2
  <2>. QED  BY <1>2, <2>3 DEF Union
<1>. QED  BY <1>1, <1>2

(* Two merges that both raise or give the same flags.                         *)
SameFlags(m, n) ==
  /\ m = Failed <=> n = Failed
  /\ m # Failed => \A k \in Flags : m[k] = n[k]

(* So two strict files with the same set of merged layers merge to the same   *)
(* flags.                                                                     *)
LEMMA StrictMergeOfSet ==
  ASSUME NEW file \in PackFile, file.strict,
         NEW subs \in [1..Len(Layers(file)) -> Merged],
         NEW file2 \in PackFile, file2.strict,
         NEW subs2 \in [1..Len(Layers(file2)) -> Merged],
         Covers(subs, Len(Layers(file)), subs2, Len(Layers(file2))),
         Covers(subs2, Len(Layers(file2)), subs, Len(Layers(file)))
  PROVE  SameFlags(merge_all(file, subs), merge_all(file2, subs2))
<1> DEFINE L == Len(Layers(file))
           L2 == Len(Layers(file2))
           m == merge_all(file, subs)
           m2 == merge_all(file2, subs2)
<1>1. StrictlyMerged(m, subs, L) /\ StrictlyMerged(m2, subs2, L2)
  BY StrictMerge
<1>2. Covers(subs, L, subs2, L2) /\ Covers(subs2, L2, subs, L)
  OBVIOUS
<1> HIDE DEF L, L2, m, m2
<1>3. Agree(subs, L) <=> Agree(subs2, L2)
  BY <1>2, AgreeOfSet
<1>4. CASE m # Failed
  <2>1. Union(m, subs, L) /\ Union(m2, subs2, L2)
    BY <1>1, <1>3, <1>4 DEF StrictlyMerged
  <2>2. ASSUME NEW k \in Flags
        PROVE  m[k] = m2[k]
    BY <1>2, <2>1, UnionOfSet
  <2>3. m2 # Failed
    BY <1>1, <1>3, <1>4 DEF StrictlyMerged
  <2>. QED  BY <1>4, <2>2, <2>3 DEF m, m2, SameFlags
<1>5. CASE m = Failed
  BY <1>1, <1>3, <1>5 DEF m, m2, StrictlyMerged, SameFlags
<1>. QED  BY <1>4, <1>5

(* Below a pack its own file is not read again: `visiting` has it.            *)
LEMMA LevelsAgree ==
  ASSUME NEW fs \in FileTable, NEW fs2 \in FileTable, NEW n \in Names,
         \A m \in Names : m # n => fs2[m] = fs[m]
  PROVE  \A d \in 0..(MaxDepth + 1) : \A m \in Names : \A v \in SUBSET Names :
           n \in v => merge_pack_layers(fs2)[d][m][v] = merge_pack_layers(fs)[d][m][v]
<1> DEFINE M == MaxDepth + 1
           Alike(d) == \A m \in Names : \A v \in SUBSET Names :
             n \in v => merge_pack_layers(fs2)[d][m][v] = merge_pack_layers(fs)[d][m][v]
           S == {i \in 0..M : Alike(M - i)}
<1>0. M \in Nat /\ MaxDepth \in Nat /\ M = MaxDepth + 1 /\ Absent \notin PackFile
  BY PackAssumption
<1>1. 0 \in S
  <2>1. M - 0 = M /\ M \in 0..M /\ 0 \in 0..M /\ M > MaxDepth
    BY <1>0
  <2>2. ASSUME NEW m \in Names, NEW v \in SUBSET Names
        PROVE  merge_pack_layers(fs2)[M][m][v] = merge_pack_layers(fs)[M][m][v]
    BY <2>1, MergeLevels
  <2>3. Alike(M)
    BY <2>2
  <2> HIDE DEF Alike
  <2>. QED  BY <2>1, <2>3
<1>2. ASSUME NEW i \in 0..(M - 1), i \in S
      PROVE  i + 1 \in S
  <2> DEFINE d == M - (i + 1)
  <2>1. d \in 0..M /\ d + 1 = M - i /\ i + 1 \in 0..M /\ d + 1 \in 0..M
    BY <1>0
  <2>2. Alike(M - i)
    BY <1>2
  <2>3. Alike(d + 1)
    <3> HIDE DEF Alike, d
    <3>. QED  BY <2>1, <2>2
  <2> HIDE DEF d
  <2>4. ASSUME NEW m \in Names, NEW v \in SUBSET Names, n \in v
        PROVE  merge_pack_layers(fs2)[d][m][v] = merge_pack_layers(fs)[d][m][v]
    <3>1. /\ merge_pack_layers(fs2)[d][m][v]
               = IF d > MaxDepth \/ m \in v \/ fs2[m] = Absent THEN Failed
                 ELSE merge_file(fs2[m], m, v, merge_pack_layers(fs2)[d + 1])
          /\ merge_pack_layers(fs)[d][m][v]
               = IF d > MaxDepth \/ m \in v \/ fs[m] = Absent THEN Failed
                 ELSE merge_file(fs[m], m, v, merge_pack_layers(fs)[d + 1])
      BY <2>1, MergeLevels
    <3>2. CASE m = n
      BY <2>4, <3>1, <3>2
    <3>3. CASE m # n /\ fs[m] = Absent
      BY <3>1, <3>3
    <3>4. CASE m # n /\ fs[m] # Absent
      <4> DEFINE file == fs[m]
                 deeper == merge_pack_layers(fs)[d + 1]
                 deeper2 == merge_pack_layers(fs2)[d + 1]
      <4>1. file \in PackFile /\ fs2[m] = file
        BY <3>4 DEF FileTable
      <4>2. v \cup {m} \in SUBSET Names /\ n \in v \cup {m}
        BY <2>4
      <4>3. \A l \in Names : deeper2[l][v \cup {m}] = deeper[l][v \cup {m}]
        BY <2>3, <4>2
      <4> HIDE DEF file, deeper, deeper2
      <4>4. Subs(file, m, v, deeper2) = Subs(file, m, v, deeper)
        BY <4>1, <4>3, LayersAreNames DEF Subs
      <4>5. merge_file(file, m, v, deeper2) = merge_file(file, m, v, deeper)
        BY <4>1, <4>4, MergeFileIs
      <4>. QED  BY <3>1, <4>1, <4>5 DEF file, deeper, deeper2
    <3>. QED  BY <3>2, <3>3, <3>4
  <2>5. Alike(d)
    BY <2>4
  <2> HIDE DEF Alike
  <2>. QED  BY <2>1, <2>5 DEF d
<1>3. \A i \in 0..M : i \in S
  <2> HIDE DEF S, M
  <2>. QED  BY <1>0, <1>1, <1>2, UpTo
<1>4. \A d \in 0..M : M - d \in 0..M /\ M - (M - d) = d
  BY <1>0
<1>5. \A d \in 0..M : Alike(d)
  <2>1. ASSUME NEW d \in 0..M
        PROVE  Alike(d)
    <3>1. M - d \in S
      BY <1>3, <1>4
    <3>2. Alike(M - (M - d))
      BY <3>1
    <3> HIDE DEF Alike
    <3>. QED  BY <1>4, <3>2
  <2>. QED  BY <2>1
<1>. QED  BY <1>5

(* Without extends and import there are no layers.                            *)
LEMMA NoLayers ==
  ASSUME NEW file \in PackFile
  PROVE  (file.extends = Absent /\ file.import = <<>>) <=> Len(Layers(file)) = 0
<1>1. file.extends \in Names \cup {Absent} /\ file.import \in Seq(Names)
  BY DEF PackFile
<1>2. Absent \notin Names
  BY PackAssumption
<1>3. CASE file.extends = Absent
  BY <1>1, <1>3 DEF Layers, Base
<1>4. CASE file.extends # Absent
  BY <1>1, <1>4 DEF Layers, Base
<1>. QED  BY <1>3, <1>4

(* _merge_pack_layers under error_on_import_scalar_override: neither the      *)
(* order, nor repetition, nor which layer is the base makes a difference to   *)
(* whether a strict file can be merged, nor to its flags. Any two with the    *)
(* same body and the same set of layers agree on both; their lists and names  *)
(* may differ, which the code merges without a comparison.                    *)
THEOREM StrictLayersAreASet ==
  ASSUME NEW fs \in FileTable, NEW n \in Names, fs[n] # Absent, fs[n].strict,
         NEW other \in PackFile, other.strict, other.body = fs[n].body,
         Covers(Layers(fs[n]), Len(Layers(fs[n])), Layers(other), Len(Layers(other))),
         Covers(Layers(other), Len(Layers(other)), Layers(fs[n]), Len(Layers(fs[n])))
  PROVE  SameFlags(merged_dict([fs EXCEPT ![n] = other], n), merged_dict(fs, n))
<1> DEFINE file == fs[n]
           fs2 == [fs EXCEPT ![n] = other]
           L == Len(Layers(file))
           L2 == Len(Layers(other))
           deeper == merge_pack_layers(fs)[1]
           deeper2 == merge_pack_layers(fs2)[1]
           subs == Subs(file, n, {}, deeper)
           subs2 == Subs(other, n, {}, deeper2)
<1>0. /\ file \in PackFile /\ file.strict /\ other.body = file.body
      /\ MaxDepth \in Nat /\ Absent \notin PackFile
      /\ 0 \in 0..(MaxDepth + 1) /\ 1 \in 0..(MaxDepth + 1) /\ 0 + 1 = 1 /\ ~(0 > MaxDepth)
  BY PackAssumption DEF FileTable
<1>1. fs2 \in FileTable /\ fs2[n] = other /\ \A m \in Names : m # n => fs2[m] = fs[m]
  BY DEF FileTable
<1>2. L \in Nat /\ L2 \in Nat
  BY <1>0, LayersAreNames
<1>3. Covers(Layers(file), L, Layers(other), L2) /\ Covers(Layers(other), L2, Layers(file), L)
  OBVIOUS
<1>4. fs[n] = file
  OBVIOUS
<1> HIDE DEF fs2, file
<1>5. L = 0 <=> L2 = 0
  BY <1>2, <1>3 DEF Covers
<1>6. CASE L = 0
  <2>1. merged_dict(fs2, n) = merged_dict(fs, n)
    BY <1>0, <1>1, <1>4, <1>5, <1>6, NoLayers DEF merged_dict
  <2>. QED  BY <2>1 DEF SameFlags, fs2
<1>7. CASE L # 0
  <2>1. /\ merged_dict(fs, n) = merge_pack_layers(fs)[0][n][{}]
        /\ merged_dict(fs2, n) = merge_pack_layers(fs2)[0][n][{}]
    BY <1>0, <1>1, <1>4, <1>5, <1>7, NoLayers DEF merged_dict
  <2>2. {} \in SUBSET Names /\ n \notin {} /\ {} \cup {n} = {n} /\ {n} \in SUBSET Names
    OBVIOUS
  <2>3. /\ merge_pack_layers(fs)[0][n][{}] = merge_file(file, n, {}, deeper)
        /\ merge_pack_layers(fs2)[0][n][{}] = merge_file(other, n, {}, deeper2)
    <3>1. merge_pack_layers(fs)[0][n][{}] = merge_file(fs[n], n, {}, deeper)
      BY <1>0, <1>4, <2>2, MergeLevels
    <3>2. merge_pack_layers(fs2)[0][n][{}] = merge_file(fs2[n], n, {}, deeper2)
      BY <1>0, <1>1, <2>2, MergeLevels
    <3>. QED  BY <1>1, <1>4, <3>1, <3>2
  <2>4. deeper \in Levels /\ deeper2 \in Levels
    BY <1>0, <1>1, MergeLevels
  <2>5. \A m \in Names : deeper2[m][{n}] = deeper[m][{n}]
    BY <1>0, <1>1, <2>2, LevelsAgree
  <2> HIDE DEF deeper, deeper2
  <2>6. /\ subs \in [1..L -> Merged] /\ subs2 \in [1..L2 -> Merged]
    BY <1>0, <2>4, SubsType
  <2>7. /\ \A i \in 1..L : subs[i] = deeper[Layers(file)[i]][{n}]
        /\ \A i \in 1..L2 : subs2[i] = deeper2[Layers(other)[i]][{n}]
    BY <2>2 DEF Subs
  <2>8. /\ \A i \in 1..L : Layers(file)[i] \in Names
        /\ \A i \in 1..L2 : Layers(other)[i] \in Names
    BY <1>0, LayersAreNames
  <2> HIDE DEF L, L2, subs, subs2
  <2>9. Covers(subs, L, subs2, L2)
    <3>1. ASSUME NEW i \in 1..L
          PROVE  \E j \in 1..L2 : subs[i] = subs2[j]
      <4>1. PICK j \in 1..L2 : Layers(file)[i] = Layers(other)[j]
        BY <1>3 DEF Covers
      <4>2. subs[i] = subs2[j]
        BY <2>5, <2>7, <2>8, <4>1
      <4>. QED  BY <4>2
    <3>. QED  BY <3>1 DEF Covers
  <2>10. Covers(subs2, L2, subs, L)
    <3>1. ASSUME NEW i \in 1..L2
          PROVE  \E j \in 1..L : subs2[i] = subs[j]
      <4>1. PICK j \in 1..L : Layers(other)[i] = Layers(file)[j]
        BY <1>3 DEF Covers
      <4>2. subs2[i] = subs[j]
        BY <2>5, <2>7, <2>8, <4>1
      <4>. QED  BY <4>2
    <3>. QED  BY <3>1 DEF Covers
  <2> DEFINE m == merge_all(file, subs)
             m2 == merge_all(other, subs2)
             body == body_of(file)
  <2>11. SameFlags(m, m2)
    BY <1>0, <2>6, <2>9, <2>10, StrictMergeOfSet DEF L, L2
  <2>12. m \in Merged /\ m2 \in Merged
    BY <1>0, <2>6, MergeAllType DEF L, L2
  <2>13. body \in Dict /\ body_of(other) = body
    BY <1>0, BodyType DEF body_of
  <2>14. /\ merge_file(file, n, {}, deeper) = IF m = Failed THEN Failed ELSE update(m, body)
         /\ merge_file(other, n, {}, deeper2) = IF m2 = Failed THEN Failed ELSE update(m2, body)
    BY <1>0, <2>2, <2>13, MergeFileIs DEF subs, subs2
  <2> HIDE DEF m, m2, body
  <2>15. SameFlags(merge_file(other, n, {}, deeper2), merge_file(file, n, {}, deeper))
    <3>1. CASE m = Failed
      BY <2>11, <2>14, <3>1 DEF SameFlags
    <3>2. CASE m # Failed
      <4>1. m2 # Failed /\ m \in Dict /\ m2 \in Dict
        BY <2>11, <2>12, <3>2 DEF SameFlags, Merged
      <4>2. update(m, body) \in Dict /\ update(m2, body) \in Dict
        BY <2>13, <4>1, UpdateType
      <4>3. \A k \in Flags : update(m, body)[k] = update(m2, body)[k]
        BY <2>11, <3>2, PackAssumption DEF SameFlags, update
      <4>. QED  BY <2>14, <3>2, <4>1, <4>2, <4>3, PackAssumption DEF SameFlags
    <3>. QED  BY <3>1, <3>2
  <2>. QED  BY <2>1, <2>3, <2>15 DEF fs2
<1>. QED  BY <1>6, <1>7

(* What a pack is merged to is a pack or an exception.                        *)
LEMMA MergedDictType ==
  ASSUME NEW fs \in FileTable, NEW n \in Names
  PROVE  merged_dict(fs, n) \in Merged
<1>1. /\ 0 \in 0..(MaxDepth + 1) /\ {} \in SUBSET Names
  BY PackAssumption
<1>2. merge_pack_layers(fs)[0] \in Levels
  BY <1>1, MergeLevels
<1>3. merge_pack_layers(fs)[0][n][{}] \in Merged
  BY <1>1, <1>2 DEF Levels
<1>4. fs[n] # Absent => fs[n].body \in Dict
  BY DEF FileTable, PackFile
<1>. QED  BY <1>3, <1>4 DEF merged_dict, Merged

(* Reverse, item by item.                                                     *)
LEMMA ReverseIs ==
  ASSUME NEW S, NEW s \in Seq(S)
  PROVE  /\ Reverse(s) \in Seq(S) /\ Len(Reverse(s)) = Len(s)
         /\ \A i \in 1..Len(s) : Reverse(s)[i] = s[(Len(s) - i) + 1]
<1>1. \A i \in 1..Len(s) : (Len(s) - i) + 1 \in 1..Len(s)
  OBVIOUS
<1>2. \A i \in 1..Len(s) : s[(Len(s) - i) + 1] \in S
  BY <1>1
<1>. QED  BY <1>2 DEF Reverse

(* Concatenation, item by item.                                               *)
LEMMA ConcatIs ==
  ASSUME NEW S, NEW a \in Seq(S), NEW b \in Seq(S)
  PROVE  /\ Len(a \o b) = Len(a) + Len(b)
         /\ \A i \in 1..(Len(a) + Len(b)) :
              (a \o b)[i] = IF i <= Len(a) THEN a[i] ELSE b[i - Len(a)]
OBVIOUS

(* A file with its imports in reverse has the same set of layers.             *)
LEMMA ReversedLayers ==
  ASSUME NEW file \in PackFile, NEW other, other = [file EXCEPT !.import = Reverse(@)]
  PROVE  /\ other \in PackFile /\ other.strict = file.strict /\ other.body = file.body
         /\ Covers(Layers(file), Len(Layers(file)), Layers(other), Len(Layers(other)))
         /\ Covers(Layers(other), Len(Layers(other)), Layers(file), Len(Layers(file)))
<1> DEFINE s == file.import
           B == Len(Base(file))
           N == Len(s)
<1>1. /\ s \in Seq(Names) /\ Reverse(s) \in Seq(Names) /\ Len(Reverse(s)) = N
      /\ N \in Nat
      /\ \A i \in 1..N : Reverse(s)[i] = s[(N - i) + 1]
  BY ReverseIs DEF PackFile
<1>2. /\ other \in PackFile /\ other.strict = file.strict /\ other.body = file.body
      /\ other.extends = file.extends /\ other.import = Reverse(s)
  BY <1>1 DEF PackFile
<1>3. Base(other) = Base(file) /\ Base(file) \in Seq(Names) /\ B \in Nat
  BY <1>2, LayersAreNames DEF Base
<1>4. /\ Len(Layers(file)) = B + N /\ Len(Layers(other)) = B + N
      /\ \A i \in 1..(B + N) : /\ Layers(file)[i] = IF i <= B THEN Base(file)[i] ELSE s[i - B]
                               /\ Layers(other)[i] = IF i <= B THEN Base(file)[i]
                                                     ELSE Reverse(s)[i - B]
  <2> DEFINE r == Reverse(s)
             b == Base(file)
  <2>1. Layers(file) = b \o s /\ Layers(other) = b \o r
    BY <1>2, <1>3 DEF Layers
  <2>2. b \in Seq(Names) /\ s \in Seq(Names) /\ r \in Seq(Names) /\ Len(r) = N
    BY <1>1, <1>3
  <2>3. B = Len(b) /\ N = Len(s)
    OBVIOUS
  <2> HIDE DEF r, b, B, N, s
  <2>4. /\ Len(b \o s) = B + N
        /\ \A i \in 1..(B + N) : (b \o s)[i] = IF i <= B THEN b[i] ELSE s[i - B]
    BY <2>2, <2>3, ConcatIs
  <2>5. /\ Len(b \o r) = B + N
        /\ \A i \in 1..(B + N) : (b \o r)[i] = IF i <= B THEN b[i] ELSE r[i - B]
    BY <2>2, <2>3, ConcatIs
  <2>. QED  BY <2>1, <2>4, <2>5 DEF b, r
<1> HIDE DEF s, B, N
<1>5. \A i \in 1..(B + N) :
         i > B => /\ i - B \in 1..N /\ (B + N + B + 1) - i \in 1..(B + N)
                  /\ (B + N + B + 1) - i > B
                  /\ ((B + N + B + 1) - i) - B = (N - (i - B)) + 1
                  /\ ((B + N + B + 1) - i) - B \in 1..N
                  /\ (N - (((B + N + B + 1) - i) - B)) + 1 = i - B
  BY <1>1, <1>3
<1>6. \A i \in 1..(B + N) : ~(i <= B) <=> i > B
  BY <1>1, <1>3
<1>7. ASSUME NEW i \in 1..(B + N), i > B
      PROVE  /\ Layers(file)[i] = Layers(other)[(B + N + B + 1) - i]
             /\ Layers(other)[i] = Layers(file)[(B + N + B + 1) - i]
  <2> DEFINE j == (B + N + B + 1) - i
  <2>1. /\ i - B \in 1..N /\ j \in 1..(B + N) /\ j > B /\ j - B \in 1..N
        /\ j - B = (N - (i - B)) + 1 /\ (N - (j - B)) + 1 = i - B
    BY <1>5, <1>7
  <2> HIDE DEF j
  <2>2. ~(i <= B) /\ ~(j <= B)
    BY <1>6, <1>7, <2>1
  <2>3. Layers(file)[i] = s[i - B] /\ Layers(other)[j] = Reverse(s)[j - B]
    BY <1>4, <2>1, <2>2
  <2>4. Layers(other)[i] = Reverse(s)[i - B] /\ Layers(file)[j] = s[j - B]
    BY <1>4, <2>1, <2>2
  <2>5. Reverse(s)[i - B] = s[(N - (i - B)) + 1]
    BY <1>1, <2>1
  <2>6. Reverse(s)[j - B] = s[(N - (j - B)) + 1]
    BY <1>1, <2>1
  <2>7. Layers(file)[i] = Layers(other)[j] /\ Layers(other)[i] = Layers(file)[j]
    BY <2>1, <2>3, <2>4, <2>5, <2>6
  <2>. QED  BY <2>7 DEF j
<1>8. ASSUME NEW i \in 1..(B + N)
      PROVE  \E j \in 1..(B + N) : /\ Layers(file)[i] = Layers(other)[j]
                                   /\ Layers(other)[i] = Layers(file)[j]
  <2>1. CASE i <= B
    BY <1>4, <2>1
  <2>2. CASE i > B
    BY <1>5, <1>7, <2>2
  <2>. QED  BY <1>6, <2>1, <2>2
<1>9. Covers(Layers(file), B + N, Layers(other), B + N)
  BY <1>8 DEF Covers
<1>10. Covers(Layers(other), B + N, Layers(file), B + N)
  BY <1>8 DEF Covers
<1>. QED  BY <1>2, <1>4, <1>9, <1>10

(* What was written are files.                                                *)
FilesOK == files \in FileTable


-----------------------------------------------------------------------------
(* The reference: chains are walks                                            *)

(* m is a layer of n.                                                         *)
IsLayer(m, n) == \E j \in 1..Len(LayersOf(n)) : LayersOf(n)[j] = m

(* A way down from a pack, of any length.                                     *)
Walk(c) == /\ c \in Seq(Names) /\ Len(c) > 0
           /\ \A i \in 1..(Len(c) - 1) : IsLayer(c[i+1], c[i])

(* The layers of a name are packs.                                            *)
LEMMA LayersOfAreNames ==
  ASSUME FilesOK, NEW n \in Names
  PROVE  /\ LayersOf(n) \in Seq(Names) /\ Len(LayersOf(n)) \in Nat
         /\ DOMAIN LayersOf(n) = 1..Len(LayersOf(n))
         /\ \A j \in 1..Len(LayersOf(n)) : LayersOf(n)[j] \in Names
         /\ \A m : IsLayer(m, n) => m \in Names
         /\ \A m : m \in ToSet(LayersOf(n)) <=> IsLayer(m, n)
<1>1. LayersOf(n) \in Seq(Names)
  BY LayersAreNames DEF LayersOf, FilesOK, FileTable
<1>2. /\ Len(LayersOf(n)) \in Nat /\ DOMAIN LayersOf(n) = 1..Len(LayersOf(n))
      /\ \A j \in 1..Len(LayersOf(n)) : LayersOf(n)[j] \in Names
  BY <1>1
<1>3. \A m : m \in ToSet(LayersOf(n)) <=> IsLayer(m, n)
  BY <1>2 DEF ToSet, IsLayer
<1>. QED  BY <1>1, <1>2, <1>3 DEF IsLayer

(* The walks from n with so many steps.                                       *)
Exactly(chains, n, steps) ==
  \A c : c \in chains <=> Walk(c) /\ c[1] = n /\ Len(c) = steps + 1

(* The walk of no steps is the pack alone.                                    *)
LEMMA OneStep ==
  ASSUME NEW n \in Names
  PROVE  Exactly({<<n>>}, n, 0)
<1>1. Walk(<<n>>) /\ <<n>>[1] = n /\ Len(<<n>>) = 0 + 1
  BY DEF Walk
<1>2. ASSUME NEW c, Walk(c), c[1] = n, Len(c) = 0 + 1
      PROVE  c = <<n>>
  BY <1>2 DEF Walk
<1>. QED  BY <1>1, <1>2 DEF Exactly

(* Append a layer to each walk of so many steps: those of one more.           *)
LEMMA LongerWalks ==
  ASSUME FilesOK, NEW n \in Names, NEW steps \in Nat, NEW chains, Exactly(chains, n, steps)
  PROVE  Exactly(Longer(chains), n, steps + 1)
<1>1. ASSUME NEW c \in Longer(chains)
      PROVE  Walk(c) /\ c[1] = n /\ Len(c) = steps + 2
  <2>1. PICK b \in chains : \E m \in ToSet(LayersOf(Last(b))) : c = Append(b, m)
    BY DEF Longer
  <2>2. PICK m \in ToSet(LayersOf(Last(b))) : c = Append(b, m)
    BY <2>1
  <2>3. /\ b \in Seq(Names) /\ Len(b) = steps + 1 /\ b[1] = n
        /\ \A i \in 1..steps : IsLayer(b[i+1], b[i])
    BY DEF Exactly, Walk
  <2>4. Last(b) = b[steps + 1] /\ Last(b) \in Names
    BY <2>3 DEF Last
  <2>5. m \in Names /\ IsLayer(m, b[steps + 1])
    BY <2>2, <2>4, LayersOfAreNames
  <2>6. /\ c \in Seq(Names) /\ Len(c) = steps + 2 /\ c[steps + 2] = m
        /\ \A i \in 1..(steps + 1) : c[i] = b[i]
    BY <2>2, <2>3, <2>5
  <2>7. \A i \in 1..(steps + 1) : IsLayer(c[i+1], c[i])
    <3>1. ASSUME NEW i \in 1..(steps + 1)
          PROVE  IsLayer(c[i+1], c[i])
      <4>1. CASE i = steps + 1
        <5>1. i + 1 = steps + 2
          BY <4>1
        <5>. QED  BY <2>5, <2>6, <4>1, <5>1
      <4>2. CASE i # steps + 1
        <5>1. i \in 1..steps /\ i + 1 \in 1..(steps + 1)
          BY <4>2
        <5>. QED  BY <2>3, <2>6, <5>1
      <4>. QED  BY <4>1, <4>2
    <3>. QED  BY <3>1
  <2>8. 1 \in 1..(steps + 1) /\ (steps + 2) - 1 = steps + 1 /\ steps + 2 > 0
    OBVIOUS
  <2>. QED  BY <2>3, <2>6, <2>7, <2>8 DEF Walk
<1>2. ASSUME NEW c, Walk(c), c[1] = n, Len(c) = steps + 2
      PROVE  c \in Longer(chains)
  <2> DEFINE b == [i \in 1..(steps + 1) |-> c[i]]
             m == c[steps + 2]
  <2>1. /\ c \in Seq(Names) /\ \A i \in 1..(steps + 1) : IsLayer(c[i+1], c[i])
        /\ \A i \in 1..(steps + 2) : c[i] \in Names
    BY <1>2 DEF Walk
  <2>2. /\ b \in Seq(Names) /\ Len(b) = steps + 1 /\ \A i \in 1..(steps + 1) : b[i] = c[i]
    BY <2>1
  <2>3. c = Append(b, m)
    BY <1>2, <2>1
  <2> HIDE DEF b
  <2>4. Walk(b) /\ b[1] = n
    BY <1>2, <2>1, <2>2 DEF Walk
  <2>5. b \in chains
    BY <2>2, <2>4 DEF Exactly
  <2>6. Last(b) = c[steps + 1] /\ c[steps + 1] \in Names
    BY <2>1, <2>2 DEF Last
  <2>7. IsLayer(m, Last(b))
    <3>1. (steps + 1) + 1 = steps + 2 /\ steps + 1 \in 1..(steps + 1)
      OBVIOUS
    <3>. QED  BY <2>1, <2>6, <3>1
  <2>8. m \in ToSet(LayersOf(Last(b)))
    BY <2>6, <2>7, LayersOfAreNames
  <2>. QED  BY <2>3, <2>5, <2>8 DEF Longer
<1>. QED  BY <1>1, <1>2 DEF Exactly

(* The reference's chains: the walks of at most one step more than allowed.   *)
LEMMA ChainsAre ==
  ASSUME FilesOK, NEW n \in Names
  PROVE  \A c : c \in Chains(n) <=> Walk(c) /\ c[1] = n /\ Len(c) <= MaxDepth + 2
<1> DEFINE M == MaxDepth + 1
           V == SUBSET {c \in Seq(Names) : Len(c) > 0}
           Body(f) == [s \in 0..M |-> IF s = 0 THEN {<<n>>} ELSE Longer(f[s - 1])]
           down == CHOOSE f : f = Body(f)
           step == [s \in 1..M |-> [chains \in V |-> Longer(chains)]]
<1>0. M \in Nat /\ MaxDepth \in Nat /\ M = MaxDepth + 1
  BY PackAssumption
<1>1. \A chains \in V : Longer(chains) \in V
  <2>1. ASSUME NEW chains \in V, NEW c \in Longer(chains)
        PROVE  c \in Seq(Names) /\ Len(c) > 0
    <3>1. PICK b \in chains : \E m \in ToSet(LayersOf(Last(b))) : c = Append(b, m)
      BY <2>1 DEF Longer
    <3>2. PICK m \in ToSet(LayersOf(Last(b))) : c = Append(b, m)
      BY <3>1
    <3>3. b \in Seq(Names) /\ Len(b) > 0
      OBVIOUS
    <3>4. Last(b) \in Names
      BY <3>3 DEF Last
    <3>5. m \in Names
      BY <3>2, <3>4, LayersOfAreNames
    <3>. QED  BY <3>2, <3>3, <3>5
  <2>. QED  BY <2>1
<1>2. {<<n>>} \in V
  OBVIOUS
<1>3. IsStep(step, M, V)
  <2> HIDE DEF V
  <2>. QED  BY <1>1 DEF IsStep
<1>4. PICK g : Solution(g, M, V, {<<n>>}, step)
  <2> HIDE DEF V, M, step
  <2>. QED  BY <1>0, <1>2, <1>3, Recursion
<1>5. \E f : f = Body(f)
  <2>1. \A s \in 1..M : s \in 0..M /\ s - 1 \in 0..M /\ s # 0
    BY <1>0
  <2>2. \A s \in 1..M : g[s] = Longer(g[s - 1])
    <3>1. ASSUME NEW s \in 1..M
          PROVE  g[s] = Longer(g[s - 1])
      <4>1. g[s] = step[s][g[s - 1]] /\ g[s - 1] \in V
        <5> HIDE DEF V, M, step
        <5>. QED  BY <1>4, <2>1 DEF Solution
      <4> HIDE DEF V, M
      <4>. QED  BY <4>1
    <3>. QED  BY <3>1
  <2>3. g = [s \in 0..M |-> g[s]] /\ g[0] = {<<n>>}
    <3> HIDE DEF V, M, step
    <3>. QED  BY <1>4 DEF Solution
  <2>4. \A s \in 0..M : s = 0 \/ s \in 1..M
    BY <1>0
  <2>5. g = Body(g)
    <3> HIDE DEF V, M, step
    <3>. QED  BY <2>2, <2>3, <2>4
  <2>. QED  BY <2>5
<1>6. down = Body(down)
  <2> HIDE DEF Body
  <2>. QED  BY <1>5
<1>7. Chains(n) = UNION {down[s] : s \in 0..M}
  BY DEF Chains
<1> HIDE DEF down, step, V
<1>8. down[0] = {<<n>>} /\ \A s \in 0..(M - 1) : down[s + 1] = Longer(down[s])
  <2>1. 0 \in 0..M /\ \A s \in 0..(M - 1) : s + 1 \in 0..M /\ s + 1 # 0 /\ (s + 1) - 1 = s
    BY <1>0
  <2> HIDE DEF M
  <2>. QED  BY <1>6, <2>1
<1> DEFINE S == {s \in 0..M : Exactly(down[s], n, s)}
<1>9. 0 \in S
  BY <1>0, <1>8, OneStep
<1>10. ASSUME NEW s \in 0..(M - 1), s \in S
       PROVE  s + 1 \in S
  <2>1. Exactly(down[s], n, s) /\ s \in Nat /\ s + 1 \in 0..M
    BY <1>0, <1>10
  <2>2. Exactly(Longer(down[s]), n, s + 1)
    BY <2>1, LongerWalks
  <2>. QED  BY <1>8, <2>1, <2>2
<1>11. \A s \in 0..M : s \in S
  <2> HIDE DEF S, M
  <2>. QED  BY <1>0, <1>9, <1>10, UpTo
<1>12. \A s \in 0..M : \A c : c \in down[s] <=> Walk(c) /\ c[1] = n /\ Len(c) = s + 1
  BY <1>11 DEF Exactly
<1>13. \A c : Walk(c) => Len(c) \in Nat /\ Len(c) > 0
  BY DEF Walk
<1> HIDE DEF S
<1>14. ASSUME NEW c, Walk(c), c[1] = n, Len(c) <= MaxDepth + 2
       PROVE  c \in Chains(n)
  <2>1. Len(c) - 1 \in 0..M /\ (Len(c) - 1) + 1 = Len(c)
    BY <1>0, <1>13, <1>14
  <2>2. c \in down[Len(c) - 1]
    BY <1>12, <1>14, <2>1
  <2>. QED  BY <1>7, <2>1, <2>2
<1>15. ASSUME NEW c \in Chains(n)
       PROVE  Walk(c) /\ c[1] = n /\ Len(c) <= MaxDepth + 2
  <2>1. PICK s \in 0..M : c \in down[s]
    BY <1>7
  <2>2. Walk(c) /\ c[1] = n /\ Len(c) = s + 1
    BY <1>12, <2>1
  <2>. QED  BY <1>0, <2>2
<1>. QED  BY <1>14, <1>15

(* A walk from a layer, from the pack; and back.                              *)
Under(n, c) == [i \in 1..(Len(c) + 1) |-> IF i = 1 THEN n ELSE c[i - 1]]
Rest(c) == [i \in 1..(Len(c) - 1) |-> c[i + 1]]

(* The pack before a walk from one of its layers is a walk from the pack.     *)
LEMMA UnderIsWalk ==
  ASSUME NEW n \in Names, NEW c, Walk(c), IsLayer(c[1], n)
  PROVE  /\ Walk(Under(n, c)) /\ Len(Under(n, c)) = Len(c) + 1 /\ Under(n, c)[1] = n
         /\ \A i \in 1..Len(c) : Under(n, c)[i + 1] = c[i]
         /\ Last(Under(n, c)) = Last(c)
<1> DEFINE u == Under(n, c)
           L == Len(c)
<1>1. c \in Seq(Names) /\ L \in Nat /\ L > 0 /\ \A i \in 1..(L - 1) : IsLayer(c[i+1], c[i])
  BY DEF Walk
<1>2. \A i \in 1..L : i + 1 \in 1..(L + 1) /\ i + 1 # 1 /\ (i + 1) - 1 = i
  BY <1>1
<1>3. /\ u \in Seq(Names) /\ Len(u) = L + 1 /\ u[1] = n
      /\ \A i \in 1..L : u[i + 1] = c[i]
  <2>1. \A i \in 1..(L + 1) : i # 1 => i - 1 \in 1..L
    BY <1>1
  <2>2. \A i \in 1..(L + 1) : u[i] \in Names /\ u[i] = IF i = 1 THEN n ELSE c[i - 1]
    BY <1>1, <2>1 DEF Under
  <2>3. u \in Seq(Names) /\ Len(u) = L + 1
    BY <1>1, <2>1 DEF Under
  <2>4. 1 \in 1..(L + 1)
    BY <1>1
  <2> HIDE DEF u
  <2>. QED  BY <1>2, <2>2, <2>3, <2>4
<1> HIDE DEF u, L
<1>4. ASSUME NEW i \in 1..((L + 1) - 1)
      PROVE  IsLayer(u[i+1], u[i])
  <2>1. i \in 1..L
    BY <1>1
  <2>2. CASE i = 1
    BY <1>3, <2>1, <2>2
  <2>3. CASE i # 1
    <3>1. i - 1 \in 1..(L - 1) /\ i - 1 \in 1..L /\ (i - 1) + 1 = i
      BY <1>1, <2>1, <2>3
    <3>2. u[i + 1] = c[i] /\ u[i] = c[i - 1] /\ IsLayer(c[i], c[i - 1])
      BY <1>1, <1>3, <2>1, <3>1
    <3>. QED  BY <3>2
  <2>. QED  BY <2>2, <2>3
<1>5. Walk(u)
  <2>1. L + 1 > 0 /\ u \in Seq(Names) /\ Len(u) = L + 1
    BY <1>1, <1>3
  <2>2. \A i \in 1..(Len(u) - 1) : IsLayer(u[i+1], u[i])
    BY <1>4, <2>1
  <2>. QED  BY <2>1, <2>2 DEF Walk
<1>6. Last(u) = Last(c)
  <2>1. L \in 1..L
    BY <1>1
  <2>. QED  BY <1>1, <1>3, <2>1 DEF Last, L
<1>. QED  BY <1>3, <1>5, <1>6 DEF u, L

(* What comes after the pack is a walk from one of its layers.                *)
LEMMA RestIsWalk ==
  ASSUME NEW c, Walk(c), Len(c) > 1
  PROVE  /\ Walk(Rest(c)) /\ Len(Rest(c)) = Len(c) - 1 /\ IsLayer(Rest(c)[1], c[1])
         /\ \A i \in 1..(Len(c) - 1) : Rest(c)[i] = c[i + 1]
         /\ Last(Rest(c)) = Last(c) /\ c[1] \in Names
<1> DEFINE r == Rest(c)
           L == Len(c)
<1>1. /\ c \in Seq(Names) /\ L \in Nat /\ L > 1
      /\ \A i \in 1..(L - 1) : IsLayer(c[i+1], c[i])
  BY DEF Walk
<1>2. r \in Seq(Names) /\ Len(r) = L - 1 /\ \A i \in 1..(L - 1) : r[i] = c[i + 1]
  BY <1>1 DEF Rest
<1> HIDE DEF r, L
<1>3. 1 \in 1..(L - 1) /\ L - 1 \in 1..(L - 1) /\ (L - 1) + 1 = L /\ L - 1 > 0
  BY <1>1
<1>4. Walk(r)
  <2>1. ASSUME NEW i \in 1..((L - 1) - 1)
        PROVE  IsLayer(r[i + 1], r[i])
    <3>1. i \in 1..(L - 1) /\ i + 1 \in 1..(L - 1)
      BY <1>1
    <3>. QED  BY <1>1, <1>2, <3>1
  <2>. QED  BY <1>2, <1>3, <2>1 DEF Walk
<1>5. IsLayer(r[1], c[1])
  BY <1>1, <1>2, <1>3
<1>6. Last(r) = Last(c)
  BY <1>1, <1>2, <1>3 DEF Last, L
<1>7. c[1] \in Names
  BY <1>1, <1>3 DEF L
<1>. QED  BY <1>2, <1>4, <1>5, <1>6, <1>7 DEF r, L

-----------------------------------------------------------------------------
(* What is merged is sound, and what is sound is merged                       *)

(* m has each key of the last of the first i layers that has it.              *)
LastOf(subs, i, j, k) ==
  j \in 1..i /\ subs[j][k] # Absent /\ \A l \in 1..i : l > j => subs[l][k] = Absent
LastWins(m, subs, i) ==
  /\ m \in Dict
  /\ \A k \in Keys : (\A j \in 1..i : subs[j][k] = Absent) => m[k] = Absent
  /\ \A k \in Keys : \A j \in 1..i : LastOf(subs, i, j, k) => m[k] = subs[j][k]

(* What any file has after its first i layers.                                *)
Overwritten(m, file, subs, i) ==
  /\ m \in Merged
  /\ m # Failed => (\A j \in 1..i : subs[j] # Failed) /\ LastWins(m, subs, i)
  /\ ~file.strict /\ (\A j \in 1..i : subs[j] # Failed) => m # Failed

(* One more layer of any file.                                                *)
LEMMA OneMoreLayer ==
  ASSUME NEW file \in PackFile, NEW L \in Nat, NEW subs \in [1..L -> Merged],
         NEW i \in 0..(L-1), NEW m, NEW n, Overwritten(m, file, subs, i),
         n = add_layer(file, i + 1, m, subs[i+1])
  PROVE  Overwritten(n, file, subs, i + 1)
<1>0. /\ Failed \notin Dict
      /\ i + 1 \in 1..L /\ i + 1 \in 1..(i+1)
      /\ \A j \in 1..i : j \in 1..(i+1) /\ j \in 1..L /\ i + 1 > j
      /\ \A j \in 1..(i+1) : j \in 1..i \/ j = i + 1
      /\ ~(i + 1 > i + 1)
  BY PackAssumption
<1>1. m \in Merged /\ subs[i+1] \in Merged
  BY <1>0 DEF Overwritten
<1>2. n \in Merged
  BY <1>1, AddLayerType
<1>3. ASSUME n # Failed
      PROVE  (\A j \in 1..(i+1) : subs[j] # Failed) /\ LastWins(n, subs, i + 1)
  <2>1. m # Failed /\ subs[i+1] # Failed /\ n = update(m, subs[i+1])
    BY <1>3 DEF add_layer
  <2>2. /\ m \in Dict /\ subs[i+1] \in Dict /\ LastWins(m, subs, i)
        /\ \A j \in 1..i : subs[j] # Failed
    BY <1>1, <2>1 DEF Overwritten, Merged
  <2>3. n \in Dict /\ \A k \in Keys : n[k] = IF subs[i+1][k] = Absent THEN m[k] ELSE subs[i+1][k]
    BY <2>1, <2>2, UpdateType DEF update
  <2>4. \A j \in 1..(i+1) : subs[j] # Failed
    BY <1>0, <2>1, <2>2
  <2>5. ASSUME NEW k \in Keys, \A j \in 1..(i+1) : subs[j][k] = Absent
        PROVE  n[k] = Absent
    <3>1. m[k] = Absent
      BY <1>0, <2>2, <2>5 DEF LastWins
    <3>. QED  BY <1>0, <2>3, <2>5, <3>1
  <2>6. ASSUME NEW k \in Keys, NEW j \in 1..(i+1), LastOf(subs, i + 1, j, k)
        PROVE  n[k] = subs[j][k]
    <3>1. CASE j = i + 1
      BY <2>3, <2>6, <3>1 DEF LastOf
    <3>2. CASE j \in 1..i
      <4>1. subs[i+1][k] = Absent
        BY <1>0, <2>6, <3>2 DEF LastOf
      <4>2. LastOf(subs, i, j, k)
        BY <1>0, <2>6, <3>2 DEF LastOf
      <4>3. m[k] = subs[j][k]
        BY <2>2, <3>2, <4>2 DEF LastWins
      <4>. QED  BY <2>3, <4>1, <4>3
    <3>. QED  BY <1>0, <3>1, <3>2
  <2>. QED  BY <2>3, <2>4, <2>5, <2>6 DEF LastWins
<1>4. ASSUME ~file.strict, \A j \in 1..(i+1) : subs[j] # Failed
      PROVE  n # Failed
  <2>1. m # Failed /\ subs[i+1] # Failed
    BY <1>0, <1>4 DEF Overwritten
  <2>2. m \in Dict /\ subs[i+1] \in Dict
    BY <1>1, <2>1 DEF Merged
  <2>3. n = update(m, subs[i+1])
    BY <1>4, <2>1 DEF add_layer
  <2>. QED  BY <1>0, <2>2, <2>3, UpdateType
<1>. QED  BY <1>2, <1>3, <1>4 DEF Overwritten

(* What any file merges its layers to.                                        *)
LEMMA MergeOverwrites ==
  ASSUME NEW file \in PackFile, NEW subs \in [1..Len(Layers(file)) -> Merged]
  PROVE  Overwritten(merge_all(file, subs), file, subs, Len(Layers(file)))
<1> DEFINE L == Len(Layers(file))
<1>0. L \in Nat /\ Failed \notin Dict
  BY LayersAreNames, PackAssumption
<1>1. PICK f \in [0..L -> Merged] :
        /\ f[0] = Nothing
        /\ \A i \in 1..L : f[i] = add_layer(file, i, f[i-1], subs[i])
        /\ merge_all(file, subs) = f[L]
  BY MergeAllSteps
<1> DEFINE S == {i \in 0..L : Overwritten(f[i], file, subs, i)}
<1>2. 0 \in S
  <2>1. Nothing \in Dict /\ \A k \in Keys : Nothing[k] = Absent
    BY PackAssumption DEF Nothing, Dict
  <2>2. LastWins(Nothing, subs, 0)
    BY <2>1 DEF LastWins
  <2>3. Overwritten(Nothing, file, subs, 0)
    BY <1>0, <2>1, <2>2 DEF Overwritten, Merged
  <2>. QED  BY <1>0, <1>1, <2>3
<1>3. ASSUME NEW i \in 0..(L-1), i \in S
      PROVE  i + 1 \in S
  <2>1. i + 1 \in 1..L /\ i + 1 \in 0..L /\ (i + 1) - 1 = i
    BY <1>0
  <2>2. f[i+1] = add_layer(file, i + 1, f[i], subs[i+1])
    BY <1>1, <2>1
  <2>3. Overwritten(f[i], file, subs, i)
    BY <1>3
  <2>4. Overwritten(f[i+1], file, subs, i + 1)
    <3> HIDE DEF S
    <3>. QED  BY <1>0, <2>2, <2>3, OneMoreLayer
  <2>. QED  BY <2>1, <2>4
<1>4. L \in S
  <2>1. \A i \in 0..L : i \in S
    <3> HIDE DEF S, L
    <3>. QED  BY <1>0, <1>2, <1>3, UpTo
  <2>2. L \in 0..L
    BY <1>0
  <2>. QED  BY <2>1, <2>2
<1>5. Overwritten(f[L], file, subs, L)
  BY <1>4
<1> HIDE DEF S
<1>. QED  BY <1>1, <1>5

(* If a layer has a key, one is the last that has it.                         *)
LEMMA OneIsLast ==
  ASSUME NEW L \in Nat, NEW subs, NEW k, NEW i \in 1..L, subs[i][k] # Absent
  PROVE  \E j \in 1..L : LastOf(subs, L, j, k)
<1> DEFINE S == {j \in 1..L : subs[j][k] # Absent}
<1>1. S \subseteq 1..L /\ S # {}
  OBVIOUS
<1>2. PICK j \in S : \A l \in S : l <= j
  <2> HIDE DEF S
  <2>. QED  BY <1>1, GreatestIndex
<1>3. j \in 1..L /\ subs[j][k] # Absent
  BY <1>2
<1>4. ASSUME NEW l \in 1..L, l > j
      PROVE  subs[l][k] = Absent
  BY <1>2, <1>3, <1>4
<1>. QED  BY <1>3, <1>4 DEF LastOf

(* All that a pack is composed of is there, none of it is being merged        *)
(* already, and no way down is longer than r.                                 *)
Contained(n, v, r) ==
  \A c : Walk(c) /\ c[1] = n =>
    Len(c) <= r /\ \A i \in 1..Len(c) : files[c[i]] # Absent /\ c[i] \notin v

(* Every strict pack down from n has imports that agree.                      *)
AllAgree(n) == \A c : Walk(c) /\ c[1] = n => ImportsAgree(Last(c))

(* m has the keys that n's last writers write.                                *)
Faithful(n, m) ==
  \A k \in Keys :
    /\ m[k] # Absent <=> Writes(n, k)
    /\ m[k] # Absent => \E c : Walk(c) /\ c[1] = n /\ LeadsToWriter(c, k)
    /\ \A c : Walk(c) /\ c[1] = n /\ LeadsToWriter(c, k) => Own(Last(c), k) = m[k]

(* What is used of a walk.                                                    *)
LEMMA WalkFacts ==
  ASSUME NEW c, Walk(c)
  PROVE  /\ c \in Seq(Names) /\ Len(c) \in Nat /\ Len(c) > 0 /\ Last(c) = c[Len(c)]
         /\ \A i \in 1..Len(c) : c[i] \in Names
         /\ Len(c) = 1 => Last(c) = c[1]
         /\ Len(c) = 1 \/ Len(c) > 1
<1>1. c \in Seq(Names) /\ Len(c) \in Nat /\ Len(c) > 0
  BY DEF Walk
<1>2. Len(c) = 1 \/ Len(c) > 1
  <2>1. \A x \in Nat : x > 0 => x = 1 \/ x > 1
    OBVIOUS
  <2>. QED  BY <1>1, <2>1, Zenon
<1>. QED  BY <1>1, <1>2 DEF Last

(* Where the ways down are bounded, the reference sees them all.              *)
LEMMA WritesByWalks ==
  ASSUME FilesOK, NEW n \in Names, NEW k, NEW v, NEW r \in Nat, r <= MaxDepth + 2,
         Contained(n, v, r)
  PROVE  Writes(n, k) <=> \E c : Walk(c) /\ c[1] = n /\ Own(Last(c), k) # Absent
<1>1. \A c : Walk(c) /\ c[1] = n => Len(c) <= MaxDepth + 2
  BY WalkFacts, PackAssumption DEF Contained
<1>2. \A c : c \in Chains(n) <=> Walk(c) /\ c[1] = n
  BY <1>1, ChainsAre
<1>. QED  BY <1>2 DEF Writes

(* A pack writes what it or a layer of it writes.                             *)
LEMMA WritesUnder ==
  ASSUME FilesOK, NEW n \in Names, NEW k, NEW v, NEW r \in Nat, r <= MaxDepth + 1,
         \A j \in 1..Len(LayersOf(n)) : Contained(LayersOf(n)[j], v, r),
         \E w : Contained(n, w, r + 1)
  PROVE  Writes(n, k) <=>
           \/ Own(n, k) # Absent
           \/ \E j \in 1..Len(LayersOf(n)) : Writes(LayersOf(n)[j], k)
<1> DEFINE L == Len(LayersOf(n))
<1>0. /\ r + 1 \in Nat /\ r + 1 <= MaxDepth + 2 /\ r <= MaxDepth + 2
      /\ \A j \in 1..L : LayersOf(n)[j] \in Names
  BY PackAssumption, LayersOfAreNames
<1>1. Writes(n, k) <=> \E c : Walk(c) /\ c[1] = n /\ Own(Last(c), k) # Absent
  <2>1. PICK w : Contained(n, w, r + 1)
    OBVIOUS
  <2>. QED  BY <1>0, <2>1, WritesByWalks
<1>2. \A j \in 1..L : Writes(LayersOf(n)[j], k) <=>
         \E c : Walk(c) /\ c[1] = LayersOf(n)[j] /\ Own(Last(c), k) # Absent
  <2>1. ASSUME NEW j \in 1..L
        PROVE  Writes(LayersOf(n)[j], k) <=>
                 \E c : Walk(c) /\ c[1] = LayersOf(n)[j] /\ Own(Last(c), k) # Absent
    <3>1. LayersOf(n)[j] \in Names /\ Contained(LayersOf(n)[j], v, r)
      BY <1>0
    <3>. QED  BY <1>0, <3>1, WritesByWalks
  <2>. QED  BY <2>1
<1>3. ASSUME Writes(n, k), Own(n, k) = Absent
      PROVE  \E j \in 1..L : Writes(LayersOf(n)[j], k)
  <2>1. PICK c : Walk(c) /\ c[1] = n /\ Own(Last(c), k) # Absent
    BY <1>1, <1>3
  <2>2. Len(c) > 1
    BY <1>3, <2>1, WalkFacts
  <2>3. Walk(Rest(c)) /\ IsLayer(Rest(c)[1], n) /\ Last(Rest(c)) = Last(c)
    BY <2>1, <2>2, RestIsWalk
  <2>4. PICK j \in 1..L : Rest(c)[1] = LayersOf(n)[j]
    BY <2>3 DEF IsLayer
  <2>5. Writes(LayersOf(n)[j], k)
    <3> HIDE DEF L
    <3>. QED  BY <1>2, <2>1, <2>3, <2>4
  <2>. QED  BY <2>5
<1>4. ASSUME Own(n, k) # Absent
      PROVE  Writes(n, k)
  <2>1. Walk(<<n>>) /\ <<n>>[1] = n /\ Last(<<n>>) = n
    BY OneStep DEF Exactly, Last
  <2>. QED  BY <1>1, <1>4, <2>1
<1>5. ASSUME NEW j \in 1..L, Writes(LayersOf(n)[j], k)
      PROVE  Writes(n, k)
  <2>1. PICK c : Walk(c) /\ c[1] = LayersOf(n)[j] /\ Own(Last(c), k) # Absent
    <3> HIDE DEF L
    <3>. QED  BY <1>2, <1>5
  <2>2. IsLayer(c[1], n)
    BY <2>1 DEF IsLayer
  <2>3. Walk(Under(n, c)) /\ Under(n, c)[1] = n /\ Last(Under(n, c)) = Last(c)
    BY <2>1, <2>2, UnderIsWalk
  <2>. QED  BY <1>1, <2>1, <2>3
<1>. QED  BY <1>3, <1>4, <1>5

(* If the layers are contained, one step more contains the pack.              *)
LEMMA ContainedUnder ==
  ASSUME FilesOK, NEW n \in Names, files[n] # Absent, NEW v, n \notin v, NEW r \in Nat,
         \A j \in 1..Len(LayersOf(n)) : Contained(LayersOf(n)[j], v \cup {n}, r)
  PROVE  Contained(n, v, r + 1)
<1>1. ASSUME NEW c, Walk(c), c[1] = n
      PROVE  Len(c) <= r + 1 /\ \A i \in 1..Len(c) : files[c[i]] # Absent /\ c[i] \notin v
  <2>0. Len(c) \in Nat /\ Len(c) > 0 /\ (Len(c) = 1 \/ Len(c) > 1)
    BY <1>1, WalkFacts
  <2>1. CASE Len(c) = 1
    BY <1>1, <2>1
  <2>2. CASE Len(c) > 1
    <3>1. /\ Walk(Rest(c)) /\ Len(Rest(c)) = Len(c) - 1 /\ IsLayer(Rest(c)[1], n)
          /\ \A i \in 1..(Len(c) - 1) : Rest(c)[i] = c[i + 1]
      BY <1>1, <2>2, RestIsWalk
    <3>2. PICK j \in 1..Len(LayersOf(n)) : Rest(c)[1] = LayersOf(n)[j]
      BY <3>1 DEF IsLayer
    <3>3. /\ Len(c) - 1 <= r
          /\ \A i \in 1..(Len(c) - 1) : files[c[i + 1]] # Absent /\ c[i + 1] \notin v
      BY <3>1, <3>2 DEF Contained
    <3>4. \A i \in 1..Len(c) : i = 1 \/ (i - 1 \in 1..(Len(c) - 1) /\ (i - 1) + 1 = i)
      BY <2>0
    <3>5. \A i \in 1..Len(c) : files[c[i]] # Absent /\ c[i] \notin v
      BY <1>1, <3>3, <3>4
    <3>. QED  BY <2>0, <3>3, <3>5
  <2>. QED  BY <2>0, <2>1, <2>2, Zenon
<1>. QED  BY <1>1 DEF Contained

(* No layer of n after m writes k.                                            *)
WrittenVia(n, m, k) ==
  \E j \in 1..Len(LayersOf(n)) :
    /\ LayersOf(n)[j] = m
    /\ \A l \in 1..Len(LayersOf(n)) : l > j => ~Writes(LayersOf(n)[l], k)

(* A walk leads to the last writer when its rest does and goes on from the    *)
(* last layer that writes the key.                                            *)
LEMMA LeadsDown ==
  ASSUME FilesOK, NEW n \in Names, NEW k, NEW c, Walk(c), c[1] = n, Len(c) > 1
  PROVE  LeadsToWriter(c, k) <=>
           /\ LeadsToWriter(Rest(c), k)
           /\ Own(n, k) = Absent
           /\ WrittenVia(n, Rest(c)[1], k)
<1> DEFINE r == Rest(c)
           L == Len(c)
           Step(a, b) ==
             /\ Own(a, k) = Absent
             /\ \E j \in DOMAIN LayersOf(a) :
                  /\ LayersOf(a)[j] = b
                  /\ \A l \in DOMAIN LayersOf(a) : l > j => ~Writes(LayersOf(a)[l], k)
<1>1. /\ L \in Nat /\ L > 1 /\ Len(r) = L - 1 /\ Last(r) = Last(c)
      /\ \A i \in 1..(L - 1) : r[i] = c[i + 1]
  BY WalkFacts, RestIsWalk
<1>2. LeadsToWriter(c, k) <=>
        Own(Last(c), k) # Absent /\ \A i \in 1..(L - 1) : Step(c[i], c[i + 1])
  BY DEF LeadsToWriter
<1>3. LeadsToWriter(r, k) <=>
        Own(Last(r), k) # Absent /\ \A i \in 1..(Len(r) - 1) : Step(r[i], r[i + 1])
  BY DEF LeadsToWriter
<1> HIDE DEF r, L, Step
<1>4. LeadsToWriter(r, k) <=>
        Own(Last(c), k) # Absent /\ \A i \in 1..(L - 2) : Step(c[i + 1], c[i + 2])
  <2>1. \A i \in 1..(L - 2) : i \in 1..(L - 1) /\ i + 1 \in 1..(L - 1) /\ (i + 1) + 1 = i + 2
    BY <1>1
  <2>2. (L - 1) - 1 = L - 2
    BY <1>1
  <2>. QED  BY <1>1, <1>3, <2>1, <2>2
<1>5. (\A i \in 1..(L - 1) : Step(c[i], c[i + 1])) <=>
        Step(c[1], c[2]) /\ \A i \in 1..(L - 2) : Step(c[i + 1], c[i + 2])
  <2>1. /\ 1 \in 1..(L - 1) /\ 1 + 1 = 2
        /\ \A i \in 1..(L - 2) : i + 1 \in 1..(L - 1) /\ (i + 1) + 1 = i + 2
        /\ \A i \in 1..(L - 1) : i = 1 \/ (i - 1 \in 1..(L - 2) /\ (i - 1) + 1 = i
                                           /\ (i - 1) + 2 = i + 1)
    BY <1>1
  <2>2. ASSUME \A i \in 1..(L - 1) : Step(c[i], c[i + 1])
        PROVE  Step(c[1], c[2]) /\ \A i \in 1..(L - 2) : Step(c[i + 1], c[i + 2])
    BY <2>1, <2>2
  <2>3. ASSUME Step(c[1], c[2]), \A i \in 1..(L - 2) : Step(c[i + 1], c[i + 2]),
               NEW i \in 1..(L - 1)
        PROVE  Step(c[i], c[i + 1])
    <3>1. CASE i = 1
      BY <2>1, <2>3, <3>1
    <3>2. CASE i # 1
      <4>1. i - 1 \in 1..(L - 2) /\ (i - 1) + 1 = i /\ (i - 1) + 2 = i + 1
        BY <2>1, <3>2
      <4>2. Step(c[(i - 1) + 1], c[(i - 1) + 2])
        BY <2>3, <4>1
      <4>. QED  BY <4>1, <4>2
    <3>. QED  BY <3>1, <3>2
  <2>. QED  BY <2>2, <2>3
<1>6. c[2] = r[1] /\ c[1] = n
  <2>1. 1 \in 1..(L - 1) /\ 1 + 1 = 2
    BY <1>1
  <2>. QED  BY <1>1, <2>1
<1>7. Step(n, r[1]) <=> Own(n, k) = Absent /\ WrittenVia(n, r[1], k)
  <2>1. DOMAIN LayersOf(n) = 1..Len(LayersOf(n))
    BY LayersOfAreNames
  <2>. QED  BY <2>1 DEF Step, WrittenVia
<1>8. LeadsToWriter(c, k) <=> LeadsToWriter(r, k) /\ Step(n, r[1])
  BY <1>2, <1>4, <1>5, <1>6
<1>. QED  BY <1>7, <1>8 DEF r

(* The rest of a walk under n is the walk.                                    *)
LEMMA RestOfUnder ==
  ASSUME NEW n \in Names, NEW c, Walk(c), IsLayer(c[1], n)
  PROVE  Rest(Under(n, c)) = c
<1>1. c \in Seq(Names) /\ Len(c) \in Nat
  BY WalkFacts
<1>2. Len(Under(n, c)) = Len(c) + 1 /\ \A i \in 1..Len(c) : Under(n, c)[i + 1] = c[i]
  BY UnderIsWalk
<1>3. (Len(c) + 1) - 1 = Len(c)
  BY <1>1
<1>4. Rest(Under(n, c)) = [i \in 1..Len(c) |-> c[i]]
  BY <1>2, <1>3 DEF Rest
<1>. QED  BY <1>1, <1>4

(* The body over layers that have the keys of their last writers has those    *)
(* of its own.                                                                *)
LEMMA FaithfulUnder ==
  ASSUME FilesOK, NEW n \in Names, NEW body \in Dict,
         \A k : Own(n, k) = body[k],
         NEW subs, \A j \in 1..Len(LayersOf(n)) : Faithful(LayersOf(n)[j], subs[j]),
         NEW a, LastWins(a, subs, Len(LayersOf(n))),
         \A k \in Keys : Writes(n, k) <=>
           \/ Own(n, k) # Absent
           \/ \E j \in 1..Len(LayersOf(n)) : Writes(LayersOf(n)[j], k)
  PROVE  Faithful(n, update(a, body))
<1> DEFINE L == Len(LayersOf(n))
           m == update(a, body)
<1> SUFFICES ASSUME NEW k \in Keys
             PROVE  /\ m[k] # Absent <=> Writes(n, k)
                    /\ m[k] # Absent => \E c : Walk(c) /\ c[1] = n /\ LeadsToWriter(c, k)
                    /\ \A c : Walk(c) /\ c[1] = n /\ LeadsToWriter(c, k) => Own(Last(c), k) = m[k]
  BY DEF Faithful
<1>1. /\ m[k] = IF body[k] = Absent THEN a[k] ELSE body[k]
      /\ Own(n, k) = body[k]
      /\ L \in Nat /\ \A j \in 1..L : LayersOf(n)[j] \in Names
  BY LayersOfAreNames DEF update
<1>2. \A j \in 1..L : subs[j][k] # Absent <=> Writes(LayersOf(n)[j], k)
  BY DEF Faithful
<1>3. /\ \A j \in 1..L : LastOf(subs, L, j, k) => a[k] = subs[j][k]
      /\ (\A j \in 1..L : subs[j][k] = Absent) => a[k] = Absent
  BY DEF LastWins
<1>4. Walk(<<n>>) /\ <<n>>[1] = n /\ Last(<<n>>) = n /\ Len(<<n>>) = 1
  BY OneStep DEF Exactly, Last
<1>5. Writes(n, k) <=> body[k] # Absent \/ \E j \in 1..L : Writes(LayersOf(n)[j], k)
  BY <1>1
<1>6. \A j \in 1..L : \A c : Walk(c) /\ c[1] = LayersOf(n)[j] /\ LeadsToWriter(c, k)
                              => Own(Last(c), k) = subs[j][k]
  BY DEF Faithful
<1>7. \A j \in 1..L : subs[j][k] # Absent =>
         \E c : Walk(c) /\ c[1] = LayersOf(n)[j] /\ LeadsToWriter(c, k)
  BY DEF Faithful
<1> HIDE DEF m, L
<1>8. a[k] # Absent <=> \E j \in 1..L : Writes(LayersOf(n)[j], k)
  <2>1. ASSUME NEW j \in 1..L, Writes(LayersOf(n)[j], k)
        PROVE  a[k] # Absent
    <3>1. subs[j][k] # Absent
      BY <1>2, <2>1
    <3>2. PICK i \in 1..L : LastOf(subs, L, i, k)
      BY <1>1, <3>1, OneIsLast
    <3>. QED  BY <1>3, <3>2 DEF LastOf
  <2>. QED  BY <1>2, <1>3, <2>1
<1>9. m[k] # Absent <=> Writes(n, k)
  BY <1>1, <1>5, <1>8
<1>10. ASSUME m[k] # Absent
       PROVE  \E c : Walk(c) /\ c[1] = n /\ LeadsToWriter(c, k)
  <2>1. CASE body[k] # Absent
    <3>1. LeadsToWriter(<<n>>, k)
      BY <1>1, <1>4, <2>1 DEF LeadsToWriter
    <3>. QED  BY <1>4, <3>1
  <2>2. CASE body[k] = Absent
    <3>1. \E j \in 1..L : subs[j][k] # Absent
      BY <1>1, <1>3, <1>10, <2>2
    <3>2. PICK j \in 1..L : LastOf(subs, L, j, k)
      BY <1>1, <3>1, OneIsLast
    <3>3. PICK c : Walk(c) /\ c[1] = LayersOf(n)[j] /\ LeadsToWriter(c, k)
      BY <1>7, <3>2 DEF LastOf
    <3>4. IsLayer(c[1], n)
      BY <3>3 DEF IsLayer, L
    <3>5. /\ Walk(Under(n, c)) /\ Under(n, c)[1] = n /\ Len(Under(n, c)) > 1
          /\ Rest(Under(n, c)) = c
      BY <3>3, <3>4, UnderIsWalk, RestOfUnder, WalkFacts
    <3>6. \A l \in 1..L : l > j => ~Writes(LayersOf(n)[l], k)
      BY <1>2, <3>2 DEF LastOf
    <3>7. WrittenVia(n, c[1], k)
      BY <3>2, <3>3, <3>6 DEF WrittenVia, LastOf, L
    <3>8. LeadsToWriter(Under(n, c), k)
      BY <1>1, <2>2, <3>3, <3>5, <3>7, LeadsDown
    <3>. QED  BY <3>5, <3>8
  <2>. QED  BY <2>1, <2>2
<1>11. ASSUME NEW c, Walk(c), c[1] = n, LeadsToWriter(c, k)
       PROVE  Own(Last(c), k) = m[k]
  <2>0. Len(c) = 1 \/ Len(c) > 1
    BY <1>11, WalkFacts
  <2>1. CASE Len(c) = 1
    <3>1. Last(c) = n
      BY <1>11, <2>1, WalkFacts
    <3>2. Own(n, k) # Absent
      BY <1>11, <3>1 DEF LeadsToWriter
    <3>. QED  BY <1>1, <3>1, <3>2
  <2>2. CASE Len(c) > 1
    <3>1. Walk(Rest(c)) /\ Last(Rest(c)) = Last(c)
      BY <1>11, <2>2, RestIsWalk
    <3>2. /\ LeadsToWriter(Rest(c), k) /\ Own(n, k) = Absent
          /\ WrittenVia(n, Rest(c)[1], k)
      BY <1>11, <2>2, LeadsDown
    <3>3. PICK j \in 1..L : /\ LayersOf(n)[j] = Rest(c)[1]
                            /\ \A l \in 1..L : l > j => ~Writes(LayersOf(n)[l], k)
      BY <3>2 DEF WrittenVia, L
    <3>4. Own(Last(c), k) = subs[j][k]
      BY <1>6, <3>1, <3>2, <3>3
    <3>5. subs[j][k] # Absent
      BY <1>11, <3>4 DEF LeadsToWriter
    <3>6. LastOf(subs, L, j, k)
      BY <1>2, <3>3, <3>5 DEF LastOf
    <3>. QED  BY <1>1, <1>3, <3>2, <3>4, <3>6
  <2>. QED  BY <2>0, <2>1, <2>2
<1>. QED  BY <1>9, <1>10, <1>11

(* The reference chooses a chain to the last writer: any such chain gives the *)
(* key.                                                                       *)
LEMMA LastWriterIs ==
  ASSUME FilesOK, NEW n \in Names, NEW m, Faithful(n, m), NEW k \in Keys,
         NEW v, NEW r \in Nat, r <= MaxDepth + 2, Contained(n, v, r)
  PROVE  LastWriter(n, k) = m[k]
<1>1. /\ m[k] # Absent <=> Writes(n, k)
      /\ m[k] # Absent => \E c : Walk(c) /\ c[1] = n /\ LeadsToWriter(c, k)
      /\ \A c : Walk(c) /\ c[1] = n /\ LeadsToWriter(c, k) => Own(Last(c), k) = m[k]
  BY DEF Faithful
<1>2. CASE Writes(n, k)
  <2>1. PICK c : Walk(c) /\ c[1] = n /\ LeadsToWriter(c, k)
    BY <1>1, <1>2
  <2>2. Len(c) <= MaxDepth + 2
    BY <2>1, WalkFacts, PackAssumption DEF Contained
  <2>3. c \in Chains(n)
    BY <2>1, <2>2, ChainsAre
  <2> DEFINE ch == CHOOSE x \in Chains(n) : LeadsToWriter(x, k)
  <2>4. ch \in Chains(n) /\ LeadsToWriter(ch, k)
    BY <2>1, <2>3
  <2>5. LastWriter(n, k) = Own(Last(ch), k)
    BY <1>2 DEF LastWriter
  <2> HIDE DEF ch
  <2>6. Walk(ch) /\ ch[1] = n
    BY <2>4, ChainsAre
  <2>. QED  BY <1>1, <2>4, <2>5, <2>6
<1>3. CASE ~Writes(n, k)
  BY <1>1, <1>3 DEF LastWriter
<1>. QED  BY <1>2, <1>3

(* What agrees as merged agrees by its last writers, and the other way.       *)
LEMMA AgreeByWriters ==
  ASSUME FilesOK, NEW n \in Names, files[n] # Absent, files[n].strict,
         NEW subs, \A j \in 1..Len(LayersOf(n)) : subs[j] # Failed,
         NEW v, NEW r \in Nat, r <= MaxDepth + 2,
         \A j \in 1..Len(LayersOf(n)) :
           Faithful(LayersOf(n)[j], subs[j]) /\ Contained(LayersOf(n)[j], v, r)
  PROVE  Agree(subs, Len(LayersOf(n))) <=> ImportsAgree(n)
<1> DEFINE L == Len(LayersOf(n))
           B == Len(Base(files[n]))
<1>0. /\ L \in Nat /\ DOMAIN LayersOf(n) = 1..L /\ \A j \in 1..L : LayersOf(n)[j] \in Names
      /\ B \in {0, 1}
  BY LayersOfAreNames, LayersAreNames DEF FilesOK, FileTable
<1>1. ASSUME NEW j \in 1..L, NEW k \in Flags
      PROVE  /\ LastWriter(LayersOf(n)[j], k) = subs[j][k]
             /\ Writes(LayersOf(n)[j], k) <=> subs[j][k] # Absent
  <2>1. /\ LayersOf(n)[j] \in Names /\ Faithful(LayersOf(n)[j], subs[j])
        /\ Contained(LayersOf(n)[j], v, r)
    BY <1>0
  <2>2. LastWriter(LayersOf(n)[j], k) = subs[j][k]
    BY <2>1, LastWriterIs, PackAssumption
  <2>. QED  BY <2>1, <2>2, PackAssumption DEF Faithful
<1>2. ImportsAgree(n) <=>
        \A i, j \in 1..L : \A k \in Flags :
          /\ j > B /\ i < j
          /\ Writes(LayersOf(n)[i], k) /\ Writes(LayersOf(n)[j], k)
          => LastWriter(LayersOf(n)[i], k) = LastWriter(LayersOf(n)[j], k)
  BY <1>0 DEF ImportsAgree
<1>3. \A j \in 1..L : subs[j] # Failed
  OBVIOUS
<1> HIDE DEF L, B
<1>4. ASSUME Agree(subs, L)
      PROVE  ImportsAgree(n)
  BY <1>1, <1>2, <1>4 DEF Agree
<1>5. ASSUME ImportsAgree(n)
      PROVE  Agree(subs, L)
  <2>1. ASSUME NEW i \in 1..L, NEW j \in 1..L, NEW k \in Flags, i < j,
               subs[i][k] # Absent, subs[j][k] # Absent
        PROVE  subs[i][k] = subs[j][k]
    <3>1. j > B
      BY <1>0, <2>1
    <3>. QED  BY <1>1, <1>2, <1>5, <2>1, <3>1
  <2>2. \A i, j \in 1..L : i < j \/ j < i \/ i = j
    BY <1>0
  <2>3. ASSUME NEW i \in 1..L, NEW j \in 1..L, NEW k \in Flags,
               subs[i][k] # Absent, subs[j][k] # Absent
        PROVE  subs[i][k] = subs[j][k]
    BY <2>1, <2>2, <2>3
  <2>. QED  BY <1>3, <2>3 DEF Agree
<1>. QED  BY <1>4, <1>5 DEF L

(* What agrees at the pack and from its layers agrees from the pack.          *)
LEMMA AllAgreeUnder ==
  ASSUME FilesOK, NEW n \in Names, ImportsAgree(n),
         \A j \in 1..Len(LayersOf(n)) : AllAgree(LayersOf(n)[j])
  PROVE  AllAgree(n)
<1>1. ASSUME NEW c, Walk(c), c[1] = n
      PROVE  ImportsAgree(Last(c))
  <2>1. CASE Len(c) = 1
    BY <1>1, <2>1, WalkFacts
  <2>2. CASE Len(c) > 1
    <3>1. Walk(Rest(c)) /\ IsLayer(Rest(c)[1], n) /\ Last(Rest(c)) = Last(c)
      BY <1>1, <2>2, RestIsWalk
    <3>2. PICK j \in 1..Len(LayersOf(n)) : Rest(c)[1] = LayersOf(n)[j]
      BY <3>1 DEF IsLayer
    <3>. QED  BY <3>1, <3>2 DEF AllAgree
  <2>3. Len(c) = 1 \/ Len(c) > 1
    BY <1>1, WalkFacts, Zenon
  <2>. QED  BY <2>1, <2>2, <2>3, Zenon
<1>. QED  BY <1>1 DEF AllAgree

(* All there is to say of n merged to m, where r steps are left.              *)
Good(n, m, v, r) == m \in Dict /\ Contained(n, v, r) /\ Faithful(n, m) /\ AllAgree(n)

(* A pack whose layers are good is good.                                      *)
LEMMA GoodUnder ==
  ASSUME FilesOK, NEW n \in Names, files[n] # Absent, NEW v \in SUBSET Names, n \notin v,
         NEW r \in Nat, r <= MaxDepth, NEW deeper \in Levels,
         \A m \in Names : deeper[m][v \cup {n}] # Failed
                            => Good(m, deeper[m][v \cup {n}], v \cup {n}, r),
         merge_file(files[n], n, v, deeper) # Failed
  PROVE  Good(n, merge_file(files[n], n, v, deeper), v, r + 1)
<1> DEFINE file == files[n]
           L == Len(LayersOf(n))
           w == v \cup {n}
           subs == Subs(file, n, v, deeper)
           a == merge_all(file, subs)
<1>0. /\ file \in PackFile /\ LayersOf(n) = Layers(file) /\ body_of(file) \in Dict
      /\ MaxDepth \in Nat /\ r <= MaxDepth + 2 /\ r <= MaxDepth + 1
      /\ Failed \notin Dict
  BY PackAssumption, BodyType DEF FilesOK, FileTable, LayersOf
<1>1. subs \in [1..L -> Merged]
  BY <1>0, SubsType
<1>2. a # Failed /\ merge_file(file, n, v, deeper) = update(a, body_of(file))
  BY <1>0, MergeFileIs
<1>3. Overwritten(a, file, subs, L)
  BY <1>0, <1>1, MergeOverwrites
<1>4. (\A j \in 1..L : subs[j] # Failed) /\ LastWins(a, subs, L) /\ a \in Dict
  <2> HIDE DEF a, subs, L
  <2>. QED  BY <1>2, <1>3 DEF Overwritten, Merged
<1>5. \A j \in 1..L : LayersOf(n)[j] \in Names /\ subs[j] = deeper[LayersOf(n)[j]][w]
  BY <1>0, LayersAreNames DEF Subs
<1> HIDE DEF subs, a
<1>6. \A j \in 1..L : /\ Contained(LayersOf(n)[j], w, r) /\ Faithful(LayersOf(n)[j], subs[j])
                      /\ AllAgree(LayersOf(n)[j])
  BY <1>4, <1>5 DEF Good
<1>7. Contained(n, v, r + 1)
  BY <1>6, ContainedUnder
<1>8. \A k : Writes(n, k) <=> \/ Own(n, k) # Absent
                              \/ \E j \in 1..L : Writes(LayersOf(n)[j], k)
  BY <1>0, <1>6, <1>7, WritesUnder
<1>9. \A k : Own(n, k) = body_of(file)[k]
  BY DEF Own
<1>10. Faithful(n, update(a, body_of(file)))
  BY <1>0, <1>4, <1>6, <1>8, <1>9, FaithfulUnder
<1>11. ImportsAgree(n)
  <2>1. CASE ~file.strict
    BY <2>1 DEF ImportsAgree
  <2>2. CASE file.strict
    <3>1. Agree(subs, L)
      BY <1>0, <1>1, <1>2, <2>2, StrictMerge DEF StrictlyMerged, a
    <3>. QED  BY <1>0, <1>4, <1>6, <2>2, <3>1, AgreeByWriters
  <2>. QED  BY <2>1, <2>2
<1>12. AllAgree(n)
  BY <1>6, <1>11, AllAgreeUnder
<1>13. update(a, body_of(file)) \in Dict
  BY <1>0, <1>4, UpdateType
<1>. QED  BY <1>2, <1>7, <1>10, <1>12, <1>13 DEF Good

(* Whatever is merged with i steps left is good.                              *)
AllGood(level, i) ==
  \A n \in Names : \A v \in SUBSET Names :
    level[n][v] # Failed => Good(n, level[n][v], v, i)

(* Whatever merges, at any depth, is good.                                    *)
LEMMA MergedIsGood ==
  ASSUME FilesOK
  PROVE  \A i \in 0..(MaxDepth + 1) :
           AllGood(merge_pack_layers(files)[(MaxDepth + 1) - i], i)
<1> DEFINE M == MaxDepth + 1
           S == {i \in 0..M : AllGood(merge_pack_layers(files)[M - i], i)}
<1>0. M \in Nat /\ MaxDepth \in Nat /\ M = MaxDepth + 1 /\ files \in FileTable
  BY PackAssumption DEF FilesOK
<1>1. 0 \in S
  <2>1. M - 0 = M /\ M \in 0..M /\ 0 \in 0..M /\ M > MaxDepth
    BY <1>0
  <2>2. \A n \in Names : \A v \in SUBSET Names : merge_pack_layers(files)[M][n][v] = Failed
    BY <1>0, <2>1, MergeLevels
  <2>3. AllGood(merge_pack_layers(files)[M], 0)
    BY <2>2 DEF AllGood
  <2>. QED  BY <2>1, <2>3
<1>2. ASSUME NEW i \in 0..(M - 1), i \in S
      PROVE  i + 1 \in S
  <2> DEFINE d == M - (i + 1)
             level == merge_pack_layers(files)[d]
             deeper == merge_pack_layers(files)[d + 1]
  <2>1. /\ d \in 0..M /\ d + 1 = M - i /\ i + 1 \in 0..M /\ d + 1 \in 0..M
        /\ i \in Nat /\ i <= MaxDepth
    BY <1>0
  <2>2. AllGood(merge_pack_layers(files)[M - i], i)
    BY <1>2
  <2>3. AllGood(deeper, i)
    <3> HIDE DEF d
    <3>. QED  BY <2>1, <2>2
  <2>4. deeper \in Levels
    <3> HIDE DEF d
    <3>. QED  BY <1>0, <2>1, MergeLevels
  <2>5. \A n \in Names : \A v \in SUBSET Names :
          level[n][v] = IF d > MaxDepth \/ n \in v \/ files[n] = Absent THEN Failed
                        ELSE merge_file(files[n], n, v, deeper)
    <3> HIDE DEF d
    <3>. QED  BY <1>0, <2>1, MergeLevels
  <2> HIDE DEF d, level, deeper
  <2>6. ASSUME NEW n \in Names, NEW v \in SUBSET Names, level[n][v] # Failed
        PROVE  Good(n, level[n][v], v, i + 1)
    <3>1. /\ n \notin v /\ files[n] # Absent
          /\ level[n][v] = merge_file(files[n], n, v, deeper)
      BY <2>5, <2>6
    <3>2. v \cup {n} \in SUBSET Names
      OBVIOUS
    <3>3. \A m \in Names : deeper[m][v \cup {n}] # Failed
                             => Good(m, deeper[m][v \cup {n}], v \cup {n}, i)
      BY <2>3, <3>2 DEF AllGood
    <3>. QED  BY <2>1, <2>4, <2>6, <3>1, <3>3, GoodUnder
  <2>7. AllGood(level, i + 1)
    BY <2>6 DEF AllGood
  <2>. QED  BY <2>1, <2>7 DEF level, d
<1>3. \A i \in 0..M : i \in S
  <2> HIDE DEF S, M
  <2>. QED  BY <1>0, <1>1, <1>2, UpTo
<1>. QED  BY <1>3

(* c up to its i-th pack, and w from there.                                   *)
Turn(c, i, w) ==
  [j \in 1..(i + Len(w)) |-> IF j <= i THEN c[j] ELSE w[j - i]]

(* A function on 1..n is a sequence.                                          *)
LEMMA SeqIs ==
  ASSUME NEW S, NEW n \in Nat, NEW s \in [1..n -> S]
  PROVE  s \in Seq(S) /\ Len(s) = n
OBVIOUS

(* A walk may turn into another one at a pack of both.                        *)
LEMMA TurnIsWalk ==
  ASSUME NEW c, Walk(c), NEW i \in 1..(Len(c) - 1), NEW w, Walk(w), w[1] = c[i + 1]
  PROVE  Walk(Turn(c, i, w)) /\ Turn(c, i, w)[1] = c[1] /\ Len(Turn(c, i, w)) = i + Len(w)
<1> DEFINE t == Turn(c, i, w)
           L == Len(w)
           C == Len(c)
<1>1. /\ C \in Nat /\ L \in Nat /\ L > 0 /\ i \in Nat /\ i > 0 /\ i < C
      /\ \A j \in 1..C : c[j] \in Names
      /\ \A j \in 1..L : w[j] \in Names
      /\ \A j \in 1..(C - 1) : IsLayer(c[j + 1], c[j])
      /\ \A j \in 1..(L - 1) : IsLayer(w[j + 1], w[j])
  <2>1. C \in Nat /\ L \in Nat /\ L > 0
    BY WalkFacts
  <2>2. i \in Nat /\ i > 0 /\ i < C
    <3> HIDE DEF C
    <3>. QED  BY <2>1 DEF C
  <2>3. /\ \A j \in 1..C : c[j] \in Names
        /\ \A j \in 1..L : w[j] \in Names
    BY WalkFacts
  <2>4. /\ \A j \in 1..(C - 1) : IsLayer(c[j + 1], c[j])
        /\ \A j \in 1..(L - 1) : IsLayer(w[j + 1], w[j])
    BY DEF Walk
  <2>. QED  BY <2>1, <2>2, <2>3, <2>4
<1> HIDE DEF L, C
<1>2. \A j \in 1..(i + L) : (j <= i => j \in 1..C) /\ (~(j <= i) => j - i \in 1..L)
  BY <1>1
<1>3. t = [j \in 1..(i + L) |-> IF j <= i THEN c[j] ELSE w[j - i]]
  BY DEF Turn, L
<1>4. t \in Seq(Names) /\ Len(t) = i + L /\ i + L \in Nat /\ i + L > 0
  <2>1. t \in [1..(i + L) -> Names]
    BY <1>1, <1>2, <1>3
  <2>2. i + L \in Nat /\ i + L > 0
    BY <1>1
  <2> HIDE DEF t
  <2>. QED  BY <2>1, <2>2, SeqIs
<1>5. \A j \in 1..(i + L) : t[j] = IF j <= i THEN c[j] ELSE w[j - i]
  BY <1>3
<1> HIDE DEF t
<1>6. ASSUME NEW j \in 1..((i + L) - 1)
      PROVE  IsLayer(t[j + 1], t[j])
  <2>1. j \in 1..(i + L) /\ j + 1 \in 1..(i + L)
    BY <1>1
  <2>2. CASE j < i
    <3>1. j <= i /\ j + 1 <= i /\ j \in 1..(C - 1)
      BY <1>1, <2>2
    <3>. QED  BY <1>1, <1>5, <2>1, <3>1
  <2>3. CASE j = i
    <3>1. j <= i /\ ~(j + 1 <= i) /\ (j + 1) - i = 1 /\ j \in 1..(C - 1)
      BY <1>1, <2>3
    <3>2. t[j + 1] = w[1] /\ t[j] = c[i]
      BY <1>5, <2>1, <2>3, <3>1
    <3>. QED  BY <1>1, <2>3, <3>1, <3>2
  <2>4. CASE j > i
    <3>1. /\ ~(j <= i) /\ ~(j + 1 <= i) /\ j - i \in 1..(L - 1)
          /\ (j + 1) - i = (j - i) + 1
      BY <1>1, <2>4
    <3>2. t[j + 1] = w[(j - i) + 1] /\ t[j] = w[j - i]
      BY <1>5, <2>1, <3>1
    <3>. QED  BY <1>1, <3>1, <3>2
  <2>5. j < i \/ j = i \/ j > i
    BY <1>1
  <2>. QED  BY <2>2, <2>3, <2>4, <2>5
<1>7. Walk(t)
  <2>1. \A j \in 1..(Len(t) - 1) : IsLayer(t[j + 1], t[j])
    BY <1>4, <1>6
  <2>. QED  BY <1>4, <2>1 DEF Walk
<1>8. t[1] = c[1]
  <2>1. 1 \in 1..(i + L) /\ 1 <= i
    BY <1>1
  <2>. QED  BY <1>5, <2>1
<1>. QED  BY <1>4, <1>7, <1>8 DEF t, L

(* No way down comes back to where it started: there would be a longer one.   *)
LEMMA NoCircle ==
  ASSUME NEW n \in Names, NEW v, NEW r \in Nat, Contained(n, v, r),
         NEW c, Walk(c), c[1] = n, NEW i \in 1..(Len(c) - 1)
  PROVE  c[i + 1] # n
<1> DEFINE S == {l \in 1..r : \E w : Walk(w) /\ w[1] = n /\ Len(w) = l}
<1>1. \A w : Walk(w) /\ w[1] = n => Len(w) \in S
  <2>1. ASSUME NEW w, Walk(w), w[1] = n
        PROVE  Len(w) \in 1..r
    <3>1. Len(w) \in Nat /\ Len(w) > 0
      BY <2>1, WalkFacts
    <3>2. Len(w) <= r
      BY <2>1 DEF Contained
    <3>3. \A l \in Nat : l > 0 /\ l <= r => l \in 1..r
      OBVIOUS
    <3>. QED  BY <3>1, <3>2, <3>3
  <2>. QED  BY <2>1
<1>2. S \subseteq 1..r /\ S # {}
  BY <1>1
<1>3. PICK l \in S : \A j \in S : j <= l
  <2> HIDE DEF S
  <2>. QED  BY <1>2, GreatestIndex
<1>4. PICK w : Walk(w) /\ w[1] = n /\ Len(w) = l
  BY <1>3
<1>5. ASSUME c[i + 1] = n
      PROVE  FALSE
  <2>1. Walk(Turn(c, i, w)) /\ Turn(c, i, w)[1] = n /\ Len(Turn(c, i, w)) = i + l
    BY <1>4, <1>5, TurnIsWalk
  <2>2. i + l <= l
    BY <1>1, <1>3, <2>1
  <2>3. l \in Nat /\ i \in Nat /\ i > 0
    <3>1. Len(c) \in Nat
      BY WalkFacts
    <3>. QED  BY <1>3, <3>1
  <2> HIDE DEF S
  <2>. QED  BY <2>2, <2>3
<1>. QED  BY <1>5

(* What holds of a pack holds of its layers, one step shorter.                *)
LEMMA ContainedBelow ==
  ASSUME NEW n \in Names, NEW v, NEW r \in Nat, Contained(n, v, r + 1), AllAgree(n),
         NEW m, IsLayer(m, n)
  PROVE  Contained(m, v \cup {n}, r) /\ AllAgree(m)
<1>1. ASSUME NEW c, Walk(c), c[1] = m
      PROVE  /\ Len(c) <= r
             /\ \A i \in 1..Len(c) : files[c[i]] # Absent /\ c[i] \notin v \cup {n}
             /\ ImportsAgree(Last(c))
  <2> DEFINE u == Under(n, c)
  <2>1. /\ Walk(u) /\ Len(u) = Len(c) + 1 /\ u[1] = n
        /\ \A i \in 1..Len(c) : u[i + 1] = c[i]
        /\ Last(u) = Last(c)
    BY <1>1, UnderIsWalk
  <2> HIDE DEF u
  <2>2. Len(c) \in Nat
    BY <1>1, WalkFacts
  <2>3. Len(u) <= r + 1 /\ \A i \in 1..Len(u) : files[u[i]] # Absent /\ u[i] \notin v
    BY <2>1 DEF Contained
  <2>4. Len(c) <= r
    BY <2>1, <2>2, <2>3
  <2>5. ASSUME NEW i \in 1..Len(c)
        PROVE  files[c[i]] # Absent /\ c[i] \notin v \cup {n}
    <3>1. i + 1 \in 1..Len(u) /\ i \in 1..(Len(u) - 1)
      BY <2>1, <2>2
    <3>2. files[c[i]] # Absent /\ c[i] \notin v
      BY <2>1, <2>3, <3>1
    <3>3. c[i] # n
      <4>0. r + 1 \in Nat
        OBVIOUS
      <4>1. u[i + 1] # n
        BY <4>0, <2>1, <3>1, NoCircle
      <4>. QED  BY <2>1, <4>1
    <3>. QED  BY <3>2, <3>3
  <2>6. ImportsAgree(Last(c))
    BY <2>1 DEF AllAgree
  <2>. QED  BY <2>4, <2>5, <2>6
<1>. QED  BY <1>1 DEF Contained, AllAgree

(* A pack whose layers are good and agree where they must merges.             *)
LEMMA SoundUnder ==
  ASSUME FilesOK, NEW n \in Names, files[n] # Absent, NEW v \in SUBSET Names,
         NEW r \in Nat, r <= MaxDepth, NEW deeper \in Levels,
         \A m \in Names : IsLayer(m, n) =>
           /\ deeper[m][v \cup {n}] # Failed
           /\ Good(m, deeper[m][v \cup {n}], v \cup {n}, r),
         ImportsAgree(n)
  PROVE  merge_file(files[n], n, v, deeper) # Failed
<1> DEFINE file == files[n]
           L == Len(LayersOf(n))
           w == v \cup {n}
           subs == Subs(file, n, v, deeper)
           a == merge_all(file, subs)
<1>0. /\ file \in PackFile /\ LayersOf(n) = Layers(file) /\ body_of(file) \in Dict
      /\ r <= MaxDepth + 2 /\ Failed \notin Dict
  BY PackAssumption, BodyType DEF FilesOK, FileTable, LayersOf
<1>1. subs \in [1..L -> Merged]
  BY <1>0, SubsType
<1>2. \A j \in 1..L : LayersOf(n)[j] \in Names /\ subs[j] = deeper[LayersOf(n)[j]][w]
  BY <1>0, LayersAreNames DEF Subs
<1>3. \A j \in 1..L : IsLayer(LayersOf(n)[j], n)
  BY DEF IsLayer
<1> HIDE DEF subs
<1>4. \A j \in 1..L : /\ subs[j] # Failed
                      /\ Contained(LayersOf(n)[j], w, r) /\ Faithful(LayersOf(n)[j], subs[j])
  BY <1>2, <1>3 DEF Good
<1>5. a # Failed /\ a \in Merged
  <2>1. CASE ~file.strict
    BY <1>0, <1>1, <1>4, <2>1, MergeOverwrites DEF Overwritten
  <2>2. CASE file.strict
    <3>1. Agree(subs, L)
      BY <1>0, <1>4, <2>2, AgreeByWriters
    <3>. QED  BY <1>0, <1>1, <2>2, <3>1, StrictMerge DEF StrictlyMerged
  <2>. QED  BY <2>1, <2>2
<1>6. update(a, body_of(file)) # Failed
  BY <1>0, <1>5, UpdateType DEF Merged
<1>. QED  BY <1>0, <1>5, <1>6, MergeFileIs DEF a, subs

(* Whatever is sound with i steps left is merged.                             *)
AllMerge(level, i) ==
  \A n \in Names : \A v \in SUBSET Names :
    Contained(n, v, i) /\ AllAgree(n) => level[n][v] # Failed

(* Every sound pack is merged, at any depth.                                  *)
LEMMA SoundMerges ==
  ASSUME FilesOK
  PROVE  \A i \in 0..(MaxDepth + 1) :
           AllMerge(merge_pack_layers(files)[(MaxDepth + 1) - i], i)
<1> DEFINE M == MaxDepth + 1
           S == {i \in 0..M : AllMerge(merge_pack_layers(files)[M - i], i)}
<1>0. M \in Nat /\ MaxDepth \in Nat /\ M = MaxDepth + 1 /\ files \in FileTable
  BY PackAssumption DEF FilesOK
<1>w. ASSUME NEW n \in Names, NEW v, NEW i, Contained(n, v, i), AllAgree(n)
      PROVE  1 <= i /\ files[n] # Absent /\ n \notin v /\ ImportsAgree(n)
  <2>1. Walk(<<n>>) /\ <<n>>[1] = n /\ Len(<<n>>) = 1 /\ Last(<<n>>) = n
    BY OneStep DEF Exactly, Last
  <2>2. 1 \in 1..1
    OBVIOUS
  <2>. QED  BY <1>w, <2>1, <2>2 DEF Contained, AllAgree
<1>1. 0 \in S
  <2>1. ~(1 <= 0) /\ 0 \in 0..M
    BY <1>0
  <2>2. AllMerge(merge_pack_layers(files)[M - 0], 0)
    BY <1>w, <2>1 DEF AllMerge
  <2>. QED  BY <2>1, <2>2
<1>2. ASSUME NEW i \in 0..(M - 1), i \in S
      PROVE  i + 1 \in S
  <2> DEFINE d == M - (i + 1)
             level == merge_pack_layers(files)[d]
             deeper == merge_pack_layers(files)[d + 1]
  <2>1. /\ d \in 0..M /\ d + 1 = M - i /\ i + 1 \in 0..M /\ d + 1 \in 0..M
        /\ i \in Nat /\ i <= MaxDepth /\ ~(d > MaxDepth) /\ i \in 0..M
    BY <1>0
  <2>2. AllMerge(merge_pack_layers(files)[M - i], i)
    BY <1>2
  <2>2a. AllGood(merge_pack_layers(files)[M - i], i)
    BY <2>1, MergedIsGood
  <2>3. AllMerge(deeper, i) /\ AllGood(deeper, i)
    <3> HIDE DEF d
    <3>. QED  BY <2>1, <2>2, <2>2a
  <2>4. deeper \in Levels
    <3> HIDE DEF d
    <3>. QED  BY <1>0, <2>1, MergeLevels
  <2>5. \A n \in Names : \A v \in SUBSET Names :
          level[n][v] = IF d > MaxDepth \/ n \in v \/ files[n] = Absent THEN Failed
                        ELSE merge_file(files[n], n, v, deeper)
    <3> HIDE DEF d
    <3>. QED  BY <1>0, <2>1, MergeLevels
  <2> HIDE DEF d, level, deeper
  <2>6. ASSUME NEW n \in Names, NEW v \in SUBSET Names, Contained(n, v, i + 1), AllAgree(n)
        PROVE  level[n][v] # Failed
    <3>1. files[n] # Absent /\ n \notin v /\ ImportsAgree(n)
      BY <1>w, <2>6
    <3>2. level[n][v] = merge_file(files[n], n, v, deeper)
      BY <2>1, <2>5, <3>1
    <3>3. v \cup {n} \in SUBSET Names
      OBVIOUS
    <3>4. ASSUME NEW m \in Names, IsLayer(m, n)
          PROVE  /\ deeper[m][v \cup {n}] # Failed
                 /\ Good(m, deeper[m][v \cup {n}], v \cup {n}, i)
      <4>1. Contained(m, v \cup {n}, i) /\ AllAgree(m)
        BY <2>1, <2>6, <3>4, ContainedBelow
      <4>2. deeper[m][v \cup {n}] # Failed
        BY <2>3, <3>3, <4>1 DEF AllMerge
      <4>. QED  BY <2>3, <3>3, <4>2 DEF AllGood
    <3>. QED  BY <2>1, <2>4, <3>1, <3>2, <3>4, SoundUnder
  <2>7. AllMerge(level, i + 1)
    BY <2>6 DEF AllMerge
  <2>. QED  BY <2>1, <2>7 DEF level, d
<1>3. \A i \in 0..M : i \in S
  <2> HIDE DEF S, M
  <2>. QED  BY <1>0, <1>1, <1>2, UpTo
<1>. QED  BY <1>3

(* d is what merged_dict gives where _merge_pack_layers gives m: the same, or *)
(* a file without layers as it stands, an empty `import` included.            *)
MergesTo(file, d, m) ==
  /\ d = Failed <=> m = Failed
  /\ d # Failed =>
       /\ file # Absent
       /\ \A k \in Keys : k # "import" => d[k] = m[k]
       /\ Len(Layers(file)) # 0 => d = m
       /\ Len(Layers(file)) = 0 => d = file.body

(* A pack of one file is merged to its body anyway.                           *)
LEMMA MergedDictIs ==
  ASSUME NEW fs \in FileTable, NEW n \in Names
  PROVE  MergesTo(fs[n], merged_dict(fs, n), merge_pack_layers(fs)[0][n][{}])
<1> DEFINE deeper == merge_pack_layers(fs)[1]
<1>0. /\ MaxDepth \in Nat /\ ~(0 > MaxDepth) /\ {} \in SUBSET Names
      /\ 0 \in 0..(MaxDepth + 1) /\ 1 \in 0..(MaxDepth + 1) /\ 0 + 1 = 1 /\ n \notin {}
      /\ Failed \notin Dict
  BY PackAssumption
<1>1. merge_pack_layers(fs)[0][n][{}]
        = IF fs[n] = Absent THEN Failed ELSE merge_file(fs[n], n, {}, deeper)
  BY <1>0, MergeLevels
<1>2. deeper \in Levels
  BY <1>0, MergeLevels
<1> HIDE DEF deeper
<1>3. CASE fs[n] = Absent
  BY <1>1, <1>3 DEF merged_dict, MergesTo
<1>4. CASE fs[n] # Absent
  <2> DEFINE file == fs[n]
             subs == Subs(file, n, {}, deeper)
             a == merge_all(file, subs)
             body == body_of(file)
  <2>1. file \in PackFile /\ file.body \in Dict /\ body \in Dict
    BY <1>0, <1>4, BodyType DEF FileTable
  <2>2. CASE Len(Layers(file)) # 0
    <3>1. merged_dict(fs, n) = merge_pack_layers(fs)[0][n][{}]
      BY <1>4, <2>1, <2>2, NoLayers DEF merged_dict
    <3>. QED  BY <1>4, <2>2, <3>1 DEF MergesTo
  <2>3. CASE Len(Layers(file)) = 0
    <3>1. merged_dict(fs, n) = file.body
      BY <1>4, <2>1, <2>3, NoLayers DEF merged_dict
    <3>2. subs \in [1..Len(Layers(file)) -> Merged]
      BY <1>0, <1>2, <2>1, SubsType
    <3>3. PICK f \in [0..Len(Layers(file)) -> Merged] :
            f[0] = Nothing /\ a = f[Len(Layers(file))]
      <4> HIDE DEF subs
      <4>. QED  BY <2>1, <3>2, MergeAllSteps
    <3>4. a = Nothing
      BY <2>3, <3>3
    <3>9. \A k \in Keys : k # "import" => body[k] = file.body[k]
      BY <2>1, BodyType
    <3> HIDE DEF a, body
    <3>5. Nothing \in Dict
      BY DEF Nothing, Dict
    <3>6. merge_file(file, n, {}, deeper) = update(Nothing, body)
      BY <1>0, <2>1, <3>4, <3>5, MergeFileIs DEF a, body
    <3>7. update(Nothing, body) = body
      BY <2>1 DEF update, Nothing, Dict
    <3>8. merge_pack_layers(fs)[0][n][{}] = body
      BY <1>1, <1>4, <3>6, <3>7
    <3>. QED  BY <1>0, <1>4, <2>1, <2>3, <3>1, <3>8, <3>9 DEF MergesTo
  <2>. QED  BY <2>2, <2>3
<1>. QED  BY <1>3, <1>4

(* So what a pack that merges has from _merge_pack_layers is good, with all   *)
(* the depth to go.                                                           *)
LEMMA LoadedIsGood ==
  ASSUME FilesOK, NEW n \in Names, merged_dict(files, n) # Failed
  PROVE  Good(n, merge_pack_layers(files)[0][n][{}], {}, MaxDepth + 1)
<1>1. /\ {} \in SUBSET Names /\ (MaxDepth + 1) - (MaxDepth + 1) = 0
      /\ MaxDepth + 1 \in 0..(MaxDepth + 1)
  BY PackAssumption
<1>2. AllGood(merge_pack_layers(files)[0], MaxDepth + 1)
  BY <1>1, MergedIsGood
<1>3. merge_pack_layers(files)[0][n][{}] # Failed
  BY MergedDictIs DEF FilesOK, MergesTo
<1>. QED  BY <1>1, <1>2, <1>3 DEF AllGood

(* The first i packs of a walk are a walk.                                    *)
LEMMA StartIsWalk ==
  ASSUME NEW c, Walk(c), NEW i \in 1..Len(c)
  PROVE  \E b : Walk(b) /\ b[1] = c[1] /\ Len(b) = i /\ Last(b) = c[i]
<1> DEFINE b == [j \in 1..i |-> c[j]]
<1>1. /\ c \in Seq(Names) /\ Len(c) \in Nat /\ \A j \in 1..Len(c) : c[j] \in Names
      /\ \A j \in 1..(Len(c) - 1) : IsLayer(c[j + 1], c[j])
  BY WalkFacts DEF Walk
<1>2. i \in Nat /\ i > 0 /\ i <= Len(c)
  BY <1>1
<1>3. /\ \A j \in 1..i : j \in 1..Len(c)
      /\ \A j \in 1..(i - 1) : j \in 1..(Len(c) - 1) /\ j \in 1..i /\ j + 1 \in 1..i
      /\ 1 \in 1..i /\ i \in 1..i
  BY <1>1, <1>2
<1>4. b \in [1..i -> Names] /\ \A j \in 1..i : b[j] = c[j]
  BY <1>1, <1>3
<1> HIDE DEF b
<1>5. b \in Seq(Names) /\ Len(b) = i
  BY <1>2, <1>4, SeqIs
<1>6. \A j \in 1..(i - 1) : IsLayer(b[j + 1], b[j])
  BY <1>1, <1>3, <1>4
<1>7. Walk(b)
  BY <1>2, <1>5, <1>6 DEF Walk
<1>8. b[1] = c[1] /\ Last(b) = c[i]
  BY <1>3, <1>4, <1>5 DEF Last
<1>. QED  BY <1>5, <1>7, <1>8

(* The reference looks one step beyond the depth, which is far enough.        *)
LEMMA CompleteIsContained ==
  ASSUME FilesOK, NEW n \in Names, Complete(n)
  PROVE  Contained(n, {}, MaxDepth + 1)
<1>0. MaxDepth \in Nat
  BY PackAssumption
<1>1. ASSUME NEW c, Walk(c), c[1] = n
      PROVE  Len(c) <= MaxDepth + 1 /\ \A i \in 1..Len(c) : files[c[i]] # Absent /\ c[i] \notin {}
  <2>0. Len(c) \in Nat
    BY <1>1, WalkFacts
  <2>1. Len(c) <= MaxDepth + 1
    <3>1. SUFFICES ASSUME Len(c) > MaxDepth + 1
                   PROVE  FALSE
      BY <1>0, <2>0
    <3>2. MaxDepth + 2 \in 1..Len(c)
      BY <1>0, <2>0, <3>1
    <3>3. PICK b : Walk(b) /\ b[1] = n /\ Len(b) = MaxDepth + 2
      BY <1>1, <3>2, StartIsWalk
    <3>4. b \in Chains(n)
      BY <1>0, <3>3, ChainsAre
    <3>5. MaxDepth + 2 <= MaxDepth + 1
      BY <3>3, <3>4 DEF Complete
    <3>. QED  BY <1>0, <3>5
  <2>2. ASSUME NEW i \in 1..Len(c)
        PROVE  files[c[i]] # Absent
    <3>1. PICK b : Walk(b) /\ b[1] = n /\ Len(b) = i /\ Last(b) = c[i]
      BY <1>1, StartIsWalk
    <3>2. i <= MaxDepth + 2
      BY <1>0, <2>0, <2>1
    <3>3. b \in Chains(n)
      BY <3>1, <3>2, ChainsAre
    <3>. QED  BY <3>1, <3>3 DEF Complete
  <2>. QED  BY <2>1, <2>2
<1>. QED  BY <1>1 DEF Contained

(* A pack is merged exactly when all it is composed of is there, near enough  *)
(* and in agreement.                                                          *)
LEMMA MergesSound ==
  ASSUME FilesOK, NEW n \in Names
  PROVE  merged_dict(files, n) # Failed <=>
           Complete(n) /\ \A c \in Chains(n) : ImportsAgree(Last(c))
<1>0. /\ MaxDepth \in Nat /\ {} \in SUBSET Names
      /\ (MaxDepth + 1) - (MaxDepth + 1) = 0 /\ MaxDepth + 1 \in 0..(MaxDepth + 1)
      /\ MaxDepth + 1 \in Nat /\ MaxDepth + 1 <= MaxDepth + 2
  BY PackAssumption
<1>1. ASSUME merged_dict(files, n) # Failed
      PROVE  Complete(n) /\ \A c \in Chains(n) : ImportsAgree(Last(c))
  <2>1. Contained(n, {}, MaxDepth + 1) /\ AllAgree(n)
    BY <1>1, LoadedIsGood DEF Good
  <2>2. ASSUME NEW c \in Chains(n)
        PROVE  files[Last(c)] # Absent /\ Len(c) <= MaxDepth + 1 /\ ImportsAgree(Last(c))
    <3>1. Walk(c) /\ c[1] = n
      BY ChainsAre
    <3>2. Len(c) \in 1..Len(c) /\ Last(c) = c[Len(c)]
      <4>1. \A x \in Nat : x > 0 => x \in 1..x
        OBVIOUS
      <4>. QED  BY <3>1, <4>1, WalkFacts
    <3>. QED  BY <2>1, <3>1, <3>2 DEF Contained, AllAgree
  <2>. QED  BY <2>2 DEF Complete
<1>2. ASSUME Complete(n), \A c \in Chains(n) : ImportsAgree(Last(c))
      PROVE  merged_dict(files, n) # Failed
  <2>1. Contained(n, {}, MaxDepth + 1)
    BY <1>2, CompleteIsContained
  <2>2. AllAgree(n)
    <3>1. ASSUME NEW c, Walk(c), c[1] = n
          PROVE  c \in Chains(n)
      <4>1. Len(c) <= MaxDepth + 2
        BY <1>0, <2>1, <3>1, WalkFacts DEF Contained
      <4>. QED  BY <3>1, <4>1, ChainsAre
    <3>. QED  BY <1>2, <3>1 DEF AllAgree
  <2>3. AllMerge(merge_pack_layers(files)[0], MaxDepth + 1)
    BY <1>0, SoundMerges
  <2>. QED  BY <1>0, <2>1, <2>2, <2>3, MergedDictIs DEF FilesOK, AllMerge, MergesTo
<1>. QED  BY <1>1, <1>2

(* A merged pack says what its last writers say, once it has no `import` that *)
(* the fast path kept.                                                        *)
LEMMA MergedSays ==
  ASSUME FilesOK, NEW n \in Names, merged_dict(files, n) # Failed
  PROVE  LET d == merged_dict(files, n)
         IN /\ d["import"] = Absent
                 <=> (LayersOf(n) = <<>> => files[n].body["import"] = Absent)
            /\ \A k \in Keys : k # "import" \/ d["import"] = Absent
                 => d[k] = LastWriter(n, k) /\ (d[k] # Absent <=> Writes(n, k))
<1> DEFINE d == merged_dict(files, n)
           m == merge_pack_layers(files)[0][n][{}]
<1>0. /\ MaxDepth + 1 \in Nat /\ MaxDepth + 1 <= MaxDepth + 2
      /\ files \in FileTable /\ d # Failed
  BY PackAssumption DEF FilesOK
<1>1. MergesTo(files[n], d, m)
  BY <1>0, MergedDictIs
<1>2. Contained(n, {}, MaxDepth + 1) /\ Faithful(n, m)
  BY LoadedIsGood DEF Good
<1> HIDE DEF d, m
<1>3. files[n] \in PackFile /\ LayersOf(n) = Layers(files[n]) /\ Layers(files[n]) \in Seq(Names)
  BY <1>0, <1>1, LayersAreNames DEF MergesTo, FileTable, LayersOf
<1>4. LayersOf(n) = <<>> <=> Len(Layers(files[n])) = 0
  BY <1>3
<1>5. m["import"] = Absent
  <2>1. SUFFICES ASSUME m["import"] # Absent
                 PROVE  FALSE
    OBVIOUS
  <2>2. PICK c : Walk(c) /\ c[1] = n /\ LeadsToWriter(c, "import")
    BY <1>2, <2>1, PackAssumption DEF Faithful
  <2>3. /\ Len(c) \in 1..Len(c) /\ Last(c) = c[Len(c)] /\ c[Len(c)] \in Names
    <3>1. \A x \in Nat : x > 0 => x \in 1..x
      OBVIOUS
    <3>. QED  BY <2>2, <3>1, WalkFacts
  <2>4. files[Last(c)] \in PackFile
    BY <1>0, <1>2, <2>2, <2>3 DEF Contained, FileTable
  <2>5. Own(Last(c), "import") = Absent
    BY <2>4, BodyType DEF Own
  <2>. QED  BY <2>2, <2>5 DEF LeadsToWriter
<1>6. d["import"] = Absent <=> (LayersOf(n) = <<>> => files[n].body["import"] = Absent)
  BY <1>0, <1>1, <1>4, <1>5 DEF MergesTo
<1>7. ASSUME NEW k \in Keys, k # "import" \/ d["import"] = Absent
      PROVE  d[k] = LastWriter(n, k) /\ (d[k] # Absent <=> Writes(n, k))
  <2>1. d[k] = m[k]
    BY <1>0, <1>1, <1>5, <1>7 DEF MergesTo
  <2>2. LastWriter(n, k) = m[k]
    BY <1>0, <1>2, LastWriterIs
  <2>3. m[k] # Absent <=> Writes(n, k)
    BY <1>2 DEF Faithful
  <2>. QED  BY <2>1, <2>2, <2>3
<1>. QED  BY <1>6, <1>7 DEF d

(* A pack loads exactly when it is sound and says what a pack must say.       *)
LEMMA LoadsSound == FilesOK => LoadsExactlySoundPacks
<1> SUFFICES ASSUME FilesOK, NEW n \in Names
             PROVE  loaded(files, n) # Failed <=>
                      /\ Complete(n) /\ \A c \in Chains(n) : ImportsAgree(Last(c))
                      /\ IsPolicyPack(n)
  BY DEF LoadsExactlySoundPacks
<1> DEFINE d == merged_dict(files, n)
<1>1. loaded(files, n) # Failed <=>
        /\ d # Failed
        /\ d["import"] = Absent
        /\ \A k \in Required : d[k] # Absent
        /\ \A k \in Keys : d[k] \notin Refused
  BY DEF loaded, model_validate
<1>2. CASE d = Failed
  BY <1>1, <1>2, MergesSound
<1>3. CASE d # Failed
  <2>1. d["import"] = Absent <=> (LayersOf(n) = <<>> => files[n].body["import"] = Absent)
    BY <1>3, MergedSays
  <2>2. \A k \in Keys : k # "import" \/ d["import"] = Absent
          => d[k] = LastWriter(n, k) /\ (d[k] # Absent <=> Writes(n, k))
    BY <1>3, MergedSays
  <2>3. Complete(n) /\ \A c \in Chains(n) : ImportsAgree(Last(c))
    BY <1>3, MergesSound
  <2> HIDE DEF d
  <2>4. loaded(files, n) # Failed <=> IsPolicyPack(n)
    BY <1>1, <1>3, <2>1, <2>2, PackAssumption DEF IsPolicyPack
  <2>. QED  BY <2>3, <2>4
<1>. QED  BY <1>2, <1>3

-----------------------------------------------------------------------------
(* The cache                                                                  *)

(* What merged of the packs in S before is merged the same.                   *)
Kept(level, level2, S) ==
  \A n \in S : \A v \in SUBSET Names :
    level[n][v] # Failed => level2[n][v] = level[n][v]

(* The packs in S that there were are unchanged and refer only to packs in S. *)
Same(fs, fs2, S) ==
  \A m \in S : fs[m] # Absent =>
    /\ fs2[m] = fs[m]
    /\ \A j \in 1..Len(Layers(fs[m])) : Layers(fs[m])[j] \in S

(* _merge_pack_layers of a pack that merged does not change with other files  *)
(* or new ones,                                                               *)
LEMMA OtherFilesKeepMerges ==
  ASSUME NEW fs \in FileTable, NEW fs2 \in FileTable,
         NEW S \in SUBSET Names, Same(fs, fs2, S)
  PROVE  \A i \in 0..(MaxDepth + 1) :
           Kept(merge_pack_layers(fs)[(MaxDepth + 1) - i],
                merge_pack_layers(fs2)[(MaxDepth + 1) - i], S)
<1> DEFINE M == MaxDepth + 1
           T == {i \in 0..M : Kept(merge_pack_layers(fs)[M - i], merge_pack_layers(fs2)[M - i], S)}
<1>0. M \in Nat /\ MaxDepth \in Nat /\ M = MaxDepth + 1
  BY PackAssumption
<1>1. 0 \in T
  <2>1. M - 0 = M /\ M \in 0..M /\ 0 \in 0..M /\ M > MaxDepth
    BY <1>0
  <2>2. \A n \in Names : \A v \in SUBSET Names : merge_pack_layers(fs)[M][n][v] = Failed
    BY <1>0, <2>1, MergeLevels
  <2>3. Kept(merge_pack_layers(fs)[M], merge_pack_layers(fs2)[M], S)
    BY <2>2 DEF Kept
  <2>. QED  BY <2>1, <2>3
<1>2. ASSUME NEW i \in 0..(M - 1), i \in T
      PROVE  i + 1 \in T
  <2> DEFINE d == M - (i + 1)
             level == merge_pack_layers(fs)[d]
             level2 == merge_pack_layers(fs2)[d]
             deeper == merge_pack_layers(fs)[d + 1]
             deeper2 == merge_pack_layers(fs2)[d + 1]
  <2>1. d \in 0..M /\ d + 1 = M - i /\ i + 1 \in 0..M /\ d + 1 \in 0..M /\ ~(d > MaxDepth)
    BY <1>0
  <2>2. Kept(merge_pack_layers(fs)[M - i], merge_pack_layers(fs2)[M - i], S)
    BY <1>2
  <2>3. Kept(deeper, deeper2, S)
    <3> HIDE DEF d
    <3>. QED  BY <2>1, <2>2
  <2>4. deeper \in Levels /\ deeper2 \in Levels
    <3> HIDE DEF d
    <3>. QED  BY <1>0, <2>1, MergeLevels
  <2>5. /\ \A n \in Names : \A v \in SUBSET Names :
             level[n][v] = IF d > MaxDepth \/ n \in v \/ fs[n] = Absent THEN Failed
                           ELSE merge_file(fs[n], n, v, deeper)
        /\ \A n \in Names : \A v \in SUBSET Names :
             level2[n][v] = IF d > MaxDepth \/ n \in v \/ fs2[n] = Absent THEN Failed
                            ELSE merge_file(fs2[n], n, v, deeper2)
    <3> HIDE DEF d
    <3>. QED  BY <1>0, <2>1, MergeLevels
  <2> HIDE DEF d, level, level2, deeper, deeper2
  <2>6. ASSUME NEW n \in S, NEW v \in SUBSET Names, level[n][v] # Failed
        PROVE  level2[n][v] = level[n][v]
    <3> DEFINE file == fs[n]
               L == Len(Layers(file))
               subs == Subs(file, n, v, deeper)
               subs2 == Subs(file, n, v, deeper2)
               a == merge_all(file, subs)
    <3>0. n \in Names
      OBVIOUS
    <3>1. /\ file \in PackFile /\ fs2[n] = file /\ fs2[n] # Absent
          /\ level[n][v] = merge_file(file, n, v, deeper) /\ n \notin v
          /\ \A j \in 1..L : Layers(file)[j] \in S
      BY <2>5, <2>6, <3>0 DEF FileTable, Same
    <3>2. level2[n][v] = merge_file(file, n, v, deeper2)
      BY <2>1, <2>5, <3>0, <3>1
    <3>3. v \cup {n} \in SUBSET Names
      BY <3>0
    <3> HIDE DEF file
    <3>4. a # Failed
      BY <2>6, <3>0, <3>1, MergeFileIs
    <3>5. subs \in [1..L -> Merged]
      BY <2>4, <3>0, <3>1, SubsType
    <3>6. \A j \in 1..L : subs[j] # Failed
      <4>1. Overwritten(a, file, subs, L)
        BY <3>1, <3>5, MergeOverwrites
      <4> HIDE DEF a, subs, L
      <4>. QED  BY <3>4, <4>1 DEF Overwritten
    <3>7. \A j \in 1..L : deeper2[Layers(file)[j]][v \cup {n}] = deeper[Layers(file)[j]][v \cup {n}]
      BY <2>3, <3>1, <3>3, <3>6 DEF Subs, Kept
    <3>8. subs2 = subs
      BY <3>7 DEF Subs
    <3> HIDE DEF subs, subs2, a
    <3>9. merge_file(file, n, v, deeper2) = merge_file(file, n, v, deeper)
      BY <3>0, <3>1, <3>8, MergeFileIs DEF subs, subs2
    <3>. QED  BY <3>1, <3>2, <3>9
  <2>7. Kept(level, level2, S)
    BY <2>6 DEF Kept
  <2>. QED  BY <2>1, <2>7 DEF level, level2, d
<1>3. \A i \in 0..M : i \in T
  <2> HIDE DEF T, M
  <2>. QED  BY <1>0, <1>1, <1>2, UpTo
<1>. QED  BY <1>3

(* nor does what is cached.                                                   *)
LEMMA OtherFilesKeepPacks ==
  ASSUME NEW fs \in FileTable, NEW fs2 \in FileTable,
         NEW S \in SUBSET Names, Same(fs, fs2, S),
         NEW n \in S, merged_dict(fs, n) # Failed
  PROVE  merged_dict(fs2, n) = merged_dict(fs, n)
<1>0. n \in Names
  OBVIOUS
<1>1. /\ {} \in SUBSET Names /\ (MaxDepth + 1) - (MaxDepth + 1) = 0
      /\ MaxDepth + 1 \in 0..(MaxDepth + 1)
  BY PackAssumption
<1>2. Kept(merge_pack_layers(fs)[0], merge_pack_layers(fs2)[0], S)
  BY <1>1, OtherFilesKeepMerges
<1>3. /\ MergesTo(fs[n], merged_dict(fs, n), merge_pack_layers(fs)[0][n][{}])
      /\ MergesTo(fs2[n], merged_dict(fs2, n), merge_pack_layers(fs2)[0][n][{}])
  BY <1>0, MergedDictIs
<1>4. fs2[n] = fs[n] /\ merge_pack_layers(fs)[0][n][{}] # Failed
  BY <1>3 DEF MergesTo, Same
<1>5. merge_pack_layers(fs2)[0][n][{}] = merge_pack_layers(fs)[0][n][{}]
  BY <1>1, <1>2, <1>4 DEF Kept
<1>. QED  BY <1>3, <1>4, <1>5 DEF MergesTo

(* What is cached was merged from files that are still as they were, but for  *)
(* those changed since.                                                       *)
MergedFrom(n, fs) ==
  /\ cache[n] = merged_dict(fs, n)
  /\ \A m \in Names \ changed : fs[m] # Absent => files[m] = fs[m]
CacheWasMerged ==
  \A n \in Names : cache[n] # Absent => \E fs \in FileTable : MergedFrom(n, fs)

(* The inductive invariant.                                                   *)
PackInv == FilesOK /\ PackTypeOK /\ CacheWasMerged

(* Every state has it: whatever is written, a file that differs from what was *)
(* merged is among the changed.                                               *)
THEOREM PackInvariant == PackSpec => []PackInv
<1>1. PackInit => PackInv
  BY DEF PackInit, PackInv, FilesOK, PackTypeOK, CacheWasMerged, FileTable
<1>2. PackInv /\ [PackNext]_packVars => PackInv'
  <2> SUFFICES ASSUME FilesOK, PackTypeOK, CacheWasMerged, [PackNext]_packVars
               PROVE  PackInv'
    BY DEF PackInv
  <2>0. files \in FileTable /\ cache \in [Names -> Dict \cup {Absent}]
    BY DEF FilesOK, PackTypeOK
  <2>1. ASSUME NEW n \in Names, NEW file \in PackFiles[n] \cup {Absent}, WriteFile(n, file)
        PROVE  PackInv'
    <3>1. file \in PackFile \cup {Absent}
      BY PackAssumption
    <3>2. /\ files' = [files EXCEPT ![n] = file] /\ cache' = cache
          /\ changed' = IF files[n] = Absent THEN changed ELSE changed \cup {n}
      BY <2>1 DEF WriteFile
    <3>3. files' \in FileTable /\ PackTypeOK'
      BY <2>0, <3>1, <3>2 DEF PackTypeOK, FileTable
    <3>4. ASSUME NEW m \in Names, NEW fs \in FileTable, MergedFrom(m, fs)
          PROVE  MergedFrom(m, fs)'
      <4>1. ASSUME NEW o \in Names \ changed', fs[o] # Absent
            PROVE  files'[o] = fs[o]
        <5>1. o \in Names \ changed /\ files[o] = fs[o]
          BY <3>2, <3>4, <4>1 DEF MergedFrom
        <5>2. o # n
          BY <3>2, <4>1, <5>1
        <5>. QED  BY <2>0, <3>2, <5>1, <5>2 DEF FileTable
      <4>. QED  BY <3>2, <3>4, <4>1 DEF MergedFrom
    <3>5. CacheWasMerged'
      BY <3>2, <3>4 DEF CacheWasMerged
    <3>. QED  BY <3>3, <3>5 DEF PackInv, FilesOK
  <2>2. ASSUME NEW n \in Names, load_pack(n)
        PROVE  PackInv'
    <3>1. /\ files' = files /\ cache' = [cache EXCEPT ![n] = merged_dict(files, n)]
          /\ changed' = changed
      BY <2>2 DEF load_pack
    <3>2. merged_dict(files, n) \in Dict
      BY <2>2, MergedDictType DEF load_pack, FilesOK, Merged
    <3>3. FilesOK' /\ PackTypeOK'
      BY <3>1, <3>2 DEF FilesOK, PackTypeOK
    <3>4. ASSUME NEW m \in Names, cache'[m] # Absent
          PROVE  \E fs \in FileTable : MergedFrom(m, fs)'
      <4>1. CASE m = n
        <5>1. /\ cache'[m] = merged_dict(files, m)
              /\ \A o \in Names \ changed' : files[o] # Absent => files'[o] = files[o]
          BY <2>0, <3>1, <4>1
        <5>. QED  BY <2>0, <5>1 DEF MergedFrom
      <4>2. CASE m # n
        <5>1. PICK fs \in FileTable : MergedFrom(m, fs)
          BY <2>0, <3>1, <3>4, <4>2 DEF CacheWasMerged
        <5>. QED  BY <2>0, <3>1, <4>2, <5>1 DEF MergedFrom
      <4>. QED  BY <4>1, <4>2
    <3>5. CacheWasMerged'
      BY <3>4 DEF CacheWasMerged
    <3>. QED  BY <3>3, <3>5 DEF PackInv
  <2>3. CASE PackRestart
    BY <2>0, <2>3 DEF PackRestart, PackInv, FilesOK, PackTypeOK, CacheWasMerged
  <2>4. CASE UNCHANGED packVars
    BY <2>4 DEF packVars, PackInv, FilesOK, PackTypeOK, CacheWasMerged, MergedFrom
  <2>. QED  BY <2>1, <2>2, <2>3, <2>4 DEF PackNext
<1>. QED  BY <1>1, <1>2, PTL DEF PackSpec

(* load_pack caches packs and never an exception.                             *)
THEOREM PacksTypeCorrect == PackSpec => []PackTypeOK
BY PackInvariant, PTL DEF PackInv

(* What is cached of packs that were not changed is what they merge to.       *)
LEMMA UntouchedIsCurrent ==
  ASSUME PackInv, NEW n \in Names, NEW S \in SUBSET Names, n \in S, Untouched(S),
         cache[n] # Absent
  PROVE  cache[n] = merged_dict(files, n)
<1>1. PICK fs \in FileTable : MergedFrom(n, fs)
  BY DEF PackInv, CacheWasMerged
<1>2. files \in FileTable /\ cache[n] \in Dict
  BY DEF PackInv, FilesOK, PackTypeOK
<1>3. Same(fs, files, S)
  <2>1. ASSUME NEW m \in S, fs[m] # Absent, NEW j \in 1..Len(Layers(fs[m]))
        PROVE  files[m] = fs[m] /\ Layers(fs[m])[j] \in S
    <3>1. m \in Names \ changed
      BY DEF Untouched
    <3>2. files[m] = fs[m] /\ fs[m] \in PackFile
      BY <1>1, <2>1, <3>1 DEF MergedFrom, FileTable
    <3>3. LayersOf(m) = Layers(fs[m])
      BY <2>1, <3>2 DEF LayersOf
    <3>4. IsLayer(Layers(fs[m])[j], m)
      BY <3>3 DEF IsLayer
    <3>5. Layers(fs[m])[j] \in ToSet(LayersOf(m))
      BY <3>1, <3>4, LayersOfAreNames DEF PackInv
    <3>. QED  BY <3>2, <3>5 DEF Untouched
  <2>2. ASSUME NEW m \in S, fs[m] # Absent
        PROVE  files[m] = fs[m]
    BY <1>1, <2>2 DEF MergedFrom, Untouched
  <2>. QED  BY <2>1, <2>2 DEF Same
<1>4. merged_dict(fs, n) # Failed /\ cache[n] = merged_dict(fs, n)
  BY <1>1, <1>2, PackAssumption DEF MergedFrom
<1>. QED  BY <1>2, <1>3, <1>4, OtherFilesKeepPacks

(* _merged_cache is never invalidated: what load_pack answers from it is what *)
(* the files say now as long as neither the pack nor any that it refers to    *)
(* was edited or removed since the process started, whatever else was, and    *)
(* whatever was added.                                                        *)
THEOREM StaleOnlyAfterEdits == PackSpec => []StaleOnlyIfChanged
<1>1. PackInv => StaleOnlyIfChanged
  BY UntouchedIsCurrent, PackAssumption DEF StaleOnlyIfChanged, load_answer, loaded,
     merged_dict, model_validate
<1>. QED  BY <1>1, PackInvariant, PTL

(* For any packs, depth and files: load_pack raises for a circle, for too     *)
(* deep a chain, for a missing file, for strict imports that disagree and for *)
(* what is no PolicyPack, and for nothing else.                               *)
THEOREM SoundPacksLoad == PackSpec => []LoadsExactlySoundPacks
<1>1. PackInv => LoadsExactlySoundPacks
  BY LoadsSound DEF PackInv
<1>. QED  BY <1>1, PackInvariant, PTL

(* For any packs, depth and files: each key of a pack that load_pack answers, *)
(* from its cache or not, is the one that the last of its layers to have it,  *)
(* through all levels, has written, unless one was changed since.             *)
THEOREM LaterLayersWin == PackSpec => []LastWriterWins
<1>1. PackInv => LastWriterWins
  <2> SUFFICES ASSUME PackInv, NEW n \in Names, NEW S \in SUBSET Names, n \in S,
                      Untouched(S), load_answer(n) # Failed, NEW k \in Keys
               PROVE  load_answer(n)[k] = LastWriter(n, k)
    BY DEF LastWriterWins
  <2> DEFINE d == merged_dict(files, n)
  <2>1. load_answer(n) = model_validate(d)
    BY UntouchedIsCurrent, PackAssumption DEF load_answer, loaded, merged_dict, model_validate
  <2>2. d # Failed /\ d["import"] = Absent /\ model_validate(d) = d
    <3> HIDE DEF d
    <3>. QED  BY <2>1 DEF model_validate
  <2>3. d[k] = LastWriter(n, k)
    BY <2>2, MergedSays DEF PackInv
  <2>. QED  BY <2>1, <2>2, <2>3
<1>. QED  BY <1>1, PackInvariant, PTL

(* For any packs, depth and files: reversing the imports of a strict pack     *)
(* changes neither whether it can be merged nor any of its flags.             *)
THEOREM StrictOrderIsFree == PackSpec => []StrictFlagsCommute
<1>1. FilesOK => StrictFlagsCommute
  <2> SUFFICES ASSUME files \in FileTable, NEW n \in Names,
                      files[n] # Absent, files[n].strict
               PROVE  SameFlags(merged_dict(files, n),
                                merged_dict([files EXCEPT ![n].import = Reverse(@)], n))
    BY DEF FilesOK, StrictFlagsCommute, SameFlags
  <2> DEFINE other == [files[n] EXCEPT !.import = Reverse(@)]
  <2>1. files[n] \in PackFile
    BY DEF FileTable
  <2>2. [files EXCEPT ![n].import = Reverse(@)] = [files EXCEPT ![n] = other]
    OBVIOUS
  <2>3. other = [files[n] EXCEPT !.import = Reverse(@)]
    OBVIOUS
  <2> HIDE DEF other
  <2>4. /\ other \in PackFile /\ other.strict /\ other.body = files[n].body
        /\ Covers(Layers(files[n]), Len(Layers(files[n])), Layers(other), Len(Layers(other)))
        /\ Covers(Layers(other), Len(Layers(other)), Layers(files[n]), Len(Layers(files[n])))
    BY <2>1, <2>3, ReversedLayers
  <2>5. SameFlags(merged_dict([files EXCEPT ![n] = other], n), merged_dict(files, n))
    BY <2>4, StrictLayersAreASet
  <2>. QED  BY <2>2, <2>5 DEF SameFlags
<1>. QED  BY <1>1, PackInvariant, PTL DEF PackInv

-----------------------------------------------------------------------------
(* Deployments                                                                *)

(* The environment is read, never written: what is built and reported from it *)
(* is the same before and after each step.                                    *)
LEMMA EnvironmentIsRead ==
  ASSUME [Next]_vars
  PROVE  UNCHANGED <<env, doubles>>
<1>1. ASSUME NEW g \in Gateways, Start(g) \/ Stop(g) \/ CheckpointAndPost(g)
      PROVE  UNCHANGED <<env, doubles>>
  BY <1>1 DEF Start, Stop, CheckpointAndPost
<1>2. ASSUME NEW g \in Gateways, NEW decision, decide_review(g, decision)
      PROVE  UNCHANGED <<env, doubles>>
  BY <1>2 DEF decide_review
<1>3. ASSUME DatabaseGoes \/ DatabaseComes
      PROVE  UNCHANGED <<env, doubles>>
  BY <1>3 DEF DatabaseGoes, DatabaseComes
<1>4. CASE UNCHANGED vars
  BY <1>4 DEF vars
<1>. QED  BY <1>1, <1>2, <1>3, <1>4 DEF Next

(* A write to Postgres leaves there one of the records that may be in force,  *)
(* whether it is answered or raises, before its commit or after it.           *)
LEMMA WritesAreAmongLatest ==
  ASSUME NEW g, NEW rec, Write(g, rec) \/ WriteRaises(rec),
         review_store = "postgres", db \in latest
  PROVE  db' \in latest'
<1>1. CASE Write(g, rec)
  BY <1>1 DEF Write
<1>2. CASE WriteRaises(rec)
  BY <1>2 DEF WriteRaises
<1>. QED  BY <1>1, <1>2

LEMMA InitInv == Init => DeployInv
BY DEF Init, DeployInv, StartedSoundly

LEMMA NextKeepsInv == DeployInv /\ [Next]_vars => DeployInv'
<1> SUFFICES ASSUME DeployInv, [Next]_vars PROVE DeployInv'
  OBVIOUS
<1>1. UNCHANGED <<env, doubles>>
  BY EnvironmentIsRead
<1>2. (env \in Settings)' /\ (production => doubles = {})'
  BY <1>1 DEF DeployInv, production
<1>3. UNCHANGED <<assert_production_state, review_store, ReviewUri, get_checkpointer>>
  BY <1>1 DEF assert_production_state, review_store, ReviewUri, get_checkpointer,
              literally_production
<1>4. StartedSoundly'
  <2>1. ASSUME NEW g \in Gateways, Start(g)
        PROVE  StartedSoundly'
    BY <1>3, <2>1 DEF Start, StartedSoundly
  <2>2. ASSUME up' \subseteq up
        PROVE  StartedSoundly'
    BY <1>3, <2>2 DEF DeployInv, StartedSoundly
  <2>3. ASSUME NEW g \in Gateways, Stop(g) \/ CheckpointAndPost(g)
        PROVE  up' \subseteq up
    BY <2>3 DEF Stop, CheckpointAndPost
  <2>4. ASSUME NEW g \in Gateways, NEW decision, decide_review(g, decision)
        PROVE  up' \subseteq up
    BY <2>4 DEF decide_review
  <2>5. ASSUME DatabaseGoes \/ DatabaseComes \/ UNCHANGED vars
        PROVE  up' \subseteq up
    BY <2>5 DEF DatabaseGoes, DatabaseComes, vars
  <2>. QED  BY <2>1, <2>2, <2>3, <2>4, <2>5 DEF Next
<1>5. (review_store = "postgres" => db \in latest)'
  <2> SUFFICES ASSUME review_store = "postgres" PROVE db' \in latest'
    BY <1>3
  <2>1. db \in latest
    BY DEF DeployInv
  <2>2. ASSUME NEW g \in Gateways, CheckpointAndPost(g)
        PROVE  db' \in latest'
    <3>1. Write(g, Posted) \/ WriteRaises(Posted)
      BY <2>2 DEF CheckpointAndPost
    <3>. QED  BY <2>1, <3>1, WritesAreAmongLatest
  <2>3. ASSUME NEW g \in Gateways, NEW decision, decide_review(g, decision)
        PROVE  db' \in latest'
    <3>1. \E rec : Write(g, rec) \/ WriteRaises(rec)
      BY <2>3 DEF decide_review
    <3>. QED  BY <2>1, <3>1, WritesAreAmongLatest
  <2>4. ASSUME NEW g \in Gateways, Start(g) \/ Stop(g)
        PROVE  db' \in latest'
    BY <2>1, <2>4 DEF Start, Stop
  <2>5. ASSUME DatabaseGoes \/ DatabaseComes \/ UNCHANGED vars
        PROVE  db' \in latest'
    BY <2>1, <2>5 DEF DatabaseGoes, DatabaseComes, vars
  <2>. QED  BY <2>2, <2>3, <2>4, <2>5 DEF Next
<1>6. (get_checkpointer = "postgres" => (waiting => saved))'
  <2> SUFFICES ASSUME get_checkpointer = "postgres" PROVE waiting' => saved'
    BY <1>3
  <2>1. waiting => saved
    BY DEF DeployInv
  <2>2. ASSUME NEW g \in Gateways, CheckpointAndPost(g)
        PROVE  saved'
    BY <2>2 DEF CheckpointAndPost
  <2>3. ASSUME NEW g \in Gateways, Start(g) \/ Stop(g)
        PROVE  UNCHANGED <<waiting, saved>>
    BY <2>3 DEF Start, Stop
  <2>4. ASSUME NEW g \in Gateways, NEW decision, decide_review(g, decision)
        PROVE  UNCHANGED <<waiting, saved>>
    BY <2>4 DEF decide_review
  <2>5. ASSUME DatabaseGoes \/ DatabaseComes \/ UNCHANGED vars
        PROVE  UNCHANGED <<waiting, saved>>
    BY <2>5 DEF DatabaseGoes, DatabaseComes, vars
  <2>. QED  BY <2>1, <2>2, <2>3, <2>4, <2>5 DEF Next
<1>. QED  BY <1>2, <1>4, <1>5, <1>6 DEF DeployInv

(* Behind the three theorems below: running gateways passed the startup       *)
(* assertion, and Postgres holds one of the latest records.                   *)
THEOREM DeployInvariant == Spec => []DeployInv
<1>. QED  BY InitInv, NextKeepsInv, PTL DEF Spec

----------------------------------------------------------------------------
(* Readings of the environment that agree where the report is good.           *)

LEMMA ReportedStoreIsBuilt ==
  ASSUME capability_snapshot.review_store = "postgres"
  PROVE  review_store = "postgres"
BY DEF capability_snapshot, review_store, ReviewUri

(* A store with a usable URI is reported.                                     *)
LEMMA BuiltStoreIsReported ==
  ASSUME review_store = "postgres", ReviewUri = "db"
  PROVE  capability_snapshot.review_store = "postgres"
BY DEF capability_snapshot, review_store, ReviewUri

(* What a running gateway of a literal production environment is built from.  *)
LEMMA ProductionAudits ==
  ASSUME DeployInv, up # {}, literally_production
  PROVE  axiom_auditor = "real"
<1>1. env.OBR_USE_REAL_AXIOM_AUDIT # ""
  BY DEF DeployInv, StartedSoundly, assert_production_state
<1>2. doubles = {}
  BY DEF DeployInv, production, literally_production
<1>. QED  BY <1>1, <1>2 DEF axiom_auditor, Mode

(* What readiness and capabilities promise is there (routes_health.py,        *)
(* capabilities.py against deps.py).                                          *)
THEOREM ReportsAreKept == Spec => []ReadyMeansServing
<1>1. ASSUME DeployInv, up # {}
      PROVE  /\ ready /\ review_store = "postgres" => dbUp /\ ReviewUri = "db"
             /\ capability_snapshot.lean_interactive # "unconfigured" =>
                  lean_transport # "unconfigured"
             /\ capability_snapshot.axiom_audit # "unconfigured" =>
                  axiom_auditor = capability_snapshot.axiom_audit
             /\ capability_snapshot.fresh_checker # "unconfigured" =>
                  fresh_checker = capability_snapshot.fresh_checker
             /\ literally_production => axiom_auditor = "real"
  <2>1. ready /\ review_store = "postgres" => dbUp /\ ReviewUri = "db"
    BY <1>1, BuiltStoreIsReported DEF DeployInv, StartedSoundly, ready
  <2>2. capability_snapshot.lean_interactive # "unconfigured" => lean_transport # "unconfigured"
    BY DEF capability_snapshot, lean_transport, LeanMode, env_truthy
  <2>3. capability_snapshot.axiom_audit # "unconfigured" =>
          axiom_auditor = capability_snapshot.axiom_audit
    BY DEF capability_snapshot, axiom_auditor, Mode, env_truthy
  <2>4. capability_snapshot.fresh_checker # "unconfigured" =>
          fresh_checker = capability_snapshot.fresh_checker
    BY DEF capability_snapshot, fresh_checker, Mode, env_truthy
  <2>. QED  BY <1>1, <2>1, <2>2, <2>3, <2>4, ProductionAudits
<1>2. DeployInv => ReadyMeansServing
  BY <1>1 DEF ReadyMeansServing
<1>. QED  BY <1>2, DeployInvariant, PTL

(* What apply_acceptance_strict lets stand rests on both real tools, and what *)
(* the auditor's double says carries its blocking reason.                     *)
LEMMA AnswersShowEvidence ==
  ASSUME NEW axiomReal \in BOOLEAN, NEW freshReal \in BOOLEAN, NEW strict \in BOOLEAN,
         NEW answer \in batch_verify_answers(axiomReal, freshReal, strict), answer.ok
  PROVE  /\ answer.axiom_evidence_real \/ answer.axiom_audit.blocked_reasons # {}
         /\ strict => answer.axiom_evidence_real /\ answer.fresh_evidence_real
<1>1. PICK build \in BuildRunner_run,
           audit \in IF axiomReal THEN AxiomAuditorReal_run ELSE AxiomAuditor_run,
           fresh \in IF freshReal THEN FreshCheckerReal_run ELSE FreshChecker_run :
        answer = LET combined == combine_batch_results(build, audit, fresh, axiomReal, freshReal)
                 IN IF strict THEN apply_acceptance_strict(combined) ELSE combined
  BY DEF batch_verify_answers
<1> DEFINE combined == combine_batch_results(build, audit, fresh, axiomReal, freshReal)
<1>2. /\ combined = [ok |-> build /\ audit.ok /\ fresh /\ audit.trust_level # "blocked",
                     build |-> build, axiom_audit |-> audit, fresh_checker |-> fresh,
                     trust_level |-> audit.trust_level,
                     axiom_evidence_real |-> axiomReal, fresh_evidence_real |-> freshReal]
      /\ combined.axiom_evidence_real = axiomReal /\ combined.fresh_evidence_real = freshReal
      /\ combined.axiom_audit = audit
  BY DEF combine_batch_results
<1>3. answer = IF strict THEN apply_acceptance_strict(combined) ELSE combined
  BY <1>1
<1> HIDE DEF combined
<1>4. strict => axiomReal /\ freshReal
  <2> SUFFICES ASSUME strict, ~(axiomReal /\ freshReal) PROVE FALSE
    OBVIOUS
  <2>1. answer = [combined EXCEPT !.ok = FALSE, !.trust_level = "blocked"]
    BY <1>2, <1>3 DEF apply_acceptance_strict
  <2>2. answer.ok = FALSE
    BY <1>2, <2>1
  <2>. QED  BY <2>2
<1>5. answer = combined
  BY <1>2, <1>3, <1>4 DEF apply_acceptance_strict
<1>6. ~axiomReal => audit.blocked_reasons # {}
  BY <1>1 DEF AxiomAuditor_run
<1>. QED  BY <1>2, <1>4, <1>5, <1>6

(* In production, or where strict acceptance is set, no batch is ok without   *)
(* the real auditor and checker (routes_batch.py, apply_acceptance_strict).   *)
THEOREM EvidenceIsReal == Spec => []StrictNeedsRealEvidence
<1>1. ASSUME NEW answer \in batch_verify, answer.ok
      PROVE  /\ answer.axiom_evidence_real \/ answer.axiom_audit.blocked_reasons # {}
             /\ (literally_production \/ env_truthy(env.OBR_ACCEPTANCE_STRICT)) =>
                  answer.axiom_evidence_real /\ answer.fresh_evidence_real
  <2>1. answer \in batch_verify_answers(axiom_auditor = "real", fresh_checker = "real",
                     env_truthy(env.OBR_ACCEPTANCE_STRICT) \/ literally_production)
    BY DEF batch_verify
  <2>2. (axiom_auditor = "real") \in BOOLEAN /\ (fresh_checker = "real") \in BOOLEAN
        /\ (env_truthy(env.OBR_ACCEPTANCE_STRICT) \/ literally_production) \in BOOLEAN
    OBVIOUS
  <2>. QED  BY <1>1, <2>1, <2>2, AnswersShowEvidence
<1>2. StrictNeedsRealEvidence
  BY <1>1 DEF StrictNeedsRealEvidence
<1>. QED  BY <1>2, PTL

(* Where Postgres is reported, every running gateway reads one of the latest  *)
(* records there, and the run that waits is saved.                            *)
THEOREM StateIsKept == Spec => []StateSurvives
<1>1. DeployInv => StateSurvives
  <2> SUFFICES ASSUME DeployInv PROVE StateSurvives
    OBVIOUS
  <2>1. ASSUME capability_snapshot.review_store = "postgres", NEW g \in up
        PROVE  Held(g) \in latest
    BY <2>1, ReportedStoreIsBuilt DEF DeployInv, Held
  <2>2. checkpointer_kind = "postgres" => (waiting => saved)
    BY DEF DeployInv, checkpointer_kind, get_checkpointer
  <2>. QED  BY <2>1, <2>2 DEF StateSurvives
<1>. QED  BY <1>1, DeployInvariant, PTL
=============================================================================
