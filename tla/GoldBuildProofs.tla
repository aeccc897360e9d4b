-------------------------- MODULE GoldBuildProofs --------------------------
(***************************************************************************)
(* Proofs about what a Gold build does to the Gold lake: the publication   *)
(* of one set of artifacts (GoldPublication) and the versions, retention   *)
(* and results of whole commands (GoldRetention), for any values of their  *)
(* constants.  The two specifications share no variable; what concerns     *)
(* the second carries the prefix Retention where the names would clash.    *)
(***************************************************************************)
EXTENDS GoldPublication, GoldRetention, NumberLemmas

-----------------------------------------------------------------------------
(* Publication.  The inductive invariant says, for every phase of a        *)
(* publication and every artifact, which of its paths hold the old, the    *)
(* new or no file.                                                         *)
USE BoundsAssumption

AllNew == \A a \in Artifacts : Pair(a) = <<build, build>>
AllOld == \A a \in Artifacts : Pair(a) = before[a]

\* Nothing of the artifact has been moved.
InPlace(a) ==
    /\ files[a]["parquet"] = before[a][1] /\ files[a]["manifest"] = before[a][2]
    /\ files[a]["previousParquet"] = 0 /\ files[a]["previousManifest"] = 0

KnowsHad(a) == /\ "parquet" \in had[a] <=> before[a][1] # 0
               /\ "manifest" \in had[a] <=> before[a][2] # 0

\* The artifact's files when operation m of its swap is the next; 5 = swapped.
SwappedUpTo(a, m) ==
    /\ files[a]["parquet"] = IF m = 1 THEN before[a][1] ELSE IF m <= 3 THEN 0 ELSE build
    /\ files[a]["manifest"] = IF m <= 2 THEN before[a][2] ELSE IF m <= 4 THEN 0 ELSE build
    /\ files[a]["previousParquet"] = IF m = 1 THEN 0 ELSE before[a][1]
    /\ files[a]["previousManifest"] = IF m <= 2 THEN 0 ELSE before[a][2]
    /\ m <= 3 => files[a]["stagedParquet"] = build
    /\ m <= 4 => files[a]["stagedManifest"] = build

\* The old file is at its path or aside.
Recoverable(a, i, s, previous) ==
    /\ files[a][previous] \in {0, before[a][i]}
    /\ files[a][previous] = 0 /\ before[a][i] # 0 => files[a][s] = before[a][i]

Staging ==
    /\ move \in 1..2 /\ outcome = "none"
    /\ \A a \in Artifacts : InPlace(a)
    /\ \A a \in Artifacts : a < at => SwappedUpTo(a, 1) /\ KnowsHad(a)
    /\ move = 2 => files[at]["stagedParquet"] = build

Swapping ==
    /\ outcome = "none"
    /\ \A a \in Artifacts : KnowsHad(a)
    /\ \A a \in Artifacts : a < at => SwappedUpTo(a, 5)
    /\ \A a \in Artifacts : a > at => SwappedUpTo(a, 1)
    /\ SwappedUpTo(at, move)

RollingBack ==
    /\ move \in 1..2 /\ outcome = "raised" /\ errors # 0
    /\ \A a \in Artifacts : KnowsHad(a)
    /\ \A a \in Artifacts : a < at => InPlace(a)
    /\ \A a \in Artifacts : a >= at => /\ Recoverable(a, 1, "parquet", "previousParquet")
                                       /\ Recoverable(a, 2, "manifest", "previousManifest")
    /\ move = 2 => files[at]["parquet"] = before[at][1] /\ files[at]["previousParquet"] = 0

\* What the publication has come to, once nothing but temporary files is touched.
Settled == /\ recovery = "whole" => AllNew \/ AllOld
           /\ outcome = "published" => AllNew

Clean(a) == \A s \in Temporary : files[a][s] = 0

Cleaning ==
    /\ move \in 1..4 /\ Settled /\ outcome # "none"
    /\ \A a \in Artifacts : a < at => Clean(a)
    /\ \A i \in 1..4 : i < move => files[at][CleanupOrder[i]] = 0

Idle ==
    /\ at = 1 /\ move = 1
    /\ \A a \in Artifacts : Clean(a)
    /\ outcome # "killed" => Settled
    /\ FaultsLoseNothing

PublicationIInv ==
    /\ TypeOK
    /\ pc # "idle" => build # 0
    /\ pc = "idle" => Idle
    /\ pc = "stage" => Staging
    /\ pc = "swap" => Swapping
    /\ pc = "rollback" => RollingBack
    /\ pc = "cleanup" => Cleaning
    /\ NoMixedPair
-----------------------------------------------------------------------------
(* Type correctness.                                                       *)

FilesType == [Artifacts -> [Slots -> 0..MaxBuilds]]

\* What a rename does to the slots of its artifact.
LEMMA RenamedSlots ==
    ASSUME files \in FilesType, NEW a \in Artifacts,
           NEW from \in Slots, NEW to \in Slots, from # to
    PROVE  /\ Rename(a, from, to) \in FilesType
           /\ Rename(a, from, to)[a][to] = files[a][from]
           /\ Rename(a, from, to)[a][from] = 0
           /\ \A s \in Slots \ {from, to} : Rename(a, from, to)[a][s] = files[a][s]
           /\ \A b \in Artifacts \ {a} : Rename(a, from, to)[b] = files[b]
BY DEF Rename, FilesType

\* What writing or unlinking a file does.
LEMMA PutSlot ==
    ASSUME files \in FilesType, NEW a \in Artifacts, NEW s \in Slots, NEW c \in 0..MaxBuilds,
           Put(a, s, c)
    PROVE  /\ files' \in FilesType
           /\ files'[a][s] = c
           /\ \A t \in Slots \ {s} : files'[a][t] = files[a][t]
           /\ \A b \in Artifacts \ {a} : files'[b] = files[b]
BY DEF Put, FilesType

\* What is left when a command gives up its temporary files.
LEMMA AbandonedSlots ==
    ASSUME files \in FilesType, orphans \subseteq Artifacts \X Temporary \X (0..MaxBuilds), Abandon
    PROVE  /\ files' \in FilesType
           /\ \A a \in Artifacts, s \in Slots :
                files'[a][s] = IF s \in Temporary THEN 0 ELSE files[a][s]
           /\ orphans' \subseteq Artifacts \X Temporary \X (0..MaxBuilds)
           /\ \A a \in Artifacts, s \in Temporary : <<a, s, files[a][s]>> \in orphans'
           /\ pc' = "idle" /\ at' = 1 /\ move' = 1
<1>1. files' \in FilesType
  BY DEF Abandon, FilesType
<1>2. orphans' \subseteq Artifacts \X Temporary \X (0..MaxBuilds)
  BY DEF Abandon, FilesType, Temporary
<1> QED BY <1>1, <1>2 DEF Abandon, Goto

LEMMA NextArtifactControl ==
    ASSUME at \in Artifacts, NEW point, NEW after, NextArtifact(point, after)
    PROVE  /\ at' \in Artifacts /\ move' = 1
           /\ at < Siblings => pc' = point /\ at' = at + 1
           /\ ~(at < Siblings) => pc' = after /\ at' = 1 /\ at = Siblings
BY DEF NextArtifact, Goto, Artifacts

\* The next build's number is one that is in use.
LEMMA NextBuild ==
    ASSUME TypeOK
    PROVE  (build % MaxBuilds) + 1 \in 1..MaxBuilds
BY DEF TypeOK

LEMMA InitTypeOK == Init => TypeOK
BY DEF Init, TypeOK, Artifacts, Slots

LEMMA TypeOKNext == TypeOK /\ [Next]_vars => TypeOK'
<1> SUFFICES ASSUME TypeOK, [Next]_vars PROVE TypeOK'
  OBVIOUS
<1>0. /\ files \in FilesType /\ at \in Artifacts /\ 1 \in Artifacts
      /\ build \in 0..MaxBuilds /\ 0 \in 0..MaxBuilds
  BY DEF TypeOK, FilesType, Artifacts
<1>1. CASE Begin
  <2>1. before' \in [Artifacts -> (0..MaxBuilds) \X (0..MaxBuilds)]
    BY <1>1, <1>0 DEF Begin, Pair, Slots, FilesType
  <2>2. build' \in 0..MaxBuilds
    BY <1>1, NextBuild DEF Begin
  <2>3. had' \in [Artifacts -> SUBSET {"parquet", "manifest"}]
    BY <1>1 DEF Begin
  <2> QED BY <1>1, <1>0, <2>1, <2>2, <2>3 DEF Begin, Goto, bounds, TypeOK
<1>2. CASE Stage
  <2>1. files' \in FilesType
    BY <1>2, <1>0, PutSlot DEF Stage, Slots
  <2>2. had' \in [Artifacts -> SUBSET {"parquet", "manifest"}]
    BY <1>2, <1>0 DEF Stage, TypeOK
  <2>3. pc' \in {"stage", "swap"} /\ at' \in Artifacts /\ move' \in 1..5
    BY <1>2, <1>0, NextArtifactControl DEF Stage, Goto
  <2> QED BY <1>2, <2>1, <2>2, <2>3 DEF Stage, bounds, TypeOK, FilesType
<1>3. CASE Swap
  <2>1. files' \in FilesType
    BY <1>3, <1>0, RenamedSlots DEF Swap, SwapMoves, Slots, TypeOK
  <2> QED BY <1>3, <2>1 DEF Swap, Goto, bounds, TypeOK, FilesType
<1>4. CASE Validate
  <2>1. pc' \in {"swap", "cleanup", "rollback"} /\ at' \in Artifacts /\ move' \in 1..5
    BY <1>4, <1>0, NextArtifactControl DEF Validate, Goto
  <2>2. outcome' \in {"none", "published", "raised", "interrupted", "killed"}
    BY <1>4 DEF Validate, TypeOK
  <2> QED BY <1>4, <2>1, <2>2 DEF Validate, bounds, TypeOK
<1>5. CASE Rollback
  <2>1. files' \in FilesType
    <3>1. ASSUME NEW s \in {"parquet", "manifest"}, NEW previous \in Temporary
          PROVE  Restored(at, s, previous) \in FilesType
      BY <1>0, <3>1, RenamedSlots DEF Restored, Slots, Temporary, FilesType
    <3> QED BY <1>5, <3>1 DEF Rollback, Temporary, Slots
  <2>2. pc' \in {"rollback", "cleanup"} /\ at' \in Artifacts /\ move' \in 1..5
    BY <1>5, <1>0, NextArtifactControl DEF Rollback, Goto
  <2> QED BY <1>5, <2>1, <2>2 DEF Rollback, bounds, TypeOK, FilesType
<1>6. CASE Cleanup
  <2>1. files' \in FilesType
    BY <1>6, <1>0 DEF Cleanup, Put, FilesType
  <2>2. pc' \in {"cleanup", "idle"} /\ at' \in Artifacts /\ move' \in 1..5
    BY <1>6, <1>0, NextArtifactControl DEF Cleanup, Goto, TypeOK
  <2> QED BY <1>6, <2>1, <2>2 DEF Cleanup, bounds, TypeOK, FilesType
<1>7. ASSUME Abandon
      PROVE  /\ files' \in FilesType /\ orphans' \subseteq Artifacts \X Temporary \X (0..MaxBuilds)
             /\ pc' = "idle" /\ at' = 1 /\ move' = 1
  BY <1>7, <1>0, AbandonedSlots DEF TypeOK
<1>8. CASE Error
  <2>1. /\ files' \in FilesType /\ orphans' \subseteq Artifacts \X Temporary \X (0..MaxBuilds)
        /\ pc' \in {"idle", "rollback", "cleanup"} /\ at' = 1 /\ move' = 1
    BY <1>7, <1>8, <1>0 DEF Error, Goto, TypeOK
  <2>2. errors' \in 0..MaxErrors /\ outcome' \in {"interrupted", "raised"} /\ recovery' \in {"whole", "cut"}
    BY <1>8 DEF Error, TypeOK
  <2> QED BY <1>8, <1>0, <2>1, <2>2 DEF Error, TypeOK, FilesType
<1>9. CASE Interrupt
  <2>1. /\ files' \in FilesType /\ orphans' \subseteq Artifacts \X Temporary \X (0..MaxBuilds)
        /\ pc' \in {"idle", "cleanup"} /\ at' = 1 /\ move' = 1
    BY <1>7, <1>9, <1>0 DEF Interrupt, Goto, TypeOK
  <2>2. interrupts' \in 0..MaxInterrupts /\ recovery' \in {"whole", "cut"}
    BY <1>9 DEF Interrupt, TypeOK
  <2> QED BY <1>9, <1>0, <2>1, <2>2 DEF Interrupt, TypeOK, FilesType
<1>10. CASE Kill
  BY <1>7, <1>10, <1>0 DEF Kill, TypeOK, FilesType
<1>11. CASE UNCHANGED vars
  BY <1>11 DEF vars, bounds, TypeOK
<1> QED BY <1>1, <1>2, <1>3, <1>4, <1>5, <1>6, <1>8, <1>9, <1>10, <1>11 DEF Next, Step

\* Type correctness: the paths of the publication hold what its phase may put there.
THEOREM PublicationTypeCorrectness == Spec => []TypeOK
BY InitTypeOK, TypeOKNext, PTL DEF Spec

-----------------------------------------------------------------------------
(* The invariant, action by action.                                        *)

\* The files under their final names are left alone.
PairsKept ==
    \A a \in Artifacts : /\ files'[a]["parquet"] = files[a]["parquet"]
                         /\ files'[a]["manifest"] = files[a]["manifest"]

LEMMA PairsKeptNoMixed ==
    ASSUME NoMixedPair, PairsKept, errors' = 0 => errors = 0
    PROVE  NoMixedPair'
BY DEF NoMixedPair, PairsKept, Exists, Certified, Pair

LEMMA PairsKeptSettled ==
    ASSUME Settled, PairsKept, UNCHANGED <<before, build>>,
           recovery' = "whole" => recovery = "whole",
           outcome' = "published" => outcome = "published"
    PROVE  Settled'
BY DEF Settled, PairsKept, AllNew, AllOld, Pair

\* A publication that has come to an end has lost nothing.
LEMMA SettledLosesNothing ==
    ASSUME Settled
    PROVE  FaultsLoseNothing
BY DEF Settled, FaultsLoseNothing, NothingLost, Kept, AllNew, AllOld, Pair

\* At any point the old pairs are on disk.
LEMMA NothingLostYet == PublicationIInv => FaultsLoseNothing
<1> SUFFICES ASSUME PublicationIInv PROVE FaultsLoseNothing
  OBVIOUS
<1>1. CASE pc = "idle"
  BY <1>1 DEF PublicationIInv, Idle
<1>2. CASE pc = "stage"
  BY <1>2 DEF PublicationIInv, Staging, InPlace, FaultsLoseNothing, NothingLost, Kept
<1>3. CASE pc = "swap"
  <2>1. ASSUME NEW a \in Artifacts
        PROVE  Kept(a, 1, "parquet", "previousParquet") /\ Kept(a, 2, "manifest", "previousManifest")
    <3>1. SwappedUpTo(a, 1) \/ SwappedUpTo(a, 5) \/ SwappedUpTo(a, move)
      BY <1>3 DEF PublicationIInv, Swapping, TypeOK, Artifacts
    <3> QED BY <3>1 DEF SwappedUpTo, Kept
  <2> QED BY <2>1 DEF FaultsLoseNothing, NothingLost
<1>4. CASE pc = "rollback"
  <2>1. ASSUME NEW a \in Artifacts, Certified(before[a])
        PROVE  Kept(a, 1, "parquet", "previousParquet") /\ Kept(a, 2, "manifest", "previousManifest")
    <3>1. InPlace(a) \/ (Recoverable(a, 1, "parquet", "previousParquet")
                         /\ Recoverable(a, 2, "manifest", "previousManifest"))
      BY <1>4 DEF PublicationIInv, RollingBack, TypeOK, Artifacts
    <3> QED BY <2>1, <3>1 DEF Certified, InPlace, Recoverable, Kept
  <2> QED BY <2>1 DEF FaultsLoseNothing, NothingLost
<1>5. CASE pc = "cleanup"
  BY <1>5, SettledLosesNothing DEF PublicationIInv, Cleaning
<1> QED BY <1>1, <1>2, <1>3, <1>4, <1>5 DEF PublicationIInv, TypeOK

LEMMA PublicationInitIInv == Init => PublicationIInv
<1> SUFFICES ASSUME Init PROVE PublicationIInv
  OBVIOUS
<1>1. Settled
  BY DEF Init, Settled, AllOld, Pair, Slots
<1>2. Idle
  BY <1>1, SettledLosesNothing DEF Init, Idle, Clean, Temporary
<1>3. NoMixedPair
  BY DEF Init, NoMixedPair, Exists, Slots
<1> QED BY <1>2, <1>3, InitTypeOK DEF Init, PublicationIInv

LEMMA BeginIInv == PublicationIInv /\ Begin => PublicationIInv'
<1> SUFFICES ASSUME PublicationIInv, Begin PROVE PublicationIInv'
  OBVIOUS
<1>1. TypeOK /\ TypeOK' /\ Idle
  BY TypeOKNext DEF Begin, PublicationIInv, Next
<1>2. pc' = "stage" /\ at' = 1 /\ move' = 1 /\ build' # 0 /\ files' = files /\ outcome' = "none"
  BY <1>1, NextBuild DEF Begin, Goto
<1>3. \A a \in Artifacts : InPlace(a)'
  BY <1>1, <1>2 DEF Begin, Idle, Clean, InPlace, Pair, Temporary, Slots
<1>4. Staging'
  BY <1>2, <1>3 DEF Staging, Artifacts
<1>5. NoMixedPair'
  BY <1>2, PairsKeptNoMixed DEF Begin, PublicationIInv, PairsKept, bounds
<1> QED BY <1>1, <1>2, <1>4, <1>5 DEF PublicationIInv

LEMMA StageIInv == PublicationIInv /\ Stage => PublicationIInv'
<1> SUFFICES ASSUME PublicationIInv, Stage PROVE PublicationIInv'
  OBVIOUS
<1>1. /\ TypeOK /\ TypeOK' /\ Staging /\ files \in FilesType /\ at \in Artifacts
      /\ build \in 0..MaxBuilds /\ build' = build /\ build # 0 /\ before' = before
      /\ errors' = errors /\ outcome' = "none"
  BY TypeOKNext DEF Stage, PublicationIInv, Next, Step, TypeOK, FilesType, bounds, Staging
<1>2. CASE move = 1
  <2>1. /\ files'[at]["stagedParquet"] = build
        /\ \A s \in Slots \ {"stagedParquet"} : files'[at][s] = files[at][s]
        /\ \A b \in Artifacts \ {at} : files'[b] = files[b]
    BY <1>1, <1>2, PutSlot DEF Stage, Slots
  <2>2. pc' = "stage" /\ at' = at /\ move' = 2 /\ had' = had
    BY <1>2 DEF Stage, Goto
  <2>3. PairsKept /\ \A a \in Artifacts : InPlace(a)'
    BY <1>1, <2>1 DEF Staging, InPlace, PairsKept, Slots
  <2>4. \A a \in Artifacts : a < at => SwappedUpTo(a, 1)' /\ KnowsHad(a)'
    BY <1>1, <2>1, <2>2 DEF Staging, SwappedUpTo, KnowsHad, Artifacts
  <2>5. Staging'
    BY <1>1, <2>1, <2>2, <2>3, <2>4 DEF Staging
  <2> QED BY <1>1, <2>2, <2>3, <2>5, PairsKeptNoMixed DEF PublicationIInv
<1>3. CASE move = 2
  <2>1. /\ files'[at]["stagedManifest"] = build
        /\ \A s \in Slots \ {"stagedManifest"} : files'[at][s] = files[at][s]
        /\ \A b \in Artifacts \ {at} : files'[b] = files[b]
    BY <1>1, <1>3, PutSlot DEF Stage, Slots
  <2>2. /\ had'[at] = {s \in {"parquet", "manifest"} : Exists(at, s)}
        /\ \A b \in Artifacts \ {at} : had'[b] = had[b]
    BY <1>1, <1>3 DEF Stage, TypeOK
  <2>3. PairsKept /\ \A a \in Artifacts : InPlace(a)'
    BY <1>1, <2>1 DEF Staging, InPlace, PairsKept, Slots
  <2>4. \A a \in Artifacts : a < at => SwappedUpTo(a, 1)' /\ KnowsHad(a)'
    BY <1>1, <2>1, <2>2 DEF Staging, SwappedUpTo, KnowsHad, Artifacts
  <2>5. \A a \in Artifacts : a = at => SwappedUpTo(a, 1)' /\ KnowsHad(a)'
    <3> SUFFICES ASSUME NEW a \in Artifacts, a = at PROVE SwappedUpTo(a, 1)' /\ KnowsHad(a)'
      OBVIOUS
    <3>1. SwappedUpTo(a, 1)'
      BY <1>1, <1>3, <2>1, <2>3 DEF Staging, InPlace, SwappedUpTo, Slots
    <3>2. KnowsHad(a)'
      BY <1>1, <2>2 DEF Staging, InPlace, KnowsHad, Exists
    <3> QED BY <3>1, <3>2
  <2>6. NextArtifact("stage", "swap")
    BY <1>3 DEF Stage
  <2>7. CASE at < Siblings
    <3>1. pc' = "stage" /\ at' = at + 1 /\ move' = 1
      BY <1>1, <2>6, <2>7, NextArtifactControl
    <3>2. \A a \in Artifacts : a < at' => SwappedUpTo(a, 1)' /\ KnowsHad(a)'
      BY <1>1, <2>4, <2>5, <3>1 DEF Artifacts
    <3>3. Staging'
      BY <1>1, <2>3, <3>1, <3>2 DEF Staging
    <3> QED BY <1>1, <2>3, <3>1, <3>3, PairsKeptNoMixed DEF PublicationIInv
  <2>8. CASE ~(at < Siblings)
    <3>1. pc' = "swap" /\ at' = 1 /\ move' = 1 /\ at = Siblings
      BY <1>1, <2>6, <2>8, NextArtifactControl
    <3>2. \A a \in Artifacts : SwappedUpTo(a, 1)' /\ KnowsHad(a)'
      BY <1>1, <2>4, <2>5, <3>1 DEF Artifacts
    <3>3. Swapping'
      BY <1>1, <3>1, <3>2 DEF Swapping, Artifacts
    <3> QED BY <1>1, <2>3, <3>1, <3>3, PairsKeptNoMixed DEF PublicationIInv
  <2> QED BY <2>7, <2>8
<1> QED BY <1>1, <1>2, <1>3 DEF Staging

\* One operation of the swap, on the artifact it works on.
LEMMA SwapAdvances ==
    ASSUME TypeOK, Swapping, Swap, NEW a \in Artifacts, a = at, NEW m \in 1..4, m = move
    PROVE  /\ SwappedUpTo(a, m + 1)'
           /\ \A b \in Artifacts \ {a} : files'[b] = files[b]
<1>1. /\ files \in FilesType /\ build' = build /\ before' = before
      /\ KnowsHad(a) /\ SwappedUpTo(a, m)
  BY DEF TypeOK, FilesType, Swap, Swapping
<1>2. CASE m = 1
  <2>1. files' = IF "parquet" \in had[a] THEN Rename(a, "parquet", "previousParquet") ELSE files
    BY <1>2 DEF Swap, SwapMoves
  <2> QED BY <1>1, <1>2, <2>1, RenamedSlots DEF SwappedUpTo, KnowsHad, Slots
<1>3. CASE m = 2
  <2>1. files' = IF "manifest" \in had[a] THEN Rename(a, "manifest", "previousManifest") ELSE files
    BY <1>3 DEF Swap, SwapMoves
  <2> QED BY <1>1, <1>3, <2>1, RenamedSlots DEF SwappedUpTo, KnowsHad, Slots
<1>4. CASE m = 3
  <2>1. files' = Rename(a, "stagedParquet", "parquet")
    BY <1>4 DEF Swap, SwapMoves
  <2> QED BY <1>1, <1>4, <2>1, RenamedSlots DEF SwappedUpTo, Slots
<1>5. CASE m = 4
  <2>1. files' = Rename(a, "stagedManifest", "manifest")
    BY <1>5 DEF Swap, SwapMoves
  <2> QED BY <1>1, <1>5, <2>1, RenamedSlots DEF SwappedUpTo, Slots
<1> QED BY <1>2, <1>3, <1>4, <1>5

LEMMA SwapIInv == PublicationIInv /\ Swap => PublicationIInv'
<1> SUFFICES ASSUME PublicationIInv, Swap PROVE PublicationIInv'
  OBVIOUS
<1>1. /\ TypeOK /\ TypeOK' /\ Swapping /\ at \in Artifacts /\ move \in 1..4
      /\ build' = build /\ build # 0 /\ before' = before /\ had' = had
      /\ errors' = errors /\ outcome' = "none"
      /\ pc' = "swap" /\ at' = at /\ move' = move + 1
  BY TypeOKNext DEF Swap, PublicationIInv, Next, Step, TypeOK, bounds, Swapping, Goto
<1>2. /\ \A a \in Artifacts, m \in 2..5 : a = at /\ m = move' => SwappedUpTo(a, m)'
      /\ \A b \in Artifacts \ {at} : files'[b] = files[b]
  <2>1. PICK a \in Artifacts, m \in 1..4 : a = at /\ m = move
    BY <1>1
  <2>2. SwappedUpTo(a, m + 1)' /\ \A b \in Artifacts \ {a} : files'[b] = files[b]
    BY <1>1, <2>1, SwapAdvances
  <2> QED BY <1>1, <2>1, <2>2
<1>3. Swapping'
  <2>1. \A a \in Artifacts : KnowsHad(a)'
    BY <1>1 DEF Swapping, KnowsHad
  <2>2. \A a \in Artifacts : a < at => SwappedUpTo(a, 5)'
    BY <1>1, <1>2 DEF Swapping, SwappedUpTo, Artifacts
  <2>3. \A a \in Artifacts : a > at => SwappedUpTo(a, 1)'
    BY <1>1, <1>2 DEF Swapping, SwappedUpTo, Artifacts
  <2>4. SwappedUpTo(at, move)'
    BY <1>1, <1>2
  <2> QED BY <1>1, <2>1, <2>2, <2>3, <2>4 DEF Swapping
<1>4. NoMixedPair'
  <2>1. ASSUME NEW a \in Artifacts, a = at, NEW m \in 2..5, SwappedUpTo(a, m)'
        PROVE  (Exists(a, "parquet") /\ Exists(a, "manifest") => Certified(Pair(a)))'
    BY <1>1, <2>1 DEF SwappedUpTo, Exists, Certified, Pair
  <2>2. ASSUME NEW a \in Artifacts, a # at, NoMixedPair, errors = 0
        PROVE  (Exists(a, "parquet") /\ Exists(a, "manifest") => Certified(Pair(a)))'
    BY <1>2, <2>2 DEF NoMixedPair, Exists, Certified, Pair
  <2> QED BY <1>1, <1>2, <2>1, <2>2 DEF PublicationIInv, NoMixedPair
<1> QED BY <1>1, <1>3, <1>4 DEF PublicationIInv

\* The pair just moved in attests itself, so a swap fails only by a failing operation.
LEMMA ValidateIInv == PublicationIInv /\ Validate => PublicationIInv'
<1> SUFFICES ASSUME PublicationIInv, Validate PROVE PublicationIInv'
  OBVIOUS
<1>1. /\ TypeOK /\ TypeOK' /\ Swapping /\ at \in Artifacts /\ move = 5
      /\ build' = build /\ build # 0 /\ before' = before /\ had' = had /\ files' = files
      /\ errors' = errors
  BY TypeOKNext DEF Validate, PublicationIInv, Next, Step, TypeOK, bounds
<1>2. Pair(at) = <<build, build>> /\ Certified(Pair(at))
  BY <1>1 DEF Swapping, SwappedUpTo, Pair, Certified
<1>3. /\ NextArtifact("swap", "cleanup")
      /\ outcome' = IF at < Siblings THEN outcome ELSE "published"
  BY <1>2 DEF Validate
<1>4. PairsKept
  BY <1>1 DEF PairsKept
<1>5. CASE at < Siblings
  <2>1. pc' = "swap" /\ at' = at + 1 /\ move' = 1 /\ outcome' = "none"
    BY <1>1, <1>3, <1>5, NextArtifactControl DEF Swapping
  <2>2. \A a \in Artifacts : KnowsHad(a)'
    BY <1>1 DEF Swapping, KnowsHad
  <2>3. \A a \in Artifacts : a < at' => SwappedUpTo(a, 5)'
    BY <1>1, <2>1 DEF Swapping, SwappedUpTo, Artifacts
  <2>4. \A a \in Artifacts : a >= at' => SwappedUpTo(a, 1)'
    BY <1>1, <2>1 DEF Swapping, SwappedUpTo, Artifacts
  <2>5. at' \in Artifacts
    BY <1>1 DEF TypeOK
  <2>6. Swapping'
    BY <2>1, <2>2, <2>3, <2>4, <2>5 DEF Swapping, Artifacts
  <2> QED BY <1>1, <1>4, <2>1, <2>6, PairsKeptNoMixed DEF PublicationIInv
<1>6. CASE ~(at < Siblings)
  <2>1. pc' = "cleanup" /\ at' = 1 /\ move' = 1 /\ outcome' = "published" /\ at = Siblings
    BY <1>1, <1>3, <1>6, NextArtifactControl
  <2>2. AllNew'
    <3>1. \A a \in Artifacts : a < at => Pair(a) = <<build, build>>
      BY <1>1 DEF Swapping, SwappedUpTo, Pair
    <3> QED BY <1>1, <1>2, <2>1, <3>1 DEF AllNew, Pair, Artifacts
  <2>3. Cleaning'
    BY <1>1, <2>1, <2>2 DEF Cleaning, Settled, Artifacts
  <2> QED BY <1>1, <1>4, <2>1, <2>3, PairsKeptNoMixed DEF PublicationIInv
<1> QED BY <1>5, <1>6

\* What one half of the restore does to the slots of its artifact.
LEMMA RestoredSlots ==
    ASSUME files \in FilesType, NEW a \in Artifacts, KnowsHad(a),
           NEW i \in {1, 2}, NEW s \in Slots, NEW previous \in Slots, s # previous,
           s \in had[a] <=> before[a][i] # 0, Recoverable(a, i, s, previous)
    PROVE  /\ Restored(a, s, previous)[a][s] = before[a][i]
           /\ Restored(a, s, previous)[a][previous] = 0
           /\ \A t \in Slots \ {s, previous} : Restored(a, s, previous)[a][t] = files[a][t]
           /\ \A b \in Artifacts \ {a} : Restored(a, s, previous)[b] = files[b]
<1>1. CASE Exists(a, previous)
  <2>1. Restored(a, s, previous) = Rename(a, previous, s)
    BY <1>1 DEF Restored
  <2>2. files[a][previous] = before[a][i]
    BY <1>1 DEF Exists, Recoverable
  <2> QED BY <2>1, <2>2, RenamedSlots
<1>2. CASE ~Exists(a, previous) /\ s \in had[a]
  BY <1>2 DEF Restored, Exists, Recoverable
<1>3. CASE ~Exists(a, previous) /\ s \notin had[a]
  BY <1>3 DEF Restored, Exists, FilesType
<1> QED BY <1>1, <1>2, <1>3

LEMMA RollbackIInv == PublicationIInv /\ Rollback => PublicationIInv'
<1> SUFFICES ASSUME PublicationIInv, Rollback PROVE PublicationIInv'
  OBVIOUS
<1>0. /\ TypeOK /\ RollingBack /\ files \in FilesType /\ at \in Artifacts
      /\ build # 0 /\ errors # 0 /\ outcome = "raised"
  BY DEF Rollback, PublicationIInv, TypeOK, FilesType, RollingBack
<1>t. TypeOK'
  BY <1>0, TypeOKNext DEF Next, Step
<1>u. /\ had' = had /\ outcome' = outcome /\ before' = before /\ build' = build /\ errors' = errors
  BY DEF Rollback, bounds
<1>k. KnowsHad(at) /\ \A a \in Artifacts : KnowsHad(a)'
  BY <1>0, <1>u DEF RollingBack, KnowsHad
<1>r. /\ Recoverable(at, 1, "parquet", "previousParquet")
      /\ Recoverable(at, 2, "manifest", "previousManifest")
  BY <1>0 DEF RollingBack, Artifacts
<1>1. /\ TypeOK /\ TypeOK' /\ RollingBack /\ files \in FilesType /\ at \in Artifacts
      /\ build' = build /\ build # 0 /\ before' = before /\ had' = had
      /\ errors' = errors /\ errors # 0 /\ outcome' = "raised"
      /\ KnowsHad(at) /\ \A a \in Artifacts : KnowsHad(a)'
      /\ Recoverable(at, 1, "parquet", "previousParquet")
      /\ Recoverable(at, 2, "manifest", "previousManifest")
  BY <1>0, <1>t, <1>u, <1>k, <1>r
<1>2. NoMixedPair'
  BY <1>1 DEF NoMixedPair
<1>3. CASE move = 1
  <2>1. pc' = "rollback" /\ at' = at /\ move' = 2
    BY <1>3 DEF Rollback, Goto
  <2>2. files' = Restored(at, "parquet", "previousParquet")
    BY <1>3 DEF Rollback
  <2>3. /\ files'[at]["parquet"] = before[at][1] /\ files'[at]["previousParquet"] = 0
        /\ files'[at]["manifest"] = files[at]["manifest"]
        /\ files'[at]["previousManifest"] = files[at]["previousManifest"]
        /\ \A b \in Artifacts \ {at} : files'[b] = files[b]
    BY <1>1, <2>2, RestoredSlots DEF KnowsHad, Slots
  <2>4. \A a \in Artifacts : a < at => InPlace(a)'
    BY <1>1, <2>3 DEF RollingBack, InPlace, Artifacts
  <2>5. \A a \in Artifacts : a >= at => /\ Recoverable(a, 1, "parquet", "previousParquet")'
                                        /\ Recoverable(a, 2, "manifest", "previousManifest")'
    BY <1>1, <2>3 DEF RollingBack, Recoverable
  <2>6. RollingBack'
    BY <1>1, <2>1, <2>3, <2>4, <2>5 DEF RollingBack
  <2> QED BY <1>1, <1>2, <2>1, <2>6 DEF PublicationIInv
<1>4. CASE move = 2
  <2>1. NextArtifact("rollback", "cleanup")
    BY <1>4 DEF Rollback
  <2>2. files' = Restored(at, "manifest", "previousManifest")
    BY <1>4 DEF Rollback
  <2>3. /\ files'[at]["manifest"] = before[at][2] /\ files'[at]["previousManifest"] = 0
        /\ files'[at]["parquet"] = files[at]["parquet"]
        /\ files'[at]["previousParquet"] = files[at]["previousParquet"]
        /\ \A b \in Artifacts \ {at} : files'[b] = files[b]
    BY <1>1, <2>2, RestoredSlots DEF KnowsHad, Slots
  <2>4. \A a \in Artifacts : a <= at => InPlace(a)'
    BY <1>1, <1>4, <2>3 DEF RollingBack, InPlace, Artifacts
  <2>5. CASE at < Siblings
    <3>1. pc' = "rollback" /\ at' = at + 1 /\ move' = 1
      BY <1>1, <2>1, <2>5, NextArtifactControl
    <3>2. \A a \in Artifacts : a < at' => InPlace(a)'
      BY <1>1, <2>4, <3>1 DEF Artifacts
    <3>3. \A a \in Artifacts : a >= at' => /\ Recoverable(a, 1, "parquet", "previousParquet")'
                                           /\ Recoverable(a, 2, "manifest", "previousManifest")'
      BY <1>1, <2>3, <3>1 DEF RollingBack, Recoverable, Artifacts
    <3>4. RollingBack'
      BY <1>1, <3>1, <3>2, <3>3 DEF RollingBack
    <3> QED BY <1>1, <1>2, <3>1, <3>4 DEF PublicationIInv
  <2>6. CASE ~(at < Siblings)
    <3>1. pc' = "cleanup" /\ at' = 1 /\ move' = 1 /\ at = Siblings
      BY <1>1, <2>1, <2>6, NextArtifactControl
    <3>2. \A a \in Artifacts : InPlace(a)'
      BY <2>4, <3>1 DEF Artifacts
    <3>3. AllOld'
      BY <1>1, <3>2 DEF AllOld, InPlace, Pair, TypeOK
    <3>4. Cleaning'
      BY <1>1, <3>1, <3>3 DEF Cleaning, Settled, Artifacts
    <3> QED BY <1>1, <1>2, <3>1, <3>4 DEF PublicationIInv
  <2> QED BY <2>5, <2>6
<1> QED BY <1>1, <1>3, <1>4 DEF RollingBack

LEMMA CleanupIInv == PublicationIInv /\ Cleanup => PublicationIInv'
<1> SUFFICES ASSUME PublicationIInv, Cleanup PROVE PublicationIInv'
  OBVIOUS
<1>1. /\ TypeOK /\ TypeOK' /\ Cleaning /\ files \in FilesType /\ at \in Artifacts /\ move \in 1..4
      /\ build' = build /\ build # 0 /\ before' = before /\ recovery' = recovery
      /\ errors' = errors /\ outcome' = outcome /\ 0 \in 0..MaxBuilds
  BY TypeOKNext DEF Cleanup, PublicationIInv, Next, Step, TypeOK, FilesType, bounds, Cleaning
<1>2. CleanupOrder[move] \in Temporary
  BY <1>1 DEF CleanupOrder, Temporary, Slots
<1>3. /\ files'[at][CleanupOrder[move]] = 0
      /\ \A t \in Slots \ {CleanupOrder[move]} : files'[at][t] = files[at][t]
      /\ \A b \in Artifacts \ {at} : files'[b] = files[b]
  BY <1>1, <1>2, PutSlot DEF Cleanup, Temporary
<1>4. PairsKept
  BY <1>1, <1>2, <1>3 DEF PairsKept, Temporary, Slots
<1>5. NoMixedPair' /\ Settled'
  BY <1>1, <1>4, PairsKeptNoMixed, PairsKeptSettled DEF PublicationIInv, Cleaning
<1>6. \A a \in Artifacts : a < at => Clean(a)'
  BY <1>1, <1>3 DEF Cleaning, Clean, Artifacts
<1>7. \A i \in 1..4 : i <= move => files'[at][CleanupOrder[i]] = 0
  <2>1. \A i \in 1..4 : CleanupOrder[i] \in Slots
    BY DEF CleanupOrder, Slots
  <2>2. \A i \in 1..4 : i < move => files[at][CleanupOrder[i]] = 0
    BY <1>1 DEF Cleaning
  <2> QED BY <1>1, <1>3, <2>1, <2>2
<1>8. CASE move < 4
  <2>1. pc' = "cleanup" /\ at' = at /\ move' = move + 1
    BY <1>8 DEF Cleanup, Goto
  <2>2. Cleaning'
    BY <1>1, <1>5, <1>6, <1>7, <1>8, <2>1 DEF Cleaning
  <2> QED BY <1>1, <1>5, <2>1, <2>2 DEF PublicationIInv
<1>9. CASE ~(move < 4)
  <2>1. NextArtifact("cleanup", "idle")
    BY <1>9 DEF Cleanup
  <2>2. \A a \in Artifacts : a <= at => Clean(a)'
    <3>1. \A s \in Temporary : \E i \in 1..4 : s = CleanupOrder[i]
      BY DEF CleanupOrder, Temporary, Slots
    <3>2. \A s \in Temporary : files'[at][s] = 0
      BY <1>1, <1>7, <1>9, <3>1
    <3> QED BY <1>1, <1>6, <3>2 DEF Clean, Artifacts
  <2>3. CASE at < Siblings
    <3>1. pc' = "cleanup" /\ at' = at + 1 /\ move' = 1
      BY <1>1, <2>1, <2>3, NextArtifactControl
    <3>2. Cleaning'
      BY <1>1, <1>5, <2>2, <3>1 DEF Cleaning, Artifacts
    <3> QED BY <1>1, <1>5, <3>1, <3>2 DEF PublicationIInv
  <2>4. CASE ~(at < Siblings)
    <3>1. pc' = "idle" /\ at' = 1 /\ move' = 1 /\ at = Siblings
      BY <1>1, <2>1, <2>4, NextArtifactControl
    <3>2. FaultsLoseNothing'
      BY <1>5, SettledLosesNothing, PTL
    <3>3. Idle'
      BY <1>1, <1>5, <2>2, <3>1, <3>2 DEF Idle, Artifacts
    <3> QED BY <1>1, <1>5, <3>1, <3>3 DEF PublicationIInv
  <2> QED BY <2>3, <2>4
<1> QED BY <1>8, <1>9

\* A command that gives up its temporary files leaves the old pairs on disk.
LEMMA AbandonIdle ==
    ASSUME PublicationIInv, Abandon, UNCHANGED <<build, before, had>>,
           recovery' = "whole" => recovery = "whole",
           outcome' # "killed" => Settled', errors' = 0 => errors = 0
    PROVE  Idle' /\ pc' = "idle" /\ NoMixedPair'
<1>1. TypeOK /\ files \in FilesType
  BY DEF PublicationIInv, TypeOK, FilesType
<1>2. /\ \A a \in Artifacts, s \in Slots : files'[a][s] = IF s \in Temporary THEN 0 ELSE files[a][s]
      /\ \A a \in Artifacts, s \in Temporary : <<a, s, files[a][s]>> \in orphans'
      /\ pc' = "idle" /\ at' = 1 /\ move' = 1 /\ orphans \subseteq orphans'
  BY <1>1, AbandonedSlots DEF TypeOK, Abandon
<1>3. PairsKept
  BY <1>2 DEF PairsKept, Temporary, Slots
<1>4. FaultsLoseNothing'
  <2> SUFFICES ASSUME recovery' = "whole" PROVE NothingLost'
    BY DEF FaultsLoseNothing
  <2>1. NothingLost
    BY NothingLostYet DEF FaultsLoseNothing
  <2>2. ASSUME NEW a \in Artifacts
        PROVE  /\ Kept(a, 1, "parquet", "previousParquet") => Kept(a, 1, "parquet", "previousParquet")'
               /\ Kept(a, 2, "manifest", "previousManifest") => Kept(a, 2, "manifest", "previousManifest")'
    BY <1>2, <1>3 DEF Kept, PairsKept, Temporary, Slots
  <2> QED BY <1>3, <2>1, <2>2 DEF NothingLost, PairsKept, Pair
<1>5. \A a \in Artifacts : Clean(a)'
  BY <1>2 DEF Clean, Temporary
<1>6. NoMixedPair'
  BY <1>3, PairsKeptNoMixed DEF PublicationIInv
<1> QED BY <1>2, <1>4, <1>5, <1>6 DEF Idle

\* A publication that is cut off while staging has moved nothing.
LEMMA StagedNothing ==
    ASSUME PublicationIInv, pc = "stage"
    PROVE  AllOld
BY DEF PublicationIInv, Staging, InPlace, AllOld, Pair, TypeOK

LEMMA SwappedIsRecoverable ==
    ASSUME PublicationIInv, pc = "swap", NEW a \in Artifacts
    PROVE  /\ Recoverable(a, 1, "parquet", "previousParquet")
           /\ Recoverable(a, 2, "manifest", "previousManifest")
<1>1. SwappedUpTo(a, 1) \/ SwappedUpTo(a, 5) \/ SwappedUpTo(a, move)
  BY DEF PublicationIInv, Swapping, TypeOK, Artifacts
<1> QED BY <1>1 DEF SwappedUpTo, Recoverable

LEMMA ErrorIInv == PublicationIInv /\ Error => PublicationIInv'
<1> SUFFICES ASSUME PublicationIInv, Error PROVE PublicationIInv'
  OBVIOUS
<1>t. TypeOK'
  BY TypeOKNext DEF PublicationIInv, Next
<1>e. errors' # 0
  BY DEF Error, PublicationIInv, TypeOK
<1>u. /\ TypeOK /\ build # 0 /\ build' = build /\ before' = before /\ had' = had
      /\ outcome' \in {"raised", "interrupted"}
  BY DEF Error, PublicationIInv
<1>c. pc # "cleanup" => files' = files /\ at' = 1 /\ move' = 1
  <2>1. pc \in {"stage", "swap", "rollback", "cleanup"}
    BY DEF Error, PublicationIInv, TypeOK
  <2> QED BY <2>1 DEF Error, Goto
<1>1. /\ TypeOK /\ TypeOK' /\ build' = build /\ build # 0 /\ before' = before /\ had' = had
      /\ errors' # 0 /\ outcome' \in {"raised", "interrupted"}
      /\ pc # "cleanup" => files' = files /\ at' = 1 /\ move' = 1
  BY <1>t, <1>e, <1>u, <1>c
<1>2. NoMixedPair'
  BY <1>1 DEF NoMixedPair
<1>3. CASE pc = "swap"
  <2>1. pc' = "rollback" /\ outcome' = "raised"
    BY <1>3 DEF Error, Goto, PublicationIInv, Swapping
  <2>2. \A a \in Artifacts : /\ Recoverable(a, 1, "parquet", "previousParquet")'
                             /\ Recoverable(a, 2, "manifest", "previousManifest")'
    BY <1>1, <1>3, SwappedIsRecoverable DEF Recoverable
  <2>3. \A a \in Artifacts : KnowsHad(a)'
    BY <1>1, <1>3 DEF PublicationIInv, Swapping, KnowsHad
  <2>4. RollingBack'
    BY <1>1, <1>3, <2>1, <2>2, <2>3 DEF RollingBack, Artifacts
  <2> QED BY <1>1, <1>2, <2>1, <2>4 DEF PublicationIInv
<1>4. CASE pc = "stage"
  <2>1. pc' = "cleanup"
    BY <1>4 DEF Error, Goto
  <2>2. AllOld'
    BY <1>1, <1>4, StagedNothing DEF AllOld, Pair
  <2>3. Cleaning'
    BY <1>1, <1>4, <2>2 DEF Cleaning, Settled, Artifacts
  <2> QED BY <1>1, <1>2, <2>1, <2>3 DEF PublicationIInv
<1>5. CASE pc = "rollback"
  <2>1. pc' = "cleanup" /\ recovery' = "cut"
    BY <1>5 DEF Error, Goto
  <2>2. Cleaning'
    BY <1>1, <1>5, <2>1 DEF Cleaning, Settled, Artifacts
  <2> QED BY <1>1, <1>2, <2>1, <2>2 DEF PublicationIInv
<1>6. CASE pc = "cleanup"
  <2>1. Abandon /\ recovery' = recovery
    BY <1>6 DEF Error
  <2>2. PairsKept
    BY <1>1, <2>1, AbandonedSlots DEF PairsKept, Temporary, Slots, TypeOK, FilesType
  <2>3. Settled'
    BY <1>1, <1>6, <2>1, <2>2, PairsKeptSettled DEF PublicationIInv, Cleaning
  <2> QED BY <1>1, <2>1, <2>3, AbandonIdle DEF PublicationIInv
<1> QED BY <1>3, <1>4, <1>5, <1>6 DEF Error, PublicationIInv, TypeOK

LEMMA InterruptIInv == PublicationIInv /\ Interrupt => PublicationIInv'
<1> SUFFICES ASSUME PublicationIInv, Interrupt PROVE PublicationIInv'
  OBVIOUS
<1>1. /\ TypeOK /\ TypeOK' /\ build' = build /\ build # 0 /\ before' = before /\ had' = had
      /\ errors' = errors /\ outcome' = "interrupted"
      /\ pc # "cleanup" => pc' = "cleanup" /\ files' = files /\ at' = 1 /\ move' = 1
  BY TypeOKNext DEF Interrupt, PublicationIInv, Next, TypeOK, Goto
<1>2. CASE pc # "cleanup"
  <2>1. NoMixedPair'
    BY <1>1, <1>2, PairsKeptNoMixed DEF PublicationIInv, PairsKept
  <2>2. recovery' = "whole" => AllOld'
    <3>1. ASSUME recovery' = "whole" PROVE pc = "stage"
      BY <3>1, <1>2 DEF Interrupt, PublicationIInv, TypeOK
    <3> QED BY <1>1, <1>2, <3>1, StagedNothing DEF AllOld, Pair
  <2>3. Cleaning'
    BY <1>1, <1>2, <2>2 DEF Cleaning, Settled, Artifacts
  <2> QED BY <1>1, <1>2, <2>1, <2>3 DEF PublicationIInv
<1>3. CASE pc = "cleanup"
  <2>1. Abandon /\ recovery' = recovery
    BY <1>3 DEF Interrupt
  <2>2. PairsKept
    BY <1>1, <2>1, AbandonedSlots DEF PairsKept, Temporary, Slots, TypeOK, FilesType
  <2>3. Settled'
    BY <1>1, <1>3, <2>1, <2>2, PairsKeptSettled DEF PublicationIInv, Cleaning
  <2> QED BY <1>1, <2>1, <2>3, AbandonIdle DEF PublicationIInv
<1> QED BY <1>2, <1>3

LEMMA KillIInv == PublicationIInv /\ Kill => PublicationIInv'
<1> SUFFICES ASSUME PublicationIInv, Kill PROVE PublicationIInv'
  OBVIOUS
<1>1. TypeOK'
  BY TypeOKNext DEF PublicationIInv, Next
<1>2. Idle' /\ pc' = "idle" /\ NoMixedPair'
  BY AbandonIdle DEF Kill
<1> QED BY <1>1, <1>2 DEF PublicationIInv

LEMMA PublicationIInvNext == PublicationIInv /\ [Next]_vars => PublicationIInv'
<1> SUFFICES ASSUME PublicationIInv, UNCHANGED vars PROVE PublicationIInv'
  BY BeginIInv, StageIInv, SwapIInv, ValidateIInv, RollbackIInv, CleanupIInv,
     ErrorIInv, InterruptIInv, KillIInv DEF Next, Step
<1> QED BY DEF PublicationIInv, vars, bounds, TypeOK, Idle, Staging, Swapping, RollingBack,
        Cleaning, NoMixedPair,
        Settled, AllNew, AllOld, Clean, InPlace, KnowsHad, SwappedUpTo, Recoverable,
        FaultsLoseNothing, NothingLost, Kept, Pair, Exists, Certified

LEMMA PublicationInvariantHolds == Spec => []PublicationIInv
BY PublicationInitIInv, PublicationIInvNext, PTL DEF Spec

\* A publication that ends other than by being killed has replaced every sibling's pair
\* or restored every one, unless its except clause was skipped or cut short.
THEOREM PublicationIsAtomic == Spec => []AllOrNothing
<1>1. PublicationIInv => AllOrNothing
  BY DEF PublicationIInv, Idle, Settled, AllOrNothing, AllNew, AllOld
<1> QED BY <1>1, PublicationInvariantHolds, PTL

\* Failing operations, kills and interrupts destroy no previous pair that an operator
\* could not put back, unless the restore itself was skipped or cut short.
THEOREM OldPairsSurvive == Spec => []FaultsLoseNothing
BY NothingLostYet, PublicationInvariantHolds, PTL

\* Without a failing operation, no reader ever finds a parquet beside the manifest of
\* another build.
THEOREM PairsMatch == Spec => []NoMixedPair
<1>1. PublicationIInv => NoMixedPair
  BY DEF PublicationIInv
<1> QED BY <1>1, PublicationInvariantHolds, PTL

-----------------------------------------------------------------------------
(* Retention is counting: the lemmas say how the number of newer           *)
(* directories or artifacts changes when one is published, replaced or     *)
(* removed.                                                                *)
HIDE BoundsAssumption
USE RetentionAssumption

\* Every command raises the newest version of a symbol by one at most.
Numbered ==
    /\ \A a \in ever : /\ a.version <= commands
                       /\ phase[a.symbol] = "plan" => a.version < commands
    /\ \A s \in Symbols : /\ phase[s] = "plan" => commands # 0
                          /\ target[s].version <= commands
                          /\ phase[s] \in {"publish", "list", "prune"} => target[s] # None

\* No two artifacts of one identity, or published at one time.
Distinct ==
    \A a, b \in ever : Identity(a) = Identity(b) \/ a.time = b.time => a = b

Found(d) == d \in OnDisk \/ Superseded(d[2]) \/ Outranked(d)

\* What a job has decided to remove stays superseded, whatever the others do.
DoomedSuperseded == \A s \in Symbols : \A v \in doomed[s] : Superseded(v)

\* A job that has published and not yet pruned still has its artifact, its newest one.
PublishedStands ==
    \A s \in Symbols : phase[s] \in {"list", "prune"} =>
        \/ Superseded(target[s].version)
        \/ \E a \in Of(s) : /\ Identity(a) = <<s, target[s].version, target[s].content>>
                            /\ \A b \in Of(s) : b.time <= a.time

\* Reports come from jobs that are over, and the result from a command that is.
ReportsStand ==
    /\ \A d \in reports : Found(d) /\ phase[d[1]] = "done"
    /\ declared # {} => \A s \in Symbols : phase[s] = "idle"

RetentionIInv ==
    /\ RetentionTypeOK /\ IsFiniteSet(ever) /\ Numbered /\ Distinct
    /\ DoomedSuperseded /\ PublishedStands /\ ReportsStand
    /\ RetainsUnlessSuperseded /\ DeclaredUnlessSuperseded
-----------------------------------------------------------------------------
(* Counting.                                                               *)

LEMMA FiniteDirs == ASSUME dirs \subseteq Versions PROVE IsFiniteSet(dirs) /\ dirs \subseteq Nat
<1>1. IsFiniteSet(Versions) /\ Versions \subseteq Nat
  BY FS_Interval DEF Versions
<1> QED BY <1>1, FS_Subset

\* A count of newer directories only depends on them.
LEMMA NewerThan ==
    ASSUME NEW D, NEW E, IsFiniteSet(D), IsFiniteSet(E), D \subseteq Nat, E \subseteq Nat,
           NEW v \in Nat, NEW u \in Nat, v <= u,
           \A w \in D : w > u => w \in E,
           Cardinality({w \in D : w > u}) >= Keep
    PROVE  Cardinality({w \in E : w > v}) >= Keep
<1>1. {w \in D : w > u} \subseteq {w \in E : w > v}
  <2> SUFFICES ASSUME NEW w \in D, w > u PROVE w \in E /\ w > v
    OBVIOUS
  <2> QED OBVIOUS
<1>2. /\ IsFiniteSet({w \in D : w > u}) /\ IsFiniteSet({w \in E : w > v})
  BY FS_Subset
<1>3. Cardinality({w \in D : w > u}) <= Cardinality({w \in E : w > v})
  BY <1>1, <1>2, FS_Subset
<1>4. Cardinality({w \in D : w > u}) \in Nat /\ Cardinality({w \in E : w > v}) \in Nat
  BY <1>2, FS_CardinalityType
<1> QED BY <1>3, <1>4

\* What a step may do to the shared directories.
DirsKept == dirs' = dirs
DirAdded == \E v \in Versions : dirs' = dirs \cup {v}
DirRemoved(v) == v \in dirs /\ Superseded(v) /\ dirs' = dirs \ {v}

LEMMA SupersededStays ==
    ASSUME dirs \subseteq Versions,
           DirsKept \/ DirAdded \/ (\E u \in Versions : DirRemoved(u)),
           NEW v \in Nat, Superseded(v)
    PROVE  Superseded(v)'
<1>1. IsFiniteSet(dirs) /\ dirs \subseteq Nat /\ dirs' \subseteq Versions
  BY FiniteDirs DEF DirsKept, DirAdded, DirRemoved
<1>2. IsFiniteSet(dirs') /\ dirs' \subseteq Nat
  <2>1. IsFiniteSet(Versions) /\ Versions \subseteq Nat
    BY FS_Interval DEF Versions
  <2> QED BY <1>1, <2>1, FS_Subset
<1>s. /\ v <= v /\ Cardinality({w \in dirs : w > v}) >= Keep
      /\ Cardinality({w \in dirs' : w > v}) >= Keep => Superseded(v)'
  BY DEF Superseded
<1>3. CASE dirs \subseteq dirs'
  <2>1. Cardinality({w \in dirs' : w > v}) >= Keep
    <3>1. \A w \in dirs : w > v => w \in dirs'
      BY <1>3
    <3> QED BY <1>s, <1>1, <1>2, <3>1, NewerThan
  <2> QED BY <1>s, <2>1
<1>4. CASE \E u \in Versions : DirRemoved(u)
  <2>1. PICK u \in Versions : DirRemoved(u)
    BY <1>4
  <2>2. u \in Nat
    BY DEF Versions
  <2>3. CASE u > v
    <3>1. \A w \in dirs : w > u => w \in dirs'
      BY <1>1, <2>1, <2>2 DEF DirRemoved
    <3>2. v <= u /\ Cardinality({w \in dirs : w > u}) >= Keep
      BY <2>1, <2>2, <2>3 DEF DirRemoved, Superseded
    <3>3. Cardinality({w \in dirs' : w > v}) >= Keep
      BY <1>1, <1>2, <2>2, <3>1, <3>2, NewerThan
    <3> QED BY <1>s, <3>3
  <2>4. CASE ~(u > v)
    <3>1. \A w \in dirs : w > v => w \in dirs'
      BY <1>1, <2>1, <2>2, <2>4 DEF DirRemoved
    <3>2. Cardinality({w \in dirs' : w > v}) >= Keep
      BY <1>s, <1>1, <1>2, <3>1, NewerThan
    <3> QED BY <1>s, <3>2
  <2> QED BY <2>3, <2>4
<1> QED BY <1>3, <1>4 DEF DirsKept, DirAdded

\* A directory that is removed for good reason is itself still superseded afterwards.
LEMMA RemovedIsSuperseded ==
    ASSUME dirs \subseteq Versions, NEW v \in Versions, DirRemoved(v)
    PROVE  /\ Superseded(v)' /\ \A u \in Nat : u <= v => Superseded(u)'
           /\ Cardinality({w \in dirs' : w > v}) >= Keep
<1>1. v \in Nat /\ Superseded(v)'
  BY SupersededStays DEF Versions, DirRemoved
<1>2. IsFiniteSet(dirs') /\ dirs' \subseteq Nat
  BY FiniteDirs, FS_RemoveElement DEF DirRemoved
<1> QED BY <1>1, <1>2, NewerThan DEF Superseded

\* prune_gold_versions spares the newest Keep directories.
LEMMA ListedAreSuperseded ==
    ASSUME dirs \subseteq Versions, NEW v \in dirs \ Top(Keep, dirs, Newer)
    PROVE  Superseded(v)
<1>1. ~(Cardinality({w \in dirs : w > v}) < Keep)
  BY DEF Top, Newer
<1>2. Cardinality({w \in dirs : w > v}) \in Nat
  BY FiniteDirs, FS_Subset, FS_CardinalityType
<1> QED BY <1>1, <1>2 DEF Superseded

-----------------------------------------------------------------------------
(* The newest artifact of a symbol, and the version that follows it.       *)

LEMMA LatestIsOne ==
    ASSUME RetentionTypeOK, NEW s \in Symbols, Of(s) # {}
    PROVE  Latest(s) \in Of(s)
<1> DEFINE times == {a.time : a \in Of(s)}
<1>1. times # {} /\ times \subseteq 1..clock
  BY DEF RetentionTypeOK, Of
<1>2. PICK t \in times : \A u \in times : u <= t
  <2>1. IsFiniteSet(1..clock) /\ 1..clock \subseteq Int
    BY FS_Interval DEF RetentionTypeOK
  <2>2. IsFiniteSet(times) /\ times \subseteq Int
    <3> HIDE DEF times
    <3> QED BY <1>1, <2>1, FS_Subset
  <2> HIDE DEF times
  <2> QED BY <1>1, <2>2, GreatestInteger
<1>3. \E a \in Of(s) : \A b \in Of(s) : a.time >= b.time
  <2>1. \A u \in times : u \in Int
    BY <1>1
  <2> QED BY <1>2, <2>1
<1> QED BY <1>3 DEF Latest

LEMMA NextVersionBound ==
    ASSUME RetentionTypeOK, Numbered, NEW s \in Symbols, phase[s] = "plan"
    PROVE  NextVersion(s) \in Versions /\ NextVersion(s) <= commands
<1>1. commands \in 1..MaxCommands
  BY DEF RetentionTypeOK, Numbered
<1>2. NextVersion(s) = 1 \/ (Of(s) # {} /\ NextVersion(s) = Latest(s).version + 1)
  BY Zenon DEF NextVersion
<1>3. Of(s) # {} => Latest(s).version \in Nat \ {0} /\ Latest(s).version < commands
  BY LatestIsOne DEF Of, RetentionTypeOK, Numbered, Versions
<1> QED BY <1>1, <1>2, <1>3 DEF Versions

-----------------------------------------------------------------------------
(* What the steps do to the files.                                         *)

\* Publication gives an artifact of this identity a new time.
New(s) == [symbol |-> s, version |-> target[s].version,
           content |-> target[s].content, time |-> clock + 1]
Published(s) ==
    /\ phase[s] = "publish" /\ New(s).version \in dirs
    /\ artifacts' = Replaced(artifacts, New(s)) /\ ever' = Replaced(ever, New(s))
    /\ clock' = clock + 1 /\ dirs' = dirs
    /\ phase' = [phase EXCEPT ![s] = "list"]
    /\ UNCHANGED <<input, target, doomed, commandVars, changes>>
VersionRemoved(s, v) ==
    /\ phase[s] = "prune" /\ v \in doomed[s]
    /\ v \in dirs /\ dirs' = dirs \ {v}
    /\ artifacts' = {a \in artifacts : a.version # v}
    /\ doomed' = [doomed EXCEPT ![s] = @ \ {v}]
    /\ UNCHANGED <<input, ever, clock, phase, target, commandVars, changes>>
Crashed(s) ==
    /\ phase[s] \in {"publish", "prune"} /\ phase' = [phase EXCEPT ![s] = "failed"]
    /\ UNCHANGED <<input, fileVars, target, doomed, commandVars, changes>>

\* The actions with two outcomes, taken apart.
LEMMA PublishOutcomes ==
    ASSUME NEW s \in Symbols, Publish(s) PROVE Published(s) \/ Crashed(s)
BY DEF Publish, Published, Crashed, Crash, New

LEMMA RemoveOutcomes ==
    ASSUME NEW s \in Symbols, RemoveVersion(s)
    PROVE  (\E v \in doomed[s] : VersionRemoved(s, v)) \/ Crashed(s)
<1>1. PICK v \in Top(1, doomed[s], Newer) :
        IF v \notin dirs
        THEN Crash(s) /\ UNCHANGED <<fileVars, doomed>>
        ELSE /\ dirs' = dirs \ {v}
             /\ artifacts' = {a \in artifacts : a.version # v}
             /\ doomed' = [doomed EXCEPT ![s] = @ \ {v}]
             /\ UNCHANGED <<phase, clock, ever>>
  BY Zenon DEF RemoveVersion
<1>2. v \in doomed[s]
  BY <1>1 DEF Top
<1>3. /\ phase[s] = "prune" /\ UNCHANGED <<input, target, commandVars, changes>>
  BY DEF RemoveVersion
<1> QED BY <1>1, <1>2, <1>3 DEF VersionRemoved, Crashed, Crash, fileVars

LEMMA DirsChange ==
    ASSUME RetentionIInv, [RetentionNext]_retentionVars
    PROVE  DirsKept \/ DirAdded \/ \E v \in Versions : DirRemoved(v)
<1>1. CASE UNCHANGED dirs
  BY <1>1 DEF DirsKept
<1>2. ASSUME NEW s \in Symbols, Plan(s) PROVE DirAdded
  BY <1>2, NextVersionBound DEF Plan, DirAdded, RetentionIInv
<1>3. ASSUME NEW s \in Symbols, Publish(s) PROVE UNCHANGED dirs
  BY <1>3, PublishOutcomes DEF Published, Crashed, fileVars
<1>4. ASSUME NEW s \in Symbols, RemoveVersion(s)
      PROVE  DirsKept \/ \E v \in Versions : DirRemoved(v)
  <2>1. CASE Crashed(s)
    BY <2>1 DEF Crashed, fileVars, DirsKept
  <2>2. CASE \E v \in doomed[s] : VersionRemoved(s, v)
    BY <2>2 DEF VersionRemoved, DirRemoved, RetentionIInv, DoomedSuperseded, RetentionTypeOK
  <2> QED BY <1>4, <2>1, <2>2, RemoveOutcomes
<1>5. ASSUME NEW s \in Symbols, Reuse(s) \/ Skip(s) \/ ListVersions(s) \/ PruneArtifacts(s)
      PROVE  UNCHANGED dirs
  BY <1>5 DEF Reuse, Skip, ListVersions, PruneArtifacts, fileVars
<1>6. ASSUME NEW s \in Symbols, NEW c \in Contents, SilverChanges(s, c) PROVE UNCHANGED dirs
  BY <1>6 DEF SilverChanges, fileVars
<1>7. ASSUME NEW selected \in SUBSET Symbols, Start(selected) PROVE UNCHANGED dirs
  BY <1>7 DEF Start, fileVars
<1>8. ASSUME Finish PROVE UNCHANGED dirs
  BY <1>8 DEF Finish, fileVars
<1>9. ASSUME UNCHANGED retentionVars PROVE UNCHANGED dirs
  BY <1>9 DEF retentionVars, fileVars
<1> QED BY <1>1, <1>2, <1>3, <1>4, <1>5, <1>6, <1>7, <1>8, <1>9 DEF RetentionNext, Job

-----------------------------------------------------------------------------
(* Type correctness.                                                       *)

\* The type invariant without the flags, which the provers treat apart.
Flags == {running, auto} \subseteq BOOLEAN
JobStates == {"idle", "plan", "publish", "list", "prune", "done", "failed"}
Targets == [version : Versions, content : Contents] \cup {None}
Shape ==
    /\ input \in [Symbols -> Contents]
    /\ artifacts \subseteq ever
    /\ ever \subseteq [symbol : Symbols, version : Versions, content : Contents,
                       time : 1..clock]
    /\ dirs \subseteq Versions
    /\ clock \in Nat
    /\ phase \in [Symbols -> JobStates]
    /\ target \in [Symbols -> Targets]
    /\ doomed \in [Symbols -> SUBSET Versions]
    /\ reports \subseteq Identities /\ declared \subseteq Identities
    /\ commands \in 0..MaxCommands /\ changes \in 0..MaxChanges

LEMMA ShapeAndFlags == RetentionTypeOK <=> Shape /\ Flags
BY Zenon DEF RetentionTypeOK, Shape, Flags, JobStates, Targets

LEMMA RetentionInitTypeOK == RetentionInit => RetentionTypeOK
<1> SUFFICES ASSUME RetentionInit PROVE RetentionTypeOK
  OBVIOUS
<1>1. Shape
  BY DEF RetentionInit, Shape, JobStates, Targets
<1>2. Flags
  BY Zenon DEF RetentionInit, Flags
<1> QED BY <1>1, <1>2, ShapeAndFlags

LEMMA FlagsNext == Flags /\ [RetentionNext]_retentionVars => Flags'
<1> SUFFICES ASSUME Flags, [RetentionNext]_retentionVars PROVE Flags'
  OBVIOUS
<1>1. ASSUME running' = running /\ auto' = auto PROVE Flags'
  BY <1>1, Zenon DEF Flags
<1>2. ASSUME NEW s \in Symbols, Job(s) PROVE running' = running /\ auto' = auto
  <2>1. ASSUME Publish(s) PROVE running' = running /\ auto' = auto
    BY <2>1 DEF Publish, commandVars
  <2>2. ASSUME RemoveVersion(s) PROVE running' = running /\ auto' = auto
    BY <2>2 DEF RemoveVersion, commandVars
  <2> QED BY <1>2, <2>1, <2>2 DEF Job, Reuse, Skip, Plan, ListVersions, PruneArtifacts, commandVars
<1>3. ASSUME NEW s \in Symbols, NEW c \in Contents, SilverChanges(s, c)
      PROVE  running' = running /\ auto' = auto
  BY <1>3 DEF SilverChanges, commandVars
<1>4. ASSUME NEW selected \in SUBSET Symbols, Start(selected) PROVE Flags'
  <2>1. running' = TRUE /\ auto' \in BOOLEAN
    BY <1>4 DEF Start
  <2> QED BY <2>1, Zenon DEF Flags
<1>5. ASSUME Finish PROVE Flags'
  <2>1. running' = FALSE /\ auto' = auto
    BY <1>5 DEF Finish
  <2> QED BY <2>1, Zenon DEF Flags
<1>6. ASSUME UNCHANGED retentionVars PROVE running' = running /\ auto' = auto
  BY <1>6 DEF retentionVars, commandVars
<1> QED BY <1>1, <1>2, <1>3, <1>4, <1>5, <1>6 DEF RetentionNext

LEMMA NewArtifact ==
    ASSUME Shape, Numbered, NEW s \in Symbols, phase[s] = "publish"
    PROVE  New(s) \in [symbol : Symbols, version : Versions, content : Contents, time : 1..(clock + 1)]
<1>1. target[s] \in [version : Versions, content : Contents]
  BY DEF Shape, Numbered, Targets
<1> QED BY <1>1 DEF New, Shape

LEMMA ShapeNext == Shape /\ Flags /\ Numbered /\ [RetentionNext]_retentionVars => Shape'
<1> SUFFICES ASSUME Shape, RetentionTypeOK, Numbered, [RetentionNext]_retentionVars PROVE Shape'
  BY ShapeAndFlags
<1>1. ASSUME NEW s \in Symbols, Reuse(s) PROVE Shape'
  <2>1. PICK a \in Reusable(s) : Report(s, Identity(a))
    BY <1>1 DEF Reuse
  <2>2. Identity(a) \in Identities
    BY DEF Reusable, Of, Shape, Identity, Identities
  <2> QED BY <1>1, <2>1, <2>2 DEF Shape, Reuse, Report, fileVars, JobStates
<1>2. ASSUME NEW s \in Symbols, Skip(s) PROVE Shape'
  BY <1>2 DEF Shape, Skip, fileVars, commandVars, JobStates
<1>3. ASSUME NEW s \in Symbols, Plan(s) PROVE Shape'
  <2>1. NextVersion(s) \in Versions
    BY <1>3, NextVersionBound DEF Plan
  <2>2. [version |-> NextVersion(s), content |-> input[s]] \in Targets
    BY <2>1 DEF Shape, Targets
  <2> QED BY <1>3, <2>1, <2>2 DEF Shape, Plan, commandVars, JobStates
<1>4. ASSUME NEW s \in Symbols, Crashed(s) PROVE Shape'
  BY <1>4 DEF Shape, Crashed, fileVars, commandVars, JobStates
<1>5. ASSUME NEW s \in Symbols, Published(s) PROVE Shape'
  <2>1. New(s) \in [symbol : Symbols, version : Versions, content : Contents, time : 1..(clock + 1)]
    BY <1>5, NewArtifact DEF Published
  <2>2. ever' \subseteq [symbol : Symbols, version : Versions, content : Contents, time : 1..clock']
    BY <1>5, <2>1 DEF Published, Replaced, Shape
  <2>3. artifacts' \subseteq ever'
    BY <1>5 DEF Published, Replaced, Shape
  <2> QED BY <1>5, <2>2, <2>3 DEF Shape, Published, commandVars, JobStates
<1>6. ASSUME NEW s \in Symbols, ListVersions(s) PROVE Shape'
  BY <1>6 DEF Shape, ListVersions, fileVars, commandVars, JobStates
<1>7. ASSUME NEW s \in Symbols, NEW v, VersionRemoved(s, v) PROVE Shape'
  BY <1>7 DEF Shape, VersionRemoved, commandVars
<1>8. ASSUME NEW s \in Symbols, PruneArtifacts(s) PROVE Shape'
  <2>1. <<s, target[s].version, target[s].content>> \in Identities
    BY <1>8 DEF PruneArtifacts, Numbered, Shape, Targets, Identities
  <2> QED BY <1>8, <2>1 DEF Shape, PruneArtifacts, Report, JobStates
<1>9. ASSUME NEW s \in Symbols, NEW c \in Contents, SilverChanges(s, c) PROVE Shape'
  BY <1>9 DEF Shape, SilverChanges, fileVars, jobVars, commandVars
<1>10. ASSUME NEW selected \in SUBSET Symbols, Start(selected) PROVE Shape'
  BY <1>10 DEF Shape, Start, fileVars, JobStates
<1>11. ASSUME Finish PROVE Shape'
  BY <1>11 DEF Shape, Finish, fileVars, JobStates, Targets
<1>12. ASSUME UNCHANGED retentionVars PROVE Shape'
  BY <1>12 DEF Shape, retentionVars, fileVars, jobVars, commandVars
<1> QED BY <1>1, <1>2, <1>3, <1>4, <1>5, <1>6, <1>7, <1>8, <1>9, <1>10, <1>11, <1>12,
           PublishOutcomes, RemoveOutcomes DEF RetentionNext, Job

LEMMA RetentionTypeOKNext == RetentionTypeOK /\ Numbered /\ [RetentionNext]_retentionVars => RetentionTypeOK'
<1> SUFFICES ASSUME RetentionTypeOK, Numbered, [RetentionNext]_retentionVars PROVE Shape' /\ Flags'
  <2>1. (Shape' /\ Flags') => RetentionTypeOK'
    BY Zenon DEF RetentionTypeOK, Shape, Flags, JobStates, Targets, Versions, Identities
  <2> QED BY <2>1
<1> QED BY ShapeAndFlags, ShapeNext, FlagsNext

-----------------------------------------------------------------------------
(* What was published: finite, numbered, told apart by identity and time.  *)

Catalogued == IsFiniteSet(ever) /\ Numbered /\ Distinct

LEMMA EverFinite == IsFiniteSet(ever) /\ [RetentionNext]_retentionVars => IsFiniteSet(ever')
<1> SUFFICES ASSUME IsFiniteSet(ever), [RetentionNext]_retentionVars PROVE IsFiniteSet(ever')
  OBVIOUS
<1>1. ever' = ever \/ \E s \in Symbols : ever' = Replaced(ever, New(s))
  BY PublishOutcomes, RemoveOutcomes
  DEF RetentionNext, Job, Reuse, Skip, Plan, ListVersions, PruneArtifacts, SilverChanges, Start, Finish,
      retentionVars, fileVars, Published, Crashed, VersionRemoved
<1>2. ASSUME NEW new PROVE IsFiniteSet(Replaced(ever, new))
  <2>1. IsFiniteSet({a \in ever : Identity(a) # Identity(new)})
    BY FS_Subset
  <2> QED BY <2>1, FS_AddElement DEF Replaced
<1> QED BY <1>1, <1>2

LEMMA DistinctNext == RetentionTypeOK /\ Distinct /\ Numbered /\ [RetentionNext]_retentionVars => Distinct'
<1> SUFFICES ASSUME Shape, Distinct, Numbered, [RetentionNext]_retentionVars PROVE Distinct'
  BY ShapeAndFlags
<1>1. ASSUME ever' = ever PROVE Distinct'
  BY <1>1 DEF Distinct, Identity
<1>2. ASSUME NEW s \in Symbols, Published(s) PROVE Distinct'
  <2>1. \A a \in ever : a.time \in Nat /\ a.time # New(s).time
    BY DEF Shape, New
  <2> QED BY <1>2, <2>1 DEF Published, Replaced, Distinct, Identity
<1>3. ever' = ever \/ \E s \in Symbols : Published(s)
  BY PublishOutcomes, RemoveOutcomes
  DEF RetentionNext, Job, Reuse, Skip, Plan, ListVersions, PruneArtifacts, SilverChanges, Start, Finish,
      retentionVars, fileVars, Crashed, VersionRemoved
<1> QED BY <1>1, <1>2, <1>3

LEMMA NumberedNext == RetentionTypeOK /\ Numbered /\ [RetentionNext]_retentionVars => Numbered'
<1> SUFFICES ASSUME Shape, RetentionTypeOK, Numbered, [RetentionNext]_retentionVars PROVE Numbered'
  BY ShapeAndFlags
<1>1. ASSUME ever' = ever, commands' = commands, target' = target,
             \A s \in Symbols : phase'[s] \in {"plan", "publish", "list", "prune"} =>
               phase[s] = phase'[s] \/ (phase[s] \in {"publish", "list"} /\ phase'[s] \in {"list", "prune"})
      PROVE  Numbered'
  BY <1>1 DEF Numbered, Shape
<1>2. ASSUME NEW s \in Symbols, Plan(s) PROVE Numbered'
  <2>1. NextVersion(s) \in Versions /\ NextVersion(s) <= commands
    BY <1>2, NextVersionBound DEF Plan
  <2>2. target'[s].version = NextVersion(s) /\ target'[s] # None
    BY <1>2, <2>1 DEF Plan, Shape, None, Versions
  <2> QED BY <1>2, <2>1, <2>2 DEF Plan, Numbered, Shape, commandVars
<1>3. ASSUME NEW s \in Symbols, Published(s) PROVE Numbered'
  <2>1. New(s).version <= commands
    BY DEF New, Numbered
  <2> QED BY <1>3, <2>1 DEF Published, Replaced, Numbered, Shape, New, commandVars
<1>4. ASSUME NEW selected \in SUBSET Symbols, Start(selected) PROVE Numbered'
  BY <1>4 DEF Start, Numbered, Shape, fileVars, Targets, None, Versions
<1>5. ASSUME Finish PROVE Numbered'
  BY <1>5 DEF Finish, Numbered, Shape, fileVars, None
<1>6. ASSUME NEW s \in Symbols,
             Reuse(s) \/ Skip(s) \/ ListVersions(s) \/ PruneArtifacts(s) \/ Crashed(s)
               \/ \E v \in doomed[s] : VersionRemoved(s, v)
      PROVE  Numbered'
  BY <1>6, <1>1 DEF Reuse, Skip, ListVersions, PruneArtifacts, Crashed, VersionRemoved, Report,
                    fileVars, commandVars, Shape
<1>7. ASSUME (\E s \in Symbols, c \in Contents : SilverChanges(s, c)) \/ UNCHANGED retentionVars
      PROVE  Numbered'
  BY <1>7, <1>1 DEF SilverChanges, retentionVars, fileVars, jobVars, commandVars
<1> QED BY <1>2, <1>3, <1>4, <1>5, <1>6, <1>7, PublishOutcomes, RemoveOutcomes DEF RetentionNext, Job

-----------------------------------------------------------------------------
(* Version directories.                                                    *)

LEMMA SupersededNext ==
    ASSUME RetentionIInv, [RetentionNext]_retentionVars, NEW v \in Nat, Superseded(v)
    PROVE  Superseded(v)'
<1>1. dirs \subseteq Versions
  BY DEF RetentionIInv, RetentionTypeOK
<1> QED BY <1>1, DirsChange, SupersededStays

LEMMA DoomedNext == RetentionIInv /\ [RetentionNext]_retentionVars => DoomedSuperseded'
<1> SUFFICES ASSUME RetentionIInv, [RetentionNext]_retentionVars PROVE DoomedSuperseded'
  OBVIOUS
<1>1. SUFFICES ASSUME NEW s \in Symbols, NEW v \in doomed'[s] PROVE Superseded(v)
  <2>1. \A s \in Symbols : doomed'[s] \subseteq Nat
    BY RetentionTypeOKNext DEF RetentionIInv, RetentionTypeOK, Versions
  <2> QED BY <2>1, SupersededNext DEF DoomedSuperseded
<1>2. CASE v \in doomed[s]
  BY <1>2 DEF RetentionIInv, DoomedSuperseded
<1>3. ASSUME v \notin doomed[s] PROVE ListVersions(s)
  <2>1. doomed \in [Symbols -> SUBSET Versions]
    BY DEF RetentionIInv, RetentionTypeOK
  <2>2. ASSUME NEW t \in Symbols, ListVersions(t) PROVE t = s
    BY <1>3, <2>1, <2>2 DEF ListVersions
  <2>3. ASSUME NEW t \in Symbols, NEW u, VersionRemoved(t, u) PROVE FALSE
    BY <1>3, <2>1, <2>3 DEF VersionRemoved
  <2>4. ASSUME Finish PROVE FALSE
    BY <2>4 DEF Finish
  <2>5. doomed' # doomed
    BY <1>3
  <2> QED BY <2>2, <2>3, <2>4, <2>5, PublishOutcomes, RemoveOutcomes
    DEF RetentionNext, Job, Reuse, Skip, Plan, PruneArtifacts, SilverChanges, Start,
        retentionVars, jobVars, Published, Crashed
<1>4. ASSUME ListVersions(s) PROVE v \in dirs \ Top(Keep, dirs, Newer)
  BY <1>4 DEF ListVersions, RetentionIInv, RetentionTypeOK
<1> QED BY <1>2, <1>3, <1>4, ListedAreSuperseded DEF RetentionIInv, RetentionTypeOK

LEMMA RemovedNext ==
    ASSUME RetentionIInv, [RetentionNext]_retentionVars, NEW v \in dirs \ dirs'
    PROVE  v \in Versions /\ DirRemoved(v)
<1>1. dirs \subseteq Versions
  BY DEF RetentionIInv, RetentionTypeOK
<1> QED BY <1>1, DirsChange DEF DirsKept, DirAdded, DirRemoved

-----------------------------------------------------------------------------
(* Artifacts.                                                              *)

\* Artifacts of s that are ahead of a in the order prune_gold_artifacts keeps.
Ahead(S, a) == {b \in S : NewerArtifact(b, a)}

\* Artifacts disappear by being replaced, with their version, or by their own job's pruning.
LEMMA ArtifactsChange ==
    ASSUME RetentionIInv, [RetentionNext]_retentionVars
    PROVE  \/ artifacts' = artifacts /\ ever' = ever
           \/ \E s \in Symbols : Published(s)
           \/ \E s \in Symbols : \E v \in Versions : VersionRemoved(s, v) /\ DirRemoved(v)
           \/ \E s \in Symbols : PruneArtifacts(s)
<1>1. ASSUME NEW s \in Symbols, NEW v \in doomed[s], VersionRemoved(s, v)
      PROVE  v \in Versions /\ DirRemoved(v)
  BY <1>1, RemovedNext DEF VersionRemoved
<1> QED BY <1>1, PublishOutcomes, RemoveOutcomes
    DEF RetentionNext, Job, Reuse, Skip, Plan, ListVersions, SilverChanges, Start, Finish,
        retentionVars, fileVars, Crashed

\* The number of artifacts ahead does not shrink when one is published.
LEMMA AheadOfPublished ==
    ASSUME RetentionTypeOK, IsFiniteSet(ever), Distinct, NEW s \in Symbols, Published(s),
           NEW a \in ever, Identity(a) # Identity(New(s)), a.symbol = s
    PROVE  Cardinality(Ahead({b \in ever : b.symbol = s}, a))
             <= Cardinality(Ahead({b \in ever' : b.symbol = s}, a))
<1> DEFINE earlier == Ahead({b \in ever : b.symbol = s}, a)
           later == Ahead({b \in ever' : b.symbol = s}, a)
<1> SUFFICES Cardinality(earlier) <= Cardinality(later)
  OBVIOUS
<1>1. IsFiniteSet(earlier) /\ IsFiniteSet(ever')
  <2>1. IsFiniteSet({b \in ever : Identity(b) # Identity(New(s))})
    BY FS_Subset
  <2>2. IsFiniteSet(ever')
    BY <2>1, FS_AddElement DEF Published, Replaced
  <2> QED BY <2>2, FS_Subset DEF Ahead
<1>2. IsFiniteSet(later)
  BY <1>1, FS_Subset DEF Ahead
<1>3. New(s).time \in Nat /\ New(s).symbol = s /\ New(s) \in ever'
      /\ \A b \in ever : b.time < New(s).time
  BY DEF RetentionTypeOK, New, Published, Replaced
<1>4. \A b \in ever : Identity(b) # Identity(New(s)) => b \in ever'
  BY DEF Published, Replaced
<1>5. CASE \A b \in earlier : Identity(b) # Identity(New(s))
  <2>1. earlier \subseteq later
    BY <1>4, <1>5 DEF Ahead
  <2> HIDE DEF earlier, later
  <2> QED BY <1>2, <2>1, FS_Subset
<1>6. ASSUME NEW old \in earlier, Identity(old) = Identity(New(s)) PROVE
        Cardinality(earlier) <= Cardinality(later)
  <2>1. old \in ever /\ NewerArtifact(old, a)
    BY DEF Ahead
  <2>2. New(s) \in later
    BY <1>3, <1>6, <2>1 DEF Ahead, NewerArtifact, Identity, RetentionTypeOK
  <2>3. (earlier \ {old}) \cup {New(s)} \subseteq later
    BY <1>4, <1>6, <2>1, <2>2 DEF Ahead, Distinct
  <2>4. New(s) \notin earlier
    BY <1>3 DEF Ahead
  <2> HIDE DEF earlier, later
  <2>5. /\ IsFiniteSet(earlier \ {old}) /\ Cardinality(earlier) \in Nat
        /\ Cardinality(earlier \ {old}) = Cardinality(earlier) - 1
    BY <1>1, FS_RemoveElement, FS_CardinalityType
  <2>6. Cardinality((earlier \ {old}) \cup {New(s)}) = Cardinality(earlier)
    <3>1. New(s) \notin earlier \ {old}
      BY <2>4
    <3>2. Cardinality((earlier \ {old}) \cup {New(s)}) = Cardinality(earlier \ {old}) + 1
      BY <2>5, <3>1, FS_AddElement
    <3> QED BY <2>5, <3>2
  <2> QED BY <1>2, <2>3, <2>6, FS_Subset
<1> QED BY <1>5, <1>6

EverOf(s) == {a \in ever : a.symbol = s}

LEMMA IsLatest ==
    ASSUME NEW s, NEW a
    PROVE  a \in LatestOf(s) <=> a \in EverOf(s) /\ Cardinality(Ahead(EverOf(s), a)) < Keep
BY DEF LatestOf, Top, Ahead, EverOf

LEMMA IsLatestNext ==
    ASSUME NEW s, NEW a
    PROVE  a \in LatestOf(s)' <=> a \in EverOf(s)' /\ Cardinality(Ahead(EverOf(s)', a)) < Keep
BY DEF LatestOf, Top, Ahead, EverOf

LEMMA AheadFinite ==
    ASSUME NEW S, IsFiniteSet(S), NEW a
    PROVE  IsFiniteSet(Ahead(S, a)) /\ Cardinality(Ahead(S, a)) \in Nat
BY FS_Subset, FS_CardinalityType DEF Ahead

\* The artifact stays, as far as its own job's pruning is concerned.
LEMMA LatestNotPruned ==
    ASSUME RetentionTypeOK, IsFiniteSet(ever), NEW s \in Symbols, NEW a \in LatestOf(s), a \in artifacts
    PROVE  a \in Top(Keep, Of(s), NewerArtifact)
<1>1. a \in Of(s) /\ Of(s) \subseteq EverOf(s) /\ IsFiniteSet(EverOf(s))
  BY IsLatest, FS_Subset DEF Of, EverOf, RetentionTypeOK
<1>2. Ahead(Of(s), a) \subseteq Ahead(EverOf(s), a)
  BY <1>1 DEF Ahead
<1>3. Cardinality(Ahead(Of(s), a)) <= Cardinality(Ahead(EverOf(s), a))
  BY <1>1, <1>2, AheadFinite, FS_Subset
<1>4. Cardinality(Ahead(Of(s), a)) \in Nat /\ Cardinality(Ahead(EverOf(s), a)) \in Nat
  BY <1>1, AheadFinite, FS_Subset
<1>5. Cardinality(Ahead(Of(s), a)) < Keep
  BY <1>3, <1>4, IsLatest
<1> QED BY <1>1, <1>5 DEF Top, Ahead

LEMMA RetainsNext == RetentionIInv /\ [RetentionNext]_retentionVars => RetainsUnlessSuperseded'
<1> SUFFICES ASSUME RetentionIInv, [RetentionNext]_retentionVars, NEW s \in Symbols, NEW a \in LatestOf(s)'
             PROVE  a \in artifacts' \/ Superseded(a.version)'
  BY DEF RetainsUnlessSuperseded
<1>0. RetentionTypeOK /\ RetentionTypeOK' /\ IsFiniteSet(ever) /\ IsFiniteSet(ever')
  BY RetentionTypeOKNext, EverFinite DEF RetentionIInv
<1>1. a \in EverOf(s)' /\ Cardinality(Ahead(EverOf(s)', a)) < Keep /\ a.version \in Nat
  <2>1. a \in EverOf(s)' /\ Cardinality(Ahead(EverOf(s)', a)) < Keep
    BY IsLatestNext
  <2>2. a.version \in Nat
    BY <1>0, <2>1 DEF EverOf, RetentionTypeOK, Versions
  <2> QED BY <2>1, <2>2
<1>2. ASSUME a \in LatestOf(s) PROVE a \in artifacts \/ Superseded(a.version)'
  BY <1>1, <1>2, SupersededNext DEF RetentionIInv, RetainsUnlessSuperseded
<1>3. ASSUME EverOf(s)' = EverOf(s) PROVE a \in LatestOf(s)
  BY <1>1, <1>3, IsLatest
<1>4. CASE artifacts' = artifacts /\ ever' = ever
  BY <1>2, <1>3, <1>4 DEF EverOf
<1>5. ASSUME NEW t \in Symbols, Published(t) PROVE a \in artifacts' \/ Superseded(a.version)'
  <2>1. CASE a = New(t)
    BY <1>5, <2>1 DEF Published, Replaced
  <2>2. CASE a # New(t)
    <3>1. a \in ever /\ a.symbol = s /\ Identity(a) # Identity(New(t))
      BY <1>1, <1>5, <2>2 DEF EverOf, Published, Replaced
    <3>2. a \in LatestOf(s)
      <4>1. CASE t = s
        <5>1. Cardinality(Ahead(EverOf(s), a)) <= Cardinality(Ahead(EverOf(s)', a))
          BY <1>0, <1>5, <3>1, <4>1, AheadOfPublished DEF RetentionIInv, EverOf
        <5>2. /\ Cardinality(Ahead(EverOf(s), a)) \in Nat
              /\ Cardinality(Ahead(EverOf(s)', a)) \in Nat
          BY <1>0, AheadFinite, FS_Subset DEF EverOf
        <5> QED BY <1>1, <3>1, <5>1, <5>2, IsLatest DEF EverOf
      <4>2. CASE t # s
        BY <1>3, <1>5, <4>2 DEF Published, Replaced, EverOf, Identity, New
      <4> QED BY <4>1, <4>2
    <3> QED BY <1>2, <1>5, <3>1, <3>2 DEF Published, Replaced
  <2> QED BY <2>1, <2>2
<1>6. ASSUME NEW t \in Symbols, NEW v \in Versions, VersionRemoved(t, v), DirRemoved(v)
      PROVE  a \in artifacts' \/ Superseded(a.version)'
  <2>1. a \in artifacts \/ Superseded(a.version)'
    BY <1>2, <1>3, <1>6 DEF VersionRemoved, EverOf
  <2>2. Superseded(v)'
    BY <1>0, <1>6, RemovedIsSuperseded DEF RetentionTypeOK
  <2> QED BY <1>6, <2>1, <2>2 DEF VersionRemoved
<1>7. ASSUME NEW t \in Symbols, PruneArtifacts(t) PROVE a \in artifacts' \/ Superseded(a.version)'
  <2>1. a \in LatestOf(s)
    BY <1>3, <1>7 DEF PruneArtifacts, EverOf
  <2>2. CASE a \in artifacts
    <3>1. a \in Top(Keep, Of(s), NewerArtifact) /\ a.symbol = s
      BY <1>0, <1>1, <2>1, <2>2, LatestNotPruned DEF EverOf
    <3> QED BY <1>7, <2>2, <3>1 DEF PruneArtifacts, Of
  <2> QED BY <1>2, <2>1, <2>2
<1> QED BY <1>4, <1>5, <1>6, <1>7, ArtifactsChange

-----------------------------------------------------------------------------
(* Reports and the publication result.                                     *)

LEMMA OfFinite ==
    ASSUME RetentionTypeOK, IsFiniteSet(ever), NEW s
    PROVE  /\ IsFiniteSet(Of(s)) /\ Of(s) \subseteq ever
           /\ \A a \in Of(s) : a.version \in Nat /\ a.time \in Nat /\ a.symbol = s
BY FS_Subset DEF Of, RetentionTypeOK, Versions

LEMMA NewestFirst ==
    ASSUME RetentionTypeOK, IsFiniteSet(ever), NEW s
    PROVE  StrictOrder(Of(s), [a \in Of(s) |-> Ahead(Of(s), a)])
<1> DEFINE ahead == [a \in Of(s) |-> Ahead(Of(s), a)]
<1>1. ahead \in [Of(s) -> SUBSET Of(s)]
  BY DEF Ahead
<1>2. ASSUME NEW a \in Of(s) PROVE a \notin ahead[a]
  BY OfFinite DEF Ahead, NewerArtifact
<1>3. ASSUME NEW a \in Of(s), NEW b \in ahead[a] PROVE ahead[b] \subseteq ahead[a]
  <2>1. b \in Of(s) /\ NewerArtifact(b, a)
    BY <1>3 DEF Ahead
  <2>2. ASSUME NEW c \in Of(s), NewerArtifact(c, b) PROVE NewerArtifact(c, a)
    BY <2>1, <2>2, OfFinite DEF NewerArtifact
  <2> QED BY <2>1, <2>2 DEF Ahead
<1> QED BY <1>1, <1>2, <1>3 DEF StrictOrder

\* What a job reports after pruning is on disk, or the pruning itself ranked it behind
\* Keep artifacts of newer versions.
LEMMA PrunedIsFound ==
    ASSUME RetentionIInv, NEW s \in Symbols, PruneArtifacts(s)
    PROVE  Found(<<s, target[s].version, target[s].content>>)'
<1> DEFINE d == <<s, target[s].version, target[s].content>>
           kept == {x \in Of(s) : Cardinality(Ahead(Of(s), x)) < Keep}
           ahead == [x \in Of(s) |-> Ahead(Of(s), x)]
<1>0. /\ RetentionTypeOK /\ IsFiniteSet(ever) /\ dirs' = dirs /\ target' = target
      /\ target[s].version \in Nat
  BY DEF RetentionIInv, PruneArtifacts, RetentionTypeOK, Versions, None
<1>1. Of(s)' = kept
  BY DEF PruneArtifacts, Of, Top, Ahead
<1>2. CASE Superseded(target[s].version)
  <2>1. Superseded(target[s].version)'
    BY <1>0, <1>2 DEF Superseded
  <2> QED BY <2>1 DEF Found
<1>3. ASSUME NEW a \in Of(s), Identity(a) = d, \A b \in Of(s) : b.time <= a.time
      PROVE  Found(d)'
  <2>1. CASE a \in kept
    BY <1>0, <1>1, <1>3, <2>1 DEF Found, OnDisk, Of, Identity
  <2>2. CASE a \notin kept
    <3>1. /\ IsFiniteSet(Of(s)) /\ StrictOrder(Of(s), ahead)
          /\ \A x \in Of(s) : ahead[x] = Ahead(Of(s), x) /\ Cardinality(ahead[x]) \in Nat
      BY <1>0, OfFinite, NewestFirst, AheadFinite
    <3>2. Keep <= Cardinality(ahead[a]) /\ Cardinality(ahead[a]) <= Cardinality(Of(s))
      <4>1. Cardinality(Ahead(Of(s), a)) <= Cardinality(Of(s))
        BY <3>1, FS_Subset DEF Ahead
      <4> QED BY <2>2, <3>1, <4>1
    <3>3. kept = {x \in Of(s) : Cardinality(ahead[x]) < Keep}
      BY <3>1
    <3>4. Cardinality(kept) >= Keep
      <4>1. Keep <= Cardinality(Of(s)) /\ Keep \in Nat
        BY <3>1, <3>2, FS_CardinalityType
      <4> HIDE DEF kept, ahead
      <4> QED BY <3>1, <3>3, <4>1, FirstMany
    <3>5. ASSUME NEW b \in kept PROVE b.version > a.version
      <4>1. b \in Of(s) /\ Cardinality(ahead[b]) < Keep
        BY <3>1
      <4>2. ~NewerArtifact(a, b)
        <5>1. SUFFICES ASSUME a \in ahead[b] PROVE FALSE
          BY <4>1 DEF Ahead
        <5>2. Cardinality(ahead[a]) < Cardinality(ahead[b])
          <6> HIDE DEF ahead
          <6> QED BY <3>1, <4>1, <5>1, FewerAhead
        <5> QED BY <3>1, <3>2, <4>1, <5>2
      <4>3. a # b /\ b.time <= a.time /\ a \in ever /\ b \in ever
        BY <1>0, <1>3, <2>2, <4>1, OfFinite
      <4>4. a.time # b.time
        BY <4>3 DEF RetentionIInv, Distinct
      <4> QED BY <1>0, <4>1, <4>2, <4>3, <4>4, OfFinite DEF NewerArtifact
    <3>6. {b \in Of(s)' : b.version > d[2]} = kept
      <4>1. a.version = d[2]
        BY <1>3 DEF Identity
      <4> QED BY <1>1, <3>5, <4>1
    <3>7. Outranked(d)'
      BY <1>0, <3>4, <3>6 DEF Outranked
    <3> QED BY <3>7 DEF Found
  <2> QED BY <2>1, <2>2
<1> QED BY <1>0, <1>2, <1>3 DEF RetentionIInv, PublishedStands, PruneArtifacts

\* Other jobs leave what was reported on disk, or supersede it.
LEMMA FoundStays ==
    ASSUME RetentionIInv, [RetentionNext]_retentionVars, NEW d \in Identities, Found(d),
           phase[d[1]] \notin {"publish", "prune"}
    PROVE  Found(d)'
<1>0. RetentionTypeOK /\ IsFiniteSet(ever) /\ d[1] \in Symbols /\ d[2] \in Nat /\ d[2] \in Versions
  BY DEF RetentionIInv, Identities, Versions
<1>1. CASE Superseded(d[2])
  BY <1>0, <1>1, SupersededNext DEF Found
<1>2. ASSUME Of(d[1])' = Of(d[1]), ~Superseded(d[2]) PROVE Found(d)'
  <2>1. d \in OnDisk \/ Outranked(d)
    BY <1>2 DEF Found
  <2>2. d \in OnDisk => d \in OnDisk'
    BY <1>2 DEF OnDisk, Of, Identity
  <2>3. Outranked(d) => Outranked(d)'
    BY <1>2 DEF Outranked
  <2> QED BY <2>1, <2>2, <2>3 DEF Found
<1>3. ASSUME NEW t \in Symbols, Published(t) PROVE Of(d[1])' = Of(d[1])
  BY <1>0, <1>3 DEF Published, Replaced, Of, New, Identity
<1>4. ASSUME NEW t \in Symbols, PruneArtifacts(t) PROVE Of(d[1])' = Of(d[1])
  BY <1>0, <1>4 DEF PruneArtifacts, Of
<1>5. ASSUME NEW t \in Symbols, NEW v \in Versions, VersionRemoved(t, v), DirRemoved(v),
             ~Superseded(d[2])
      PROVE  Found(d)'
  <2>0. \A u \in Nat : u <= v => Superseded(u)'
    BY <1>0, <1>5, RemovedIsSuperseded DEF RetentionTypeOK
  <2>1. CASE d \in OnDisk
    <3>1. PICK a \in artifacts : Identity(a) = d
      BY <2>1 DEF OnDisk
    <3>2. CASE a.version = v
      <4>1. d[2] <= v
        BY <1>0, <3>1, <3>2 DEF Identity
      <4> QED BY <1>0, <2>0, <4>1 DEF Found
    <3>3. CASE a.version # v
      BY <1>5, <3>1, <3>3 DEF VersionRemoved, Found, OnDisk, Identity
    <3> QED BY <3>2, <3>3
  <2>2. CASE Outranked(d)
    <3>1. CASE v >= d[2]
      BY <1>0, <2>0, <3>1 DEF Found, Versions
    <3>2. CASE ~(v >= d[2])
      <4>1. {a \in Of(d[1])' : a.version > d[2]} = {a \in Of(d[1]) : a.version > d[2]}
        BY <1>0, <1>5, <3>2 DEF VersionRemoved, Of, Versions
      <4> QED BY <2>2, <4>1 DEF Found, Outranked
    <3> QED BY <3>1, <3>2
  <2> QED BY <1>5, <2>1, <2>2 DEF Found
<1>6. CASE artifacts' = artifacts
  BY <1>1, <1>2, <1>6 DEF Of
<1> QED BY <1>1, <1>2, <1>3, <1>4, <1>5, <1>6, ArtifactsChange

LEMMA ReportsNext == RetentionIInv /\ [RetentionNext]_retentionVars => ReportsStand'
<1> SUFFICES ASSUME RetentionIInv, [RetentionNext]_retentionVars PROVE ReportsStand'
  OBVIOUS
<1>0. RetentionTypeOK /\ ReportsStand
  BY DEF RetentionIInv
<1>1. ASSUME NEW d \in reports, phase'[d[1]] = phase[d[1]] PROVE Found(d)' /\ phase'[d[1]] = "done"
  BY <1>0, <1>1, FoundStays DEF ReportsStand, RetentionTypeOK
<1>2. ASSUME reports' = reports, declared' = declared,
             \E s \in Symbols : /\ phase[s] \notin {"idle", "done"}
                                /\ \A t \in Symbols \ {s} : phase'[t] = phase[t]
      PROVE  ReportsStand'
  <2>1. declared' = {}
    BY <1>0, <1>2 DEF ReportsStand
  <2>2. \A d \in reports : phase'[d[1]] = phase[d[1]]
    BY <1>0, <1>2 DEF ReportsStand, RetentionTypeOK, Identities
  <2> QED BY <1>1, <1>2, <2>1, <2>2 DEF ReportsStand
<1>3. ASSUME NEW s \in Symbols, NEW d \in Identities, d[1] = s, Found(d)',
             phase[s] \in {"plan", "prune"}, phase' = [phase EXCEPT ![s] = "done"],
             reports' = reports \cup {d}, declared' = declared
      PROVE  ReportsStand'
  <2>1. declared' = {}
    BY <1>0, <1>3 DEF ReportsStand
  <2>2. \A e \in reports : phase'[e[1]] = phase[e[1]]
    BY <1>0, <1>3 DEF ReportsStand, RetentionTypeOK
  <2>3. phase'[d[1]] = "done"
    BY <1>0, <1>3 DEF RetentionTypeOK
  <2> QED BY <1>1, <1>3, <2>1, <2>2, <2>3 DEF ReportsStand
<1>4. ASSUME NEW s \in Symbols, Reuse(s) PROVE ReportsStand'
  <2>1. PICK a \in Reusable(s) : Report(s, Identity(a))
    BY <1>4 DEF Reuse
  <2>2. a \in Of(s) /\ Identity(a) \in Identities /\ Identity(a)[1] = s
    BY <1>0 DEF Reusable, Of, RetentionTypeOK, Identity, Identities
  <2>3. Found(Identity(a))'
    BY <1>4, <2>2 DEF Reuse, fileVars, Found, OnDisk, Of
  <2>4. phase[s] = "plan" /\ declared' = declared
    BY <1>4 DEF Reuse
  <2> QED BY <1>3, <2>1, <2>2, <2>3, <2>4 DEF Report
<1>5. ASSUME NEW s \in Symbols, PruneArtifacts(s) PROVE ReportsStand'
  <2>1. PICK d \in Identities : d = <<s, target[s].version, target[s].content>>
    BY <1>0, <1>5 DEF PruneArtifacts, RetentionIInv, Numbered, RetentionTypeOK, Identities
  <2>2. Found(d)'
    <3>1. d = <<s, target'[s].version, target'[s].content>>
      BY <1>5, <2>1 DEF PruneArtifacts
    <3> QED BY <1>5, <3>1, PrunedIsFound DEF Found, OnDisk, Outranked, Superseded
  <2>3. phase[s] = "prune" /\ declared' = declared /\ Report(s, d) /\ d[1] = s
    BY <1>5, <2>1 DEF PruneArtifacts
  <2> QED BY <1>3, <2>2, <2>3 DEF Report
<1>6. ASSUME NEW s \in Symbols,
             Skip(s) \/ Plan(s) \/ ListVersions(s) \/ Published(s) \/ Crashed(s)
               \/ \E v \in doomed[s] : VersionRemoved(s, v)
      PROVE  ReportsStand'
  <2>1. reports' = reports /\ declared' = declared
    BY <1>6 DEF Skip, Plan, ListVersions, Published, Crashed, VersionRemoved, commandVars
  <2>2. phase[s] \notin {"idle", "done"} /\ \A t \in Symbols \ {s} : phase'[t] = phase[t]
    BY <1>0, <1>6 DEF Skip, Plan, ListVersions, Published, Crashed, VersionRemoved, RetentionTypeOK
  <2> QED BY <1>2, <2>1, <2>2
<1>7. ASSUME (\E selected \in SUBSET Symbols : Start(selected)) \/ Finish PROVE ReportsStand'
  BY <1>7 DEF Start, Finish, ReportsStand
<1>8. ASSUME (\E s \in Symbols, c \in Contents : SilverChanges(s, c)) \/ UNCHANGED retentionVars
      PROVE  ReportsStand'
  <2>1. phase' = phase /\ reports' = reports /\ declared' = declared
    BY <1>8 DEF SilverChanges, retentionVars, jobVars, commandVars
  <2> QED BY <1>0, <1>1, <2>1 DEF ReportsStand
<1> QED BY <1>4, <1>5, <1>6, <1>7, <1>8, PublishOutcomes, RemoveOutcomes DEF RetentionNext, Job

LEMMA DeclaredNext == RetentionIInv /\ [RetentionNext]_retentionVars => DeclaredUnlessSuperseded'
<1> SUFFICES ASSUME RetentionIInv, [RetentionNext]_retentionVars, NEW d \in declared' PROVE Found(d)'
  BY DEF DeclaredUnlessSuperseded, Found
<1>0. RetentionTypeOK /\ ReportsStand
  BY DEF RetentionIInv
<1>1. CASE d \in declared
  <2>1. Found(d) /\ phase[d[1]] = "idle" /\ d \in Identities
    BY <1>0, <1>1 DEF RetentionIInv, DeclaredUnlessSuperseded, Found, ReportsStand, RetentionTypeOK, Identities
  <2> QED BY <2>1, FoundStays
<1>2. CASE d \notin declared
  <2>1. Finish
    BY <1>2, PublishOutcomes, RemoveOutcomes
    DEF RetentionNext, Job, Reuse, Skip, Plan, ListVersions, PruneArtifacts, SilverChanges, Start,
        retentionVars, commandVars, Published, Crashed, VersionRemoved
  <2>2. d \in reports
    BY <2>1 DEF Finish
  <2>3. Found(d) /\ phase[d[1]] = "done" /\ d \in Identities
    BY <1>0, <2>2 DEF ReportsStand, RetentionTypeOK
  <2> QED BY <2>3, FoundStays
<1> QED BY <1>1, <1>2

\* The artifact a job has published and not yet reported.
Stands(s) ==
    \/ Superseded(target[s].version)
    \/ \E a \in Of(s) : /\ Identity(a) = <<s, target[s].version, target[s].content>>
                        /\ \A b \in Of(s) : b.time <= a.time

LEMMA StandsNext == RetentionIInv /\ [RetentionNext]_retentionVars => PublishedStands'
<1> SUFFICES ASSUME RetentionIInv, [RetentionNext]_retentionVars, NEW s \in Symbols,
                    phase'[s] \in {"list", "prune"}
             PROVE  Stands(s)'
  BY DEF PublishedStands, Stands
<1>0. /\ RetentionTypeOK /\ target[s].version \in Nat /\ phase \in [Symbols -> JobStates]
      /\ phase[s] \in {"list", "prune"} => Stands(s)
  BY DEF RetentionIInv, RetentionTypeOK, Versions, None, JobStates, PublishedStands, Stands
<1>1. CASE Published(s)
  <2>1. New(s) \in Of(s)' /\ \A b \in Of(s)' : b.time <= New(s).time
    BY <1>0, <1>1 DEF Published, Replaced, Of, New, RetentionTypeOK
  <2>2. Identity(New(s)) = <<s, target'[s].version, target'[s].content>>
    BY <1>1 DEF Published, Identity, New
  <2> QED BY <2>1, <2>2 DEF Stands, Identity
<1>2. ASSUME ~Published(s) PROVE phase[s] \in {"list", "prune"} /\ target'[s] = target[s]
  <2>1. ASSUME NEW t \in Symbols, Published(t)
        PROVE  phase[s] \in {"list", "prune"} /\ target'[s] = target[s]
    BY <1>0, <1>2, <2>1 DEF Published
  <2>2. ASSUME NEW t \in Symbols,
               Reuse(t) \/ Skip(t) \/ Plan(t) \/ ListVersions(t) \/ PruneArtifacts(t) \/ Crashed(t)
                 \/ \E v \in doomed[t] : VersionRemoved(t, v)
        PROVE  phase[s] \in {"list", "prune"} /\ target'[s] = target[s]
    BY <1>0, <2>2 DEF Reuse, Report, Skip, Plan, ListVersions, PruneArtifacts, Crashed,
                      VersionRemoved, RetentionTypeOK
  <2>3. ASSUME (\E selected \in SUBSET Symbols : Start(selected)) \/ Finish PROVE FALSE
    BY <2>3 DEF Start, Finish
  <2>4. ASSUME (\E t \in Symbols, c \in Contents : SilverChanges(t, c)) \/ UNCHANGED retentionVars
        PROVE  phase[s] \in {"list", "prune"} /\ target'[s] = target[s]
    BY <2>4 DEF SilverChanges, retentionVars, jobVars
  <2> QED BY <2>1, <2>2, <2>3, <2>4, PublishOutcomes, RemoveOutcomes DEF RetentionNext, Job
<1>3. ASSUME target'[s] = target[s], Superseded(target[s].version) PROVE Stands(s)'
  <2>1. \A v \in Nat : Superseded(v) => Superseded(v)'
    BY SupersededNext
  <2> QED BY <1>0, <1>3, <2>1 DEF Stands, Superseded
<1>4. ASSUME target'[s] = target[s], Stands(s), Of(s)' = Of(s) PROVE Stands(s)'
  BY <1>3, <1>4 DEF Stands, Identity
<1>5. ASSUME NEW t \in Symbols, Published(t), ~Published(s) PROVE Of(s)' = Of(s)
  <2>1. t # s
    BY <1>5
  <2> QED BY <1>5, <2>1 DEF Published, Replaced, Of, New, Identity
<1>6. ASSUME NEW t \in Symbols, PruneArtifacts(t) PROVE Of(s)' = Of(s)
  <2>1. t # s
    BY <1>0, <1>6 DEF PruneArtifacts, Report
  <2> QED BY <1>6, <2>1 DEF PruneArtifacts, Of
<1>7. ASSUME NEW t \in Symbols, NEW v \in Versions, VersionRemoved(t, v), DirRemoved(v),
             target'[s] = target[s], Stands(s)
      PROVE  Stands(s)'
  <2>1. CASE Superseded(target[s].version)
    BY <1>3, <1>7, <2>1
  <2>2. ASSUME NEW a \in Of(s), Identity(a) = <<s, target[s].version, target[s].content>>,
               \A b \in Of(s) : b.time <= a.time
        PROVE  Stands(s)'
    <3>1. CASE a.version = v
      <4>1. Superseded(v)'
        BY <1>0, <1>7, RemovedIsSuperseded DEF RetentionTypeOK
      <4> QED BY <1>7, <2>2, <3>1, <4>1 DEF Stands, Superseded, Identity
    <3>2. CASE a.version # v
      <4>1. a \in Of(s)' /\ Of(s)' \subseteq Of(s)
        BY <1>7, <3>2 DEF VersionRemoved, Of
      <4> QED BY <1>7, <2>2, <4>1 DEF Stands, Identity
    <3> QED BY <3>1, <3>2
  <2> QED BY <1>7, <2>1, <2>2 DEF Stands
<1>8. CASE artifacts' = artifacts
  BY <1>0, <1>1, <1>2, <1>4, <1>8 DEF Of
<1> QED BY <1>0, <1>1, <1>2, <1>4, <1>5, <1>6, <1>7, <1>8, ArtifactsChange

-----------------------------------------------------------------------------
(* The invariant, and what follows from it.                                *)

LEMMA RetentionInitIInv == RetentionInit => RetentionIInv
<1> SUFFICES ASSUME RetentionInit PROVE RetentionIInv
  OBVIOUS
<1>1. RetentionTypeOK
  BY RetentionInitTypeOK
<1>2. /\ artifacts = {} /\ ever = {} /\ reports = {} /\ declared = {}
      /\ \A s \in Symbols : phase[s] = "idle" /\ target[s] = None /\ doomed[s] = {}
  BY DEF RetentionInit
<1>3. IsFiniteSet(ever)
  BY <1>2, FS_EmptySet
<1>4. \A s \in Symbols : LatestOf(s) = {}
  BY <1>2 DEF LatestOf, Top
<1> QED BY <1>1, <1>2, <1>3, <1>4
    DEF RetentionIInv, Numbered, Distinct, DoomedSuperseded, PublishedStands, ReportsStand,
        RetainsUnlessSuperseded, DeclaredUnlessSuperseded, RetentionTypeOK, None

LEMMA RetentionIInvNext == RetentionIInv /\ [RetentionNext]_retentionVars => RetentionIInv'
<1> SUFFICES ASSUME RetentionIInv, [RetentionNext]_retentionVars PROVE RetentionIInv'
  OBVIOUS
<1>1. RetentionTypeOK' /\ IsFiniteSet(ever') /\ Numbered' /\ Distinct'
  BY RetentionTypeOKNext, EverFinite, NumberedNext, DistinctNext DEF RetentionIInv
<1>2. DoomedSuperseded' /\ PublishedStands' /\ ReportsStand'
  BY DoomedNext, StandsNext, ReportsNext
<1>3. RetainsUnlessSuperseded' /\ DeclaredUnlessSuperseded'
  BY RetainsNext, DeclaredNext
<1> QED BY <1>1, <1>2, <1>3 DEF RetentionIInv

THEOREM RetentionInvariantHolds == RetentionSpec => []RetentionIInv
BY RetentionInitIInv, RetentionIInvNext, PTL DEF RetentionSpec

\* Artifacts, version directories and results keep their shape, and version numbers
\* stay within the number of commands.
THEOREM RetentionTypeCorrectness == RetentionSpec => []RetentionTypeOK
<1>1. RetentionIInv => RetentionTypeOK
  BY DEF RetentionIInv
<1> QED BY <1>1, RetentionInvariantHolds, PTL

\* However the jobs of any number of symbols list, remove and publish: one of the newest
\* Keep artifacts of a symbol disappears only when Keep newer version directories exist
\* (prune_gold_versions and prune_gold_artifacts).
THEOREM RetentionHolds == RetentionSpec => []RetainsUnlessSuperseded
<1>1. RetentionIInv => RetainsUnlessSuperseded
  BY DEF RetentionIInv
<1> QED BY <1>1, RetentionInvariantHolds, PTL

\* An artifact the publication result names is on disk, unless Keep version directories
\* or Keep artifacts of its symbol have newer versions (write_gold_publication_result).
THEOREM DeclarationsHold == RetentionSpec => []DeclaredUnlessSuperseded
<1>1. RetentionIInv => DeclaredUnlessSuperseded
  BY DEF RetentionIInv
<1> QED BY <1>1, RetentionInvariantHolds, PTL

\* A version directory is removed only while Keep newer ones survive, although the
\* decision was taken before other jobs added or removed some (prune_gold_versions).
THEOREM RemovalsAreSafe == RetentionSpec => OnlySupersededRemoved
<1>1. ASSUME RetentionIInv, [RetentionNext]_retentionVars
      PROVE  \A v \in dirs \ dirs' : Cardinality({w \in dirs' : w > v}) >= Keep
  <2>1. dirs \subseteq Versions
    BY <1>1 DEF RetentionIInv, RetentionTypeOK
  <2> QED BY <1>1, <2>1, RemovedNext, RemovedIsSuperseded
<1>2. RetentionIInv /\ [RetentionNext]_retentionVars =>
        [\A v \in dirs \ dirs' : Cardinality({w \in dirs' : w > v}) >= Keep]_retentionVars
  BY <1>1
<1> QED BY <1>2, RetentionInvariantHolds, PTL DEF RetentionSpec, OnlySupersededRemoved
=============================================================================
