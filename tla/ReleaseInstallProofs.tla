------------------------ MODULE ReleaseInstallProofs ------------------------
(***************************************************************************)
(* Theorems about ReleaseInstall, for any number of releases and manifests *)
(* and any failures and deaths: the type invariant, that an update that    *)
(* says it is installed left a complete release, and that a failed         *)
(* unpacking costs no tree.                                                *)
(***************************************************************************)
EXTENDS ReleaseInstall, TLAPS

\* What the updates at the files have done and what they can still undo.
AtFiles(u) == up[u].at \in Busy
Quiet == \A u \in Updaters : ~AtFiles(u)
Uncrossed == "crossed" \notin harm
Sound == ~mixed /\ Fits(modules, disk)
Kept(tree) == asset = "neutral" /\ harm \subseteq {"manifest"} => tree.whole

OneAtFiles == Uncrossed => \A u, v \in Updaters : AtFiles(u) /\ AtFiles(v) => u = v

\* An update that claims was the last one at the files.
ClaimIsLast == claimed /\ Uncrossed => Quiet

\* Between updates the files are a pair, unless one ended early.
AtRest == Quiet => (harm = {} => Sound) /\ Kept(modules)

\* What the update u has made of the files.
Unpacking(u) ==
  /\ up[u].at = "clearing" => up[u].had = None
  /\ up[u].at = "extracting" => modules = NoTree
  /\ up[u].at \in {"unpacking", "failed"} =>
       modules = NoTree \/ (asset = "platform" /\ modules = PartialTree(up[u].tag))
  /\ up[u].at \in {"extracted", "installing"} => ~mixed /\ disk = up[u].tag
  /\ up[u].at = "extracted" =>
       modules = IF asset = "platform" THEN WholeTree(up[u].tag) ELSE NoTree

\* The tree it set aside.
Aside(u) ==
  up[u].at \in {"extracting", "unpacking", "failed", "extracted"} /\ up[u].had # None =>
    /\ harm = {} => previous.whole /\ ManifestOf(previous.of) = up[u].had
    /\ Kept(previous)

UnderWay == Uncrossed => \A u \in Updaters : Unpacking(u) /\ Aside(u)

FilesInv == OneAtFiles /\ ClaimIsLast /\ AtRest /\ UnderWay

Inv == TypeOK /\ FilesInv

-----------------------------------------------------------------------------
\* The type invariant

LEMMA ManifestType == \A r \in Releases : ManifestOf(r) \in Manifests \cup {None}
BY ReleaseAssumption DEF ManifestOf

LEMMA NoneIsNone == Idle.at = "idle" /\ Idle.tag = 0 /\ Idle.had = None
BY DEF Idle

USE DEF Releases, Updaters, Places, Busy

LEMMA InitType == Init => TypeOK
<1> SUFFICES ASSUME Init PROVE TypeOK
  OBVIOUS
<1>1. 1 \in Releases /\ 0 \notin Releases
  BY ReleaseAssumption
<1>2. Idle \in [at : Places, tag : Releases \cup {0}, had : Manifests \cup {None}]
  BY DEF Idle
<1>3. up = [u \in Updaters |-> Idle]
  BY DEF Init
<1>4. \A u \in Updaters : up[u].at = "idle"
  BY <1>3, NoneIsNone
<1>5. up \in [Updaters -> [at : Places, tag : Releases \cup {0}, had : Manifests \cup {None}]]
  BY <1>2, <1>3
<1>6. modules \in Tree \cup {NoTree} /\ previous \in Tree \cup {NoTree}
  BY <1>1 DEF Init, Tree, WholeTree
<1>7. /\ latest \in Releases /\ disk \in Releases /\ running \in Releases \cup {0}
      /\ asset \in {"neutral", "platform"} /\ harm = {} /\ running # 0
      /\ mixed = FALSE /\ claimed = TRUE /\ looking = FALSE
  BY <1>1 DEF Init
<1> QED BY <1>4, <1>5, <1>6, <1>7 DEF TypeOK

LEMMA UpdateType ==
  ASSUME TypeOK, NEW u \in Updaters, Update(u)
  PROVE  TypeOK'
<1> USE ReleaseAssumption, ManifestType DEF TypeOK, Tree, NoTree, WholeTree, PartialTree, Idle
<1>1. CASE LooksUp(u)
  BY <1>1 DEF LooksUp, files
<1>2. CASE GivesUp(u)
  BY <1>2 DEF GivesUp, files
<1>3. CASE SetsAside(u)
  BY <1>3 DEF SetsAside
<1>4. CASE Clears(u)
  BY <1>4 DEF Clears
<1>5. CASE Unpacks(u)
  <2>1. up[u].tag \in Releases
    BY <1>5 DEF Unpacks
  <2>a. PartialTree(up[u].tag) \in Tree
    BY <2>1
  <2>b. modules' = modules \/ modules' = PartialTree(up[u].tag)
    <3>1. modules' \in {modules} \cup IF asset = "platform" THEN {PartialTree(up[u].tag)} ELSE {}
      BY <1>5 DEF Unpacks
    <3> HIDE DEF PartialTree
    <3> QED BY <3>1, Zenon
  <2>2. modules' \in Tree \cup {NoTree} /\ disk' \in Releases
    <3>1. disk' \in {disk, up[u].tag}
      BY <1>5 DEF Unpacks
    <3>2. modules \in Tree \cup {NoTree} /\ disk \in Releases
      OBVIOUS
    <3> HIDE DEF PartialTree, Tree, NoTree, TypeOK
    <3> QED BY <2>1, <2>a, <2>b, <3>1, <3>2
  <2>3. up' = [up EXCEPT ![u].at = "unpacking"] /\ up[u].at = "extracting" /\ mixed' = TRUE
    BY <1>5 DEF Unpacks
  <2> QED BY <1>5, <2>1, <2>2, <2>3 DEF Unpacks
<1>6. CASE Unpacked(u)
  BY <1>6 DEF Unpacked
<1>7. CASE UnpackFails(u)
  BY <1>7 DEF UnpackFails, files
<1>8. CASE Restores(u)
  BY <1>8 DEF Restores
<1>9. CASE KeepsBundled(u)
  BY <1>9 DEF KeepsBundled, Succeeds, Mends
<1>10. CASE Reuses(u)
  BY <1>10 DEF Reuses, Succeeds
<1>11. CASE Discards(u)
  BY <1>11 DEF Discards
<1>12. CASE Fetches(u)
  BY <1>12 DEF Fetches
<1>13. CASE Installs(u)
  BY <1>13 DEF Installs, Succeeds, Mends
<1>14. CASE InstallFails(u)
  BY <1>14 DEF InstallFails, files
<1> QED
  BY <1>1, <1>2, <1>3, <1>4, <1>5, <1>6, <1>7, <1>8, <1>9, <1>10, <1>11, <1>12, <1>13,
     <1>14 DEF Update

LEMMA NextType == TypeOK /\ [Next]_vars => TypeOK'
<1> SUFFICES ASSUME TypeOK, [Next]_vars PROVE TypeOK'
  OBVIOUS
<1> USE ReleaseAssumption DEF TypeOK, Tree, NoTree, Idle, files
<1>1. CASE Publish
  BY <1>1 DEF Publish
<1>2. CASE LoopLooks
  BY <1>2 DEF LoopLooks
<1>3. CASE LoopApplies
  <2>1. up' = up \/ up' = [up EXCEPT !["server"].at = "lookup"]
    BY <1>3 DEF LoopApplies
  <2>2. looking /\ looking' = FALSE /\ UNCHANGED <<latest, asset, files, running, claimed, harm>>
    BY <1>3 DEF LoopApplies
  <2>3. running # 0
    BY <2>2
  <2>4. CASE up' = up
    BY <2>2, <2>3, <2>4
  <2>5. CASE up' = [up EXCEPT !["server"].at = "lookup"]
    BY <2>2, <2>3, <2>5
  <2> QED BY <2>1, <2>4, <2>5
<1>4. CASE ButtonLooks
  BY <1>4 DEF ButtonLooks
<1>5. CASE ButtonApplies
  BY <1>5 DEF ButtonApplies
<1>6. CASE CliStarts
  BY <1>6 DEF CliStarts
<1>7. ASSUME NEW u \in Updaters, Update(u) PROVE TypeOK'
  BY <1>7, UpdateType
<1>8. CASE ServerStops
  BY <1>8 DEF ServerStops, Dies
<1>9. CASE CliStops
  BY <1>9 DEF CliStops, Dies
<1>10. CASE ServerStarts
  BY <1>10 DEF ServerStarts
<1>11. CASE UNCHANGED vars
  BY <1>11 DEF vars
<1> QED
  BY <1>1, <1>2, <1>3, <1>4, <1>5, <1>6, <1>7, <1>8, <1>9, <1>10, <1>11 DEF Next

-----------------------------------------------------------------------------
\* The files

LEMMA InitFiles == Init => FilesInv
BY DEF Init, FilesInv, OneAtFiles, ClaimIsLast, AtRest, UnderWay, AtFiles, Quiet, Unpacking,
       Aside, Kept, Sound, Fits, WholeTree, Idle

\* A step that leaves the files alone keeps what is known of them if it moves only
\* updates that are not at the files.
LEMMA AwayFromFiles ==
  ASSUME Inv, UNCHANGED <<files, asset, claimed, harm>>,
         \A u \in Updaters :
           up'[u] = up[u] \/ (~AtFiles(u) /\ up'[u].at \notin Busy)
  PROVE  FilesInv'
<1>1. \A u \in Updaters : AtFiles(u)' <=> AtFiles(u)
  BY DEF AtFiles
<1>2. \A u \in Updaters : AtFiles(u) => up'[u] = up[u]
  OBVIOUS
<1>3. OneAtFiles'
  BY <1>1 DEF Inv, FilesInv, OneAtFiles, Uncrossed
<1>4. ClaimIsLast' /\ AtRest'
  BY <1>1 DEF Inv, FilesInv, ClaimIsLast, AtRest, Quiet, Uncrossed, Kept, Sound, Fits, files
<1>5. UnderWay'
  <2> SUFFICES ASSUME Uncrossed', NEW u \in Updaters PROVE (Unpacking(u) /\ Aside(u))'
    BY DEF UnderWay
  <2>1. Unpacking(u) /\ Aside(u)
    BY DEF Inv, FilesInv, UnderWay, Uncrossed
  <2>2. CASE AtFiles(u)
    BY <1>2, <2>1, <2>2 DEF Unpacking, Aside, Kept, files
  <2>3. CASE ~AtFiles(u)
    BY <1>1, <2>3 DEF Unpacking, Aside, AtFiles
  <2> QED BY <2>2, <2>3
<1> QED BY <1>3, <1>4, <1>5 DEF FilesInv

\* An update at the files is alone there, or two have crossed.
LEMMA Alone ==
  ASSUME Inv, Uncrossed, NEW u \in Updaters, AtFiles(u), NEW v \in Updaters \ {u}
  PROVE  up[v].at \notin Busy
BY DEF Inv, FilesInv, OneAtFiles, AtFiles

\* A step of an update that stays at the files.
LEMMA StaysAtFiles ==
  ASSUME Inv, NEW u \in Updaters, AtFiles(u), AtFiles(u)', claimed' = claimed,
         \A v \in Updaters \ {u} : up'[v] = up[v], harm' = harm,
         Uncrossed => (Unpacking(u) /\ Aside(u))'
  PROVE  FilesInv'
<1>1. \A v \in Updaters : AtFiles(v)' <=> AtFiles(v)
  BY DEF AtFiles
<1>2. OneAtFiles' /\ ClaimIsLast'
  BY <1>1 DEF Inv, FilesInv, OneAtFiles, ClaimIsLast, Quiet, Uncrossed
<1>3. AtRest'
  BY DEF AtRest, Quiet
<1>4. UnderWay'
  <2> SUFFICES ASSUME Uncrossed, NEW v \in Updaters \ {u} PROVE (Unpacking(v) /\ Aside(v))'
    BY DEF UnderWay, Uncrossed
  <2>1. up[v].at \notin Busy
    BY Alone
  <2> QED BY <2>1 DEF Unpacking, Aside
<1> QED BY <1>2, <1>3, <1>4 DEF FilesInv

\* A step with which an update leaves the files.
LEMMA LeavesFiles ==
  ASSUME Inv, NEW u \in Updaters, AtFiles(u), ~AtFiles(u)',
         \A v \in Updaters \ {u} : up'[v] = up[v],
         "crossed" \in harm => "crossed" \in harm',
         Uncrossed' => ((harm = {} => Sound) /\ Kept(modules))'
  PROVE  FilesInv'
<1>1. \A v \in Updaters \ {u} : AtFiles(v)' <=> AtFiles(v)
  BY DEF AtFiles
<1>2. Uncrossed' => Uncrossed
  BY DEF Uncrossed
<1>3. OneAtFiles'
  BY <1>1, <1>2 DEF Inv, FilesInv, OneAtFiles
<1>4. Uncrossed' => Quiet'
  BY <1>1, <1>2, Alone DEF Quiet, AtFiles
<1>5. ClaimIsLast'
  BY <1>4 DEF ClaimIsLast
<1>6. AtRest'
  <2>1. CASE Uncrossed'
    BY <2>1 DEF AtRest
  <2>2. CASE ~Uncrossed'
    BY <2>2 DEF AtRest, Uncrossed, Kept
  <2> QED BY <2>1, <2>2
<1>7. UnderWay'
  BY <1>4 DEF UnderWay, Quiet, AtFiles, Unpacking, Aside
<1> QED BY <1>3, <1>5, <1>6, <1>7 DEF FilesInv

\* An update that comes to the files finds them at rest.
LEMMA SetsAsideFiles ==
  ASSUME Inv, NEW u \in Updaters, SetsAside(u)
  PROVE  FilesInv'
<1>1. /\ up[u].at = "downloading" /\ claimed' = FALSE /\ asset' = asset
      /\ up'[u].at \in {"extracting", "clearing"}
      /\ \A v \in Updaters \ {u} : up'[v] = up[v]
  BY DEF SetsAside, Inv, TypeOK
<1>2. Uncrossed' => harm' = harm /\ Uncrossed /\ \A v \in Updaters \ {u} : ~AtFiles(v)
  BY DEF SetsAside, Uncrossed, AtFiles
<1>3. OneAtFiles'
  BY <1>1, <1>2 DEF OneAtFiles, AtFiles
<1>4. ClaimIsLast' /\ AtRest'
  BY <1>1 DEF ClaimIsLast, AtRest, Quiet, AtFiles
<1>5. UnderWay'
  <2> SUFFICES ASSUME Uncrossed' PROVE \A v \in Updaters : (Unpacking(v) /\ Aside(v))'
    BY DEF UnderWay
  <2>1. ASSUME NEW v \in Updaters \ {u} PROVE (Unpacking(v) /\ Aside(v))'
    BY <1>1, <1>2, <2>1 DEF AtFiles, Unpacking, Aside
  <2>2. harm' = harm /\ Quiet
    BY <1>1, <1>2 DEF Quiet, AtFiles
  <2>3. (harm = {} => Sound) /\ Kept(modules)
    BY <2>2 DEF Inv, FilesInv, AtRest
  <2>4. DEFINE had == IF modules = NoTree THEN None ELSE ManifestOf(disk)
  <2>5. /\ up'[u].had = had
        /\ previous' = IF had = None THEN NoTree ELSE modules
        /\ modules' = IF had = None /\ modules # NoTree THEN PartialTree(modules.of) ELSE NoTree
        /\ up'[u].at = IF modules' = NoTree THEN "extracting" ELSE "clearing"
    BY DEF SetsAside, Inv, TypeOK
  <2>6. Unpacking(u)'
    BY <2>5 DEF Unpacking
  <2>7. had # None => (harm = {} => modules.whole /\ ManifestOf(modules.of) = had)
    BY <2>3 DEF Sound, Fits
  <2>8. Aside(u)'
    BY <1>1, <2>2, <2>3, <2>5, <2>7 DEF Aside, Kept
  <2> QED BY <2>1, <2>6, <2>8
<1> QED BY <1>3, <1>4, <1>5 DEF FilesInv

LEMMA UpdateFiles ==
  ASSUME Inv, NEW u \in Updaters, Update(u)
  PROVE  FilesInv'
<1> USE DEF AtFiles
<1>a. up \in [Updaters -> [at : Places, tag : Releases \cup {0}, had : Manifests \cup {None}]]
  BY DEF Inv, TypeOK
<1>b. Uncrossed => Unpacking(u) /\ Aside(u)
  BY DEF Inv, FilesInv, UnderWay
<1>1. CASE LooksUp(u)
  BY <1>1, <1>a, AwayFromFiles DEF LooksUp
<1>2. CASE GivesUp(u)
  BY <1>2, <1>a, AwayFromFiles DEF GivesUp, Idle
<1>3. CASE SetsAside(u)
  BY <1>3, SetsAsideFiles
<1>4. CASE Clears(u)
  <2>1. (Unpacking(u) /\ Aside(u))' \/ ~Uncrossed
    BY <1>4, <1>a, <1>b DEF Clears, Unpacking, Aside, Kept
  <2> QED BY <1>4, <1>a, <2>1, StaysAtFiles DEF Clears
<1>5. CASE Unpacks(u)
  <2>1. (Unpacking(u) /\ Aside(u))' \/ ~Uncrossed
    BY <1>5, <1>a, <1>b DEF Unpacks, Unpacking, Aside, Kept
  <2> QED BY <1>5, <1>a, <2>1, StaysAtFiles DEF Unpacks
<1>6. CASE Unpacked(u)
  <2>1. Unpacking(u)' \/ ~Uncrossed
    BY <1>6, <1>a, <1>b DEF Unpacked, Unpacking
  <2>2. Aside(u)' \/ ~Uncrossed
    BY <1>6, <1>a, <1>b DEF Unpacked, Aside, Kept
  <2> QED BY <1>6, <1>a, <2>1, <2>2, StaysAtFiles DEF Unpacked
<1>7. CASE UnpackFails(u)
  <2>1. (Unpacking(u) /\ Aside(u))' \/ ~Uncrossed
    BY <1>7, <1>a, <1>b DEF UnpackFails, Unpacking, Aside, Kept, files
  <2> QED BY <1>7, <1>a, <2>1, StaysAtFiles DEF UnpackFails
<1>8. CASE Restores(u)
  <2>1. Uncrossed' => Uncrossed /\ Kept(modules)'
    BY <1>8, <1>a, <1>b DEF Restores, Unpacking, Aside, Kept, Uncrossed
  <2>2. harm' # {}
    BY <1>8 DEF Restores
  <2> QED BY <1>8, <1>a, <2>1, <2>2, LeavesFiles DEF Restores, Idle
<1>9. CASE KeepsBundled(u)
  <2>1. Uncrossed' => Uncrossed
    BY <1>9 DEF KeepsBundled, Mends, Uncrossed
  <2>2. Uncrossed' => (Sound /\ modules.whole)'
    BY <1>9, <1>b, <2>1 DEF KeepsBundled, Unpacking, Sound, Fits, WholeTree
  <2> QED BY <1>9, <1>a, <2>2, LeavesFiles DEF KeepsBundled, Succeeds, Mends, Idle, Kept
<1>10. CASE Reuses(u)
  <2>1. Uncrossed' => ((harm = {} => Sound) /\ Kept(modules))'
    BY <1>10, <1>b DEF Reuses, SameManifest, Unpacking, Aside, Kept, Sound, Fits, Uncrossed
  <2> QED BY <1>10, <1>a, <2>1, LeavesFiles DEF Reuses, Succeeds, Idle
<1>11. CASE Discards(u)
  <2>1. (Unpacking(u) /\ Aside(u))' \/ ~Uncrossed
    BY <1>11, <1>a, <1>b DEF Discards, Unpacking, Aside
  <2> QED BY <1>11, <1>a, <2>1, StaysAtFiles DEF Discards
<1>12. CASE Fetches(u)
  <2>1. (Unpacking(u) /\ Aside(u))' \/ ~Uncrossed
    BY <1>12, <1>a, <1>b DEF Fetches, Unpacking, Aside
  <2> QED BY <1>12, <1>a, <2>1, StaysAtFiles DEF Fetches
<1>13. CASE Installs(u)
  <2>1. Uncrossed' => Uncrossed
    BY <1>13 DEF Installs, Mends, Uncrossed
  <2>2. Uncrossed' => (Sound /\ modules.whole)'
    BY <1>13, <1>b, <2>1 DEF Installs, Unpacking, Sound, Fits, WholeTree
  <2> QED BY <1>13, <1>a, <2>2, LeavesFiles DEF Installs, Succeeds, Mends, Idle, Kept
<1>14. CASE InstallFails(u)
  <2>1. harm' # {} /\ ~(harm' \subseteq {"manifest"})
    BY <1>14 DEF InstallFails
  <2> QED BY <1>14, <1>a, <2>1, LeavesFiles DEF InstallFails, Idle, Kept
<1> QED
  BY <1>1, <1>2, <1>3, <1>4, <1>5, <1>6, <1>7, <1>8, <1>9, <1>10, <1>11, <1>12, <1>13,
     <1>14 DEF Update

\* A process that dies at the files leaves them as they are.
LEMMA DiesFiles ==
  ASSUME Inv, NEW u \in Updaters, Dies(u), UNCHANGED <<files, asset, claimed>>
  PROVE  FilesInv'
<1>1. up'[u] = Idle /\ \A v \in Updaters \ {u} : up'[v] = up[v]
  BY DEF Dies, Inv, TypeOK
<1>2. CASE AtFiles(u)
  <2>1. {"manifest", "tree"} \subseteq harm' /\ harm \subseteq harm'
    BY <1>2 DEF Dies, AtFiles
  <2>2. ~AtFiles(u)'
    BY <1>1 DEF AtFiles, Idle
  <2> QED BY <1>1, <1>2, <2>1, <2>2, LeavesFiles DEF Kept
<1>3. CASE ~AtFiles(u)
  <2>1. harm' = harm
    BY <1>3 DEF Dies, AtFiles
  <2> QED BY <1>1, <1>3, <2>1, AwayFromFiles DEF Idle, AtFiles
<1> QED BY <1>2, <1>3

LEMMA NextFiles == Inv /\ [Next]_vars => FilesInv'
<1> SUFFICES ASSUME Inv, [Next]_vars PROVE FilesInv'
  OBVIOUS
<1> USE DEF AtFiles
<1>a. up \in [Updaters -> [at : Places, tag : Releases \cup {0}, had : Manifests \cup {None}]]
  BY DEF Inv, TypeOK
<1>1. CASE Publish
  BY <1>1, AwayFromFiles DEF Publish
<1>2. CASE LoopLooks
  BY <1>2, AwayFromFiles DEF LoopLooks
<1>3. CASE LoopApplies
  BY <1>3, <1>a, AwayFromFiles DEF LoopApplies
<1>4. CASE ButtonLooks
  BY <1>4, <1>a, AwayFromFiles DEF ButtonLooks
<1>5. CASE ButtonApplies
  BY <1>5, <1>a, AwayFromFiles DEF ButtonApplies
<1>6. CASE CliStarts
  BY <1>6, <1>a, AwayFromFiles DEF CliStarts
<1>7. ASSUME NEW u \in Updaters, Update(u) PROVE FilesInv'
  BY <1>7, UpdateFiles
<1>8. CASE ServerStops
  BY <1>8, DiesFiles DEF ServerStops
<1>9. CASE CliStops
  BY <1>9, DiesFiles DEF CliStops
<1>10. CASE ServerStarts
  BY <1>10, AwayFromFiles DEF ServerStarts
<1>11. CASE UNCHANGED vars
  BY <1>11, AwayFromFiles DEF vars
<1> QED
  BY <1>1, <1>2, <1>3, <1>4, <1>5, <1>6, <1>7, <1>8, <1>9, <1>10, <1>11 DEF Next

LEMMA Invariance == Spec => []Inv
<1>1. Init => Inv
  BY InitType, InitFiles DEF Inv
<1>2. Inv /\ [Next]_vars => Inv'
  BY NextType, NextFiles DEF Inv
<1> QED BY <1>1, <1>2, PTL DEF Spec

\* The state keeps its shape, whoever updates, fails and dies.
THEOREM TypeCorrect == Spec => []TypeOK
<1>1. Inv => TypeOK
  BY DEF Inv
<1> QED BY <1>1, Invariance, PTL

\* What an update left when it said ``is installed and starts after a restart'' is
\* the whole of one release, with a node_modules made for it or for its manifest.
THEOREM ClaimIsSoundHolds == Spec => []ClaimIsSound
<1>1. Inv => ClaimIsSound
  BY DEF Inv, FilesInv, ClaimIsLast, AtRest, Uncrossed, Sound, ClaimIsSound
<1> QED BY <1>1, Invariance, PTL

\* An unpacking that fails brings the old tree back.
THEOREM FailureKeepsTreeHolds == Spec => []FailureKeepsTree
<1>1. Inv => FailureKeepsTree
  BY DEF Inv, FilesInv, AtRest, Quiet, AtFiles, Kept, FailureKeepsTree
<1> QED BY <1>1, Invariance, PTL
=============================================================================
