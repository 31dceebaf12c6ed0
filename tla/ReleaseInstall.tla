--------------------------- MODULE ReleaseInstall ---------------------------
(***************************************************************************)
(* How a release install updates itself in place (self-update.ts): the     *)
(* files of the new release are unpacked over the old ones, node_modules   *)
(* is moved aside before and put back, replaced or installed anew after.   *)
(*                                                                         *)
(* There are two updaters: the server, for the person at the drawer and    *)
(* for its own timer, one at a time (withSelfUpdate), and the command      *)
(* `omg update', a process of its own.  Both can die or be stopped at any  *)
(* point, downloads, unpacking and dependency installs can fail at any     *)
(* point, and the disk is as they leave it when the next one begins.  The  *)
(* question is whether an update that says it is installed is.             *)
(***************************************************************************)
EXTENDS Integers

CONSTANTS
  MaxRelease,  \* bound: releases ever published
  Manifests,   \* dependency manifests that name only registry packages
  Manifest(_)  \* of a release; Opaque if it names another kind of package

Releases == 1 .. MaxRelease
Updaters == {"server", "cli"}
None   == "none"     \* no manifest, no node_modules
Opaque == "opaque"

ASSUME ReleaseAssumption ==
  /\ MaxRelease \in Nat \ {0}
  /\ \A r \in Releases : Manifest(r) \in Manifests \cup {Opaque}
  /\ None \notin Manifests /\ Opaque \notin Manifests

\* A node_modules: the release it was made for, and whether it is all there.
Tree   == [of : Releases, whole : BOOLEAN]
NoTree == [of |-> 0, whole |-> FALSE]
WholeTree(r)   == [of |-> r, whole |-> TRUE]
PartialTree(r) == [of |-> r, whole |-> FALSE]

VARIABLES
  latest,    \* the newest release
  asset,     \* what this install downloads: bundles with node_modules or without
  disk,      \* the release whose package.json is on disk
  mixed,     \* the other files are not all of that release
  modules,   \* node_modules
  previous,  \* node_modules.previous
  running,   \* the release the server executes, 0 when it does not run
  looking,   \* the server's timer asked for the status and has no answer yet
  up,        \* per updater: where it is, its release, the old tree's manifest
  claimed,   \* history: an update said it is installed, and none began since
  harm       \* history: what updates that ended early left, or two at once may have

files == <<disk, mixed, modules, previous>>
vars  == <<latest, asset, files, running, looking, up, claimed, harm>>

Idle == [at |-> "idle", tag |-> 0, had |-> None]
Busy == {"clearing", "extracting", "unpacking", "failed", "extracted", "installing"}

\* Mutant: specs outside the registry count as well.
ManifestOfAny(r) == Manifest(r)

\* dependencyManifest: it speaks for any tree only if all its packages come from
\* the registry.
ManifestOf(r) == IF Manifest(r) = Opaque THEN None ELSE Manifest(r)
Fits(tree, r) ==
  /\ tree.whole
  /\ tree.of = r \/ (ManifestOf(r) # None /\ ManifestOf(tree.of) = ManifestOf(r))

-----------------------------------------------------------------------------
\* What starts an update

Publish ==
  /\ latest < MaxRelease
  /\ latest' = latest + 1
  /\ UNCHANGED <<asset, files, running, looking, up, claimed, harm>>

\* releaseUpdateStatus: a release on disk that does not run yet is staged.
Staged == running # 0 /\ disk # running

\* The timer (maybeAutoUpdateOnStart) reads the disk and asks for the newest tag
\* before it takes the lock, and looks at the lock again with the answer.
LoopLooks ==
  /\ running # 0 /\ ~looking /\ up["server"].at = "idle" /\ ~Staged
  /\ looking' = TRUE
  /\ UNCHANGED <<latest, asset, files, running, up, claimed, harm>>

LoopApplies ==
  /\ looking
  /\ looking' = FALSE
  /\ IF latest # running /\ up["server"].at = "idle"
       THEN up' = [up EXCEPT !["server"].at = "lookup"]
       ELSE UNCHANGED up
  /\ UNCHANGED <<latest, asset, files, running, claimed, harm>>

\* The button (POST /api/install) takes the lock first; a staged release is
\* restarted into and everything else is installed anew.
ButtonLooks ==
  /\ running # 0 /\ up["server"].at = "idle" /\ ~Staged
  /\ up' = [up EXCEPT !["server"].at = "button"]
  /\ UNCHANGED <<latest, asset, files, running, looking, claimed, harm>>

ButtonApplies ==
  /\ up["server"].at = "button"
  /\ up' = [up EXCEPT !["server"].at = "lookup"]
  /\ UNCHANGED <<latest, asset, files, running, looking, claimed, harm>>

\* The command does not look at the server's lock.
CliStarts ==
  /\ up["cli"].at = "idle"
  /\ up' = [up EXCEPT !["cli"].at = "lookup"]
  /\ UNCHANGED <<latest, asset, files, running, looking, claimed, harm>>

-----------------------------------------------------------------------------
\* applyReleaseUpdate, for the updater u

LooksUp(u) ==
  /\ up[u].at = "lookup"
  /\ up' = [up EXCEPT ![u].at = "downloading", ![u].tag = latest]
  /\ UNCHANGED <<latest, asset, files, running, looking, claimed, harm>>

\* No answer from the release server, a checksum that differs, an unsafe path.
GivesUp(u) ==
  /\ up[u].at \in {"button", "lookup", "downloading"}
  /\ up' = [up EXCEPT ![u] = Idle]
  /\ UNCHANGED <<latest, asset, files, running, looking, claimed, harm>>

\* The old tree is moved aside if a manifest speaks for it, and removed otherwise.
SetsAside(u) ==
  /\ up[u].at = "downloading"
  /\ LET had == IF modules = NoTree THEN None ELSE ManifestOf(disk)
     IN  /\ previous' = IF had = None THEN NoTree ELSE modules
         /\ modules' = IF had = None /\ modules # NoTree THEN PartialTree(modules.of)
                                                         ELSE NoTree
         /\ up' = [up EXCEPT ![u].had = had,
                             ![u].at = IF modules' = NoTree THEN "extracting" ELSE "clearing"]
  /\ claimed' = FALSE
  /\ harm' = harm \cup IF \E v \in Updaters \ {u} : up[v].at \in Busy
                         THEN {"crossed"} ELSE {}
  /\ UNCHANGED <<latest, asset, disk, mixed, running, looking>>

Clears(u) ==
  /\ up[u].at = "clearing"
  /\ modules' = NoTree
  /\ up' = [up EXCEPT ![u].at = "extracting"]
  /\ UNCHANGED <<latest, asset, disk, mixed, previous, running, looking, claimed, harm>>

\* tar writes file after file; package.json and node_modules come when they come.
Unpacks(u) ==
  /\ up[u].at = "extracting"
  /\ mixed' = TRUE
  /\ disk' \in {disk, up[u].tag}
  /\ modules' \in {modules} \cup
       IF asset = "platform" THEN {PartialTree(up[u].tag)} ELSE {}
  /\ up' = [up EXCEPT ![u].at = "unpacking"]
  /\ UNCHANGED <<latest, asset, previous, running, looking, claimed, harm>>

Unpacked(u) ==
  /\ up[u].at = "unpacking"
  /\ disk' = up[u].tag /\ mixed' = FALSE
  /\ modules' = IF asset = "platform" THEN WholeTree(up[u].tag) ELSE modules
  /\ up' = [up EXCEPT ![u].at = "extracted"]
  /\ UNCHANGED <<latest, asset, previous, running, looking, claimed, harm>>

UnpackFails(u) ==
  /\ up[u].at = "unpacking"
  /\ up' = [up EXCEPT ![u].at = "failed"]
  /\ UNCHANGED <<latest, asset, files, running, looking, claimed, harm>>

\* Mutant: the copy is removed and nothing is put back.
RestoresNothing(u) ==
  /\ up[u].at = "failed"
  /\ previous' = NoTree
  /\ harm' = harm \cup IF up[u].had = None THEN {"manifest", "tree"} ELSE {"manifest"}
  /\ up' = [up EXCEPT ![u] = Idle]
  /\ UNCHANGED <<latest, asset, disk, mixed, modules, running, looking, claimed>>

\* The old tree comes back, if it was moved; the package.json need not be the old
\* one's.
Restores(u) ==
  /\ up[u].at = "failed"
  /\ modules' = IF up[u].had # None /\ modules = NoTree THEN previous ELSE modules
  /\ previous' = NoTree
  /\ harm' = harm \cup IF up[u].had = None THEN {"manifest", "tree"} ELSE {"manifest"}
  /\ up' = [up EXCEPT ![u] = Idle]
  /\ UNCHANGED <<latest, asset, disk, mixed, running, looking, claimed>>

Succeeds(u) == up' = [up EXCEPT ![u] = Idle] /\ claimed' = TRUE

\* A tree that was made for this release mends what earlier updates left.
Mends == harm' = harm \cap {"crossed"}

\* The bundle brought its tree.
KeepsBundled(u) ==
  /\ up[u].at = "extracted" /\ modules # NoTree
  /\ previous' = NoTree
  /\ Succeeds(u) /\ Mends
  /\ UNCHANGED <<latest, asset, disk, mixed, modules, running, looking>>

\* Mutant: any old tree will do.
SameWhatever(u) == up[u].had # None

\* The old tree satisfies the new manifest.
SameManifest(u) == up[u].had # None /\ ManifestOf(disk) = up[u].had

Reuses(u) ==
  /\ up[u].at = "extracted" /\ modules = NoTree
  /\ SameManifest(u)
  /\ modules' = previous /\ previous' = NoTree
  /\ Succeeds(u)
  /\ UNCHANGED <<latest, asset, disk, mixed, running, looking, harm>>

Discards(u) ==
  /\ up[u].at = "extracted" /\ modules = NoTree
  /\ ~SameManifest(u)
  /\ previous' = NoTree
  /\ up' = [up EXCEPT ![u].at = "installing"]
  /\ UNCHANGED <<latest, asset, disk, mixed, modules, running, looking, claimed, harm>>

\* bun install --production fetches package after package.
Fetches(u) ==
  /\ up[u].at = "installing" /\ modules # PartialTree(disk)
  /\ modules' = PartialTree(disk)
  /\ UNCHANGED <<latest, asset, disk, mixed, previous, running, looking, up, claimed, harm>>

Installs(u) ==
  /\ up[u].at = "installing"
  /\ modules' = WholeTree(disk)
  /\ Succeeds(u) /\ Mends
  /\ UNCHANGED <<latest, asset, disk, mixed, previous, running, looking>>

InstallFails(u) ==
  /\ up[u].at = "installing"
  /\ up' = [up EXCEPT ![u] = Idle]
  /\ harm' = harm \cup {"manifest", "tree"}
  /\ UNCHANGED <<latest, asset, files, running, looking, claimed>>

-----------------------------------------------------------------------------
\* A process ends, with its children, whatever it was doing.

Dies(u) ==
  /\ up' = [up EXCEPT ![u] = Idle]
  /\ harm' = harm \cup IF up[u].at \in Busy THEN {"manifest", "tree"} ELSE {}

ServerStops ==
  /\ running # 0
  /\ running' = 0 /\ looking' = FALSE
  /\ Dies("server")
  /\ UNCHANGED <<latest, asset, files, claimed>>

CliStops ==
  /\ up["cli"].at # "idle"
  /\ Dies("cli")
  /\ UNCHANGED <<latest, asset, files, running, looking, claimed>>

\* The supervisor starts it from the disk; on files that do not fit it may fail.
ServerStarts ==
  /\ running = 0
  /\ running' = disk
  /\ UNCHANGED <<latest, asset, files, looking, up, claimed, harm>>

Init ==
  /\ latest = 1 /\ disk = 1 /\ running = 1 /\ mixed = FALSE
  /\ asset \in {"neutral", "platform"}
  /\ modules = WholeTree(1) /\ previous = NoTree
  /\ looking = FALSE /\ up = [u \in Updaters |-> Idle]
  /\ claimed = TRUE /\ harm = {}

Update(u) ==
  \/ LooksUp(u) \/ GivesUp(u) \/ SetsAside(u) \/ Clears(u) \/ Unpacks(u) \/ Unpacked(u)
  \/ UnpackFails(u) \/ Restores(u) \/ KeepsBundled(u) \/ Reuses(u) \/ Discards(u)
  \/ Fetches(u) \/ Installs(u) \/ InstallFails(u)

Next ==
  \/ Publish
  \/ LoopLooks \/ LoopApplies \/ ButtonLooks \/ ButtonApplies \/ CliStarts
  \/ \E u \in Updaters : Update(u)
  \/ ServerStops \/ CliStops \/ ServerStarts

Spec == Init /\ [][Next]_vars

-----------------------------------------------------------------------------
\* Properties

Places == {"idle", "button", "lookup", "downloading"} \cup Busy

TypeOK ==
  /\ latest \in Releases /\ disk \in Releases /\ running \in Releases \cup {0}
  /\ asset \in {"neutral", "platform"}
  /\ mixed \in BOOLEAN /\ claimed \in BOOLEAN /\ looking \in BOOLEAN
  /\ harm \subseteq {"manifest", "tree", "crossed"}
  /\ modules \in Tree \cup {NoTree} /\ previous \in Tree \cup {NoTree}
  /\ up \in [Updaters -> [at : Places, tag : Releases \cup {0}, had : Manifests \cup {None}]]
  /\ \A u \in Updaters : up[u].at \in Busy \cup {"downloading"} => up[u].tag # 0
  /\ up["cli"].at # "button"
  /\ running = 0 => up["server"].at = "idle" /\ ~looking

\* ``omg.dev ... is installed and starts after a restart'': what an update left when
\* it said so is complete, unless an earlier one that failed or was cut left another
\* release's package.json, which the next takes for the old tree's, or two ran at
\* once.
ClaimIsSound ==
  claimed /\ harm = {} => ~mixed /\ Fits(modules, disk)

\* ``Put the old tree back so the running version can still start'': a bundle without
\* a tree that could not be unpacked costs the install nothing of the tree it had,
\* if a manifest spoke for it, in whatever order updates fail.
FailureKeepsTree ==
  /\ asset = "neutral" /\ harm \subseteq {"manifest"}
  /\ \A u \in Updaters : up[u].at \notin Busy
  => modules.whole

\* What is staged can be restarted into.  It does not hold: an install of the
\* dependencies that fails leaves the new package.json without its tree.
StagedIsSound ==
  Staged /\ (\A u \in Updaters : up[u].at \notin Busy) => ~mixed /\ Fits(modules, disk)

=============================================================================
