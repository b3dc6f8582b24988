-------------------------------- MODULE Update --------------------------------
(***************************************************************************)
(* `maw update` (cli/cmd-update.ts): the package maw-js in bun's global    *)
(* node_modules, the binary ~/.bun/bin/maw, which a `bun add -g` makes a   *)
(* link into the package and a release download a file of its own, and the *)
(* stashes both are renamed to before a second attempt.  One update at a   *)
(* time, with its installers, is what UpdateLock promises, but for the     *)
(* exceptions it names; an update may die anywhere.                        *)
(*                                                                         *)
(* bun and curl are the environment.  A first `bun add` that fails is      *)
(* assumed to change nothing; a second one that fails may leave anything,  *)
(* and what either installs may or may not run.                            *)
(***************************************************************************)

VARIABLES bin, pkg,           \* "none", "link" (bin only), "good" or "bad"
          stash, pkgStash,    \* maw.prev and maw-js.update-stash
          step,               \* where the update is
          stashed, pkgStashed, \* what it has renamed away itself
          began,              \* history: `maw` ran when it began
          hitch               \* history: a rename of its own failed

disk == <<bin, pkg, stash, pkgStash>>
run == <<stashed, pkgStashed, began, hitch>>
updateVars == <<disk, step, run>>

Package == {"none", "good", "bad"}
Binary == Package \cup {"link"}

\* Whether a binary runs, given the package it may be a link into.
Runs(b, p) == b = "good" \/ (b = "link" /\ p = "good")
Works == Runs(bin, pkg)

UpdateInit ==
    /\ bin = "link" /\ pkg = "good" /\ stash = "none" /\ pkgStash = "none"
    /\ step = "idle" /\ stashed = FALSE /\ pkgStashed = FALSE
    /\ began = TRUE /\ hitch = FALSE

Goes(from, to) == step = from /\ step' = to

Start ==
    /\ Goes("idle", "first")
    /\ began' = Works /\ hitch' = FALSE /\ stashed' = FALSE /\ pkgStashed' = FALSE
    /\ UNCHANGED disk

\* The first `bun add`.
FirstAdd ==
    \/ Goes("first", "updated") /\ bin' = "link" /\ pkg' \in {"good", "bad"}
       /\ UNCHANGED <<stash, pkgStash, run>>
    \/ Goes("first", "rotate") /\ UNCHANGED <<disk, run>>

\* What a crashed update left at maw.prev is renamed once more, or the update refuses.
Rotate ==
    /\ \/ Goes("rotate", "stash") /\ stash' = "none"
       \/ Goes("rotate", "failed") /\ stash # "none" /\ UNCHANGED stash
    /\ UNCHANGED <<bin, pkg, pkgStash, run>>

StashBinary ==
    /\ Goes("stash", "evict")
    /\ \/ /\ bin # "none"
          /\ stash' = bin /\ bin' = "none" /\ stashed' = TRUE /\ UNCHANGED hitch
       \/ /\ hitch' = (hitch \/ bin # "none")
          /\ UNCHANGED <<stash, bin, stashed>>
    /\ UNCHANGED <<pkg, pkgStash, pkgStashed, began>>

\* The package stash of a crashed update goes ...
EvictStash ==
    /\ Goes("evict", "package") /\ pkgStash' = "none"
    /\ UNCHANGED <<bin, pkg, stash, run>>

\* Mutant: the package is removed instead (#950 before the stash).
RemovePackage ==
    /\ Goes("package", "second")
    /\ pkg' = "none"
    /\ UNCHANGED <<bin, stash, pkgStash, run>>

\* ... and the package takes its place; `bun remove` then removes what is still there.
StashPackage ==
    /\ Goes("package", "second")
    /\ \/ /\ pkg # "none"
          /\ pkgStash' = pkg /\ pkgStashed' = TRUE /\ UNCHANGED hitch
       \/ /\ hitch' = (hitch \/ pkg # "none")
          /\ UNCHANGED <<pkgStash, pkgStashed>>
    /\ pkg' = "none"
    /\ UNCHANGED <<bin, stash, stashed, began>>

SecondAdd ==
    /\ \/ Goes("second", "verify") /\ bin' = "link" /\ pkg' \in {"good", "bad"}
       \/ Goes("second", "download") /\ pkg' \in Package /\ bin' \in {bin, "link"}
    /\ UNCHANGED <<stash, pkgStash, run>>

\* The release binary, by curl straight to the path of the binary (or through a link
\* there, which makes no difference to what runs), and `maw --version`.
Download ==
    /\ \/ bin' = "good" /\ Goes("download", "verify")
       \/ bin' \in {bin, "bad"} /\ Goes("download", "restore")
    /\ UNCHANGED <<pkg, stash, pkgStash, run>>

\* `maw --version` says whether the fresh install runs.
Verify ==
    /\ IF Works THEN Goes("verify", "discard") ELSE Goes("verify", "restore")
    /\ UNCHANGED <<disk, run>>

DiscardBinary ==
    /\ Goes("discard", "discardPackage")
    /\ stash' = IF stashed THEN "none" ELSE stash
    /\ UNCHANGED <<bin, pkg, pkgStash, run>>

DiscardPackage ==
    /\ Goes("discardPackage", "updated")
    /\ pkgStash' = IF pkgStashed THEN "none" ELSE pkgStash
    /\ UNCHANGED <<bin, pkg, stash, run>>

\* restorePkgStash: remove what is there, then rename; then the binary likewise.
ClearPackage ==
    /\ Goes("restore", "restorePackage")
    /\ pkg' = IF pkgStashed /\ pkgStash # "none" THEN "none" ELSE pkg
    /\ UNCHANGED <<bin, stash, pkgStash, run>>

RestorePackage ==
    /\ Goes("restorePackage", "restoreBinary")
    /\ IF pkgStashed /\ pkgStash # "none"
         THEN \/ pkg' = pkgStash /\ pkgStash' = "none" /\ UNCHANGED hitch
              \/ hitch' = TRUE /\ UNCHANGED <<pkg, pkgStash>>
         ELSE UNCHANGED <<pkg, pkgStash, hitch>>
    /\ UNCHANGED <<bin, stash, stashed, pkgStashed, began>>

RestoreBinary ==
    /\ Goes("restoreBinary", "failed")
    /\ IF stashed /\ stash # "none"
         THEN \/ bin' = stash /\ stash' = "none" /\ UNCHANGED hitch
              \/ hitch' = TRUE /\ UNCHANGED <<bin, stash>>
         ELSE UNCHANGED <<bin, stash, hitch>>
    /\ UNCHANGED <<pkg, pkgStash, stashed, pkgStashed, began>>

\* The update ends, or dies; the lock is free again.
Ends == step \in {"updated", "failed"} /\ step' = "idle" /\ UNCHANGED <<disk, run>>
Killed == step \notin {"idle", "updated", "failed"} /\ step' = "idle" /\ UNCHANGED <<disk, run>>

\* The user installs maw by hand after an update that left none.
Reinstall ==
    /\ step = "idle" /\ ~Works /\ bin' = "link" /\ pkg' = "good"
    /\ UNCHANGED <<step, stash, pkgStash, run>>

UpdateNext ==
    \/ Start \/ FirstAdd \/ Rotate \/ StashBinary \/ EvictStash \/ StashPackage
    \/ SecondAdd \/ Download \/ Verify \/ DiscardBinary \/ DiscardPackage
    \/ ClearPackage \/ RestorePackage \/ RestoreBinary \/ Ends \/ Killed \/ Reinstall

UpdateSpec == UpdateInit /\ [][UpdateNext]_updateVars

-----------------------------------------------------------------------------
\* Every variable has its type.
UpdateTypeOK ==
    /\ bin \in Binary /\ stash \in Binary
    /\ pkg \in Package /\ pkgStash \in Package
    /\ step \in {"idle", "first", "rotate", "stash", "evict", "package", "second", "download",
               "verify", "discard", "discardPackage", "restore", "restorePackage",
               "restoreBinary", "updated", "failed"}
    /\ stashed \in BOOLEAN /\ pkgStashed \in BOOLEAN
    /\ began \in BOOLEAN /\ hitch \in BOOLEAN

\* The comment of runUpdate: the retry and the roll-back leave the user a working maw.
FailureRestores == step = "failed" /\ began /\ ~hitch => Works

\* A working maw is at its place or under its stash name.
Recoverable ==
    \E b \in {bin, stash}, p \in {pkg, pkgStash} : Runs(b, p)

\* "never rotate away the old one until the new one is confirmed working": an update
\* that begins with a maw that runs puts it out of reach at no step, wherever it dies.
NeverOutOfReach == step \notin {"idle", "updated"} /\ began /\ ~hitch => Recoverable

\* An update that starts from a working maw keeps one within reach at every step, and
\* restores it if it fails.
UpdateKeepsAMaw == FailureRestores /\ NeverOutOfReach
=============================================================================
