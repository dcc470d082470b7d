------------------------------ MODULE AssetStore ------------------------------
(***************************************************************************)
(* The pictures of the catalogue on disk (src/modules/feishu/              *)
(* asset-storage.ts, asset-coordination.ts): staged under the run that     *)
(* downloaded them, published once under their digest.                     *)
(*                                                                         *)
(* A lock is an advisory lock of a transaction: it is gone when the        *)
(* connection is. The code looks at it before and after each access to the *)
(* disk, so a call that lost its lock makes at most one more access. Paths *)
(* and image formats are left out, and a machine that loses what it has    *)
(* not synced.                                                             *)
(***************************************************************************)
EXTENDS FiniteSets, Naturals

CONSTANTS Callers, Runs, Digests, Nobody,
          MaxFiles  \* that fit in the directory of a run

VARIABLES call,     \* what a caller is doing
          lock,     \* the holder of the lock of a run or a digest
          scratch,  \* callers whose temporary file is there
          staged,   \* files under the directory of a run
          final,    \* the file of a digest: none, part or whole
          given,    \* manifests that a stage has returned
          closed,   \* runs that somebody has begun to discard
          committed, \* digests that a commit has returned
          links     \* the disk knows hard links; never changes

assetVars == <<call, lock, scratch, staged, final, given, closed, committed, links>>

File == Runs \X Digests
Idle == [at |-> "resting"]

Init ==
    /\ call = [p \in Callers |-> Idle] /\ lock = [k \in Runs \cup Digests |-> Nobody]
    /\ scratch = {} /\ staged = {} /\ final = [d \in Digests |-> "none"]
    /\ given = {} /\ closed = {} /\ committed = {} /\ links \in BOOLEAN

-----------------------------------------------------------------------------
(* The locks                                                                *)

KeyOf(c) == IF c.op = "commit" THEN c.digest ELSE c.run
Working(p) == call[p].at \notin {"resting", "waiting"}
Holds(p) == Working(p) /\ lock[KeyOf(call[p])] = p
\* The call has just looked at its lock, or still has it.
Able(p) == Working(p) /\ (Holds(p) \/ call[p].looked)

Release(p) == lock' = IF Holds(p) THEN [lock EXCEPT ![KeyOf(call[p])] = Nobody] ELSE lock
Step(p, from, to) ==
    /\ call[p].at = from /\ Able(p)
    /\ call' = [call EXCEPT ![p].at = to, ![p].looked = FALSE]
\* The last look at the lock, before the transaction ends.
Return(p, from) ==
    /\ call[p].at = from /\ Holds(p)
    /\ Release(p) /\ call' = [call EXCEPT ![p] = Idle]

Begin(p, op, f) ==
    /\ call[p] = Idle
    /\ op = "commit" => f \in given
    /\ call' = [call EXCEPT ![p] = [at |-> "waiting", op |-> op, run |-> f[1], digest |-> f[2],
                                    looked |-> FALSE]]
    /\ closed' = IF op = "discard" THEN closed \cup {f[1]} ELSE closed
    /\ UNCHANGED <<lock, scratch, staged, final, given, committed, links>>

TimesOut(p) ==
    /\ call[p].at = "waiting" /\ lock[KeyOf(call[p])] # Nobody
    /\ call' = [call EXCEPT ![p] = Idle]
    /\ UNCHANGED <<lock, scratch, staged, final, given, closed, committed, links>>

\* Temporary files of this directory are reclaimed when they are old, also those of a
\* caller that does not know yet that it lost its lock.
SameDirectory(p, q) == Working(q) /\ KeyOf(call[q]) = KeyOf(call[p])
First(op) == CASE op = "stage" -> "look" [] op = "commit" -> "read" [] op = "discard" -> "remove"
TakeLock(p) ==
    /\ call[p].at = "waiting" /\ lock[KeyOf(call[p])] = Nobody
    /\ lock' = [lock EXCEPT ![KeyOf(call[p])] = p]
    /\ call' = [call EXCEPT ![p].at = First(call[p].op)]
    /\ \E old \in SUBSET {q \in scratch : SameDirectory(p, q)} :
          scratch' = IF call[p].op = "discard" THEN scratch ELSE scratch \ old
    /\ UNCHANGED <<staged, final, given, closed, committed, links>>

\* Only with hard links: without them the cleanup of a caller that lost its lock removes a
\* picture that another has committed, and AssetsSurvive does not hold.
LoseLock(p) ==
    /\ Holds(p) /\ links
    /\ lock' = [lock EXCEPT ![KeyOf(call[p])] = Nobody]
    /\ \E looked \in BOOLEAN : call' = [call EXCEPT ![p].looked = looked]
    /\ UNCHANGED <<scratch, staged, final, given, closed, committed, links>>

-----------------------------------------------------------------------------
(* stageCatalogAsset                                                        *)

Mine(p) == <<call[p].run, call[p].digest>>
FilesOf(r) == {f \in staged : f[1] = r}

Look(p) ==
    /\ Step(p, "look", IF Mine(p) \in staged THEN "staged" ELSE "write")
    /\ Mine(p) \in staged \/ Cardinality(FilesOf(call[p].run)) < MaxFiles
    /\ UNCHANGED <<lock, scratch, staged, final, given, closed, committed, links>>

Write(p) ==
    /\ Step(p, "write", IF call[p].op = "stage" THEN "rename" ELSE "publish")
    /\ scratch' = scratch \cup {p}
    /\ UNCHANGED <<lock, staged, final, given, closed, committed, links>>

Rename(p) ==
    /\ Step(p, "rename", "staged") /\ p \in scratch
    /\ scratch' = scratch \ {p} /\ staged' = staged \cup {Mine(p)}
    /\ UNCHANGED <<lock, final, given, closed, committed, links>>

StageReturns(p) ==
    /\ Return(p, "staged")
    /\ given' = given \cup {Mine(p)}
    /\ UNCHANGED <<scratch, staged, final, closed, committed, links>>

-----------------------------------------------------------------------------
(* commitCatalogAsset                                                       *)

ReadStaged(p) ==
    /\ Step(p, "read", "write") /\ Mine(p) \in staged
    /\ UNCHANGED <<lock, scratch, staged, final, given, closed, committed, links>>

AnyFile(d) == final[d] # "none"
\* verifyExistingPublishedTarget
SameBytes(d) == final[d] = "whole"

Link(p) ==
    /\ links /\ Step(p, "publish", "settle")
    /\ p \in scratch /\ final[call[p].digest] = "none"
    /\ final' = [final EXCEPT ![call[p].digest] = "whole"]
    /\ UNCHANGED <<lock, scratch, staged, given, closed, committed, links>>

\* Without hard links the bytes are written in place.
Create(p) ==
    /\ ~links /\ Step(p, "publish", "fill")
    /\ p \in scratch /\ final[call[p].digest] = "none"
    /\ final' = [final EXCEPT ![call[p].digest] = "part"]
    /\ UNCHANGED <<lock, scratch, staged, given, closed, committed, links>>
Fill(p) ==
    /\ Step(p, "fill", "settle")
    /\ final' = [final EXCEPT ![call[p].digest] = "whole"]
    /\ UNCHANGED <<lock, scratch, staged, given, closed, committed, links>>

AlreadyThere(p) ==
    /\ Step(p, "publish", "published") /\ scratch' = scratch \ {p}
    /\ SameBytes(call[p].digest) /\ p \in scratch
    /\ UNCHANGED <<lock, staged, final, given, closed, committed, links>>

Settle(p) ==
    /\ Step(p, "settle", "published") /\ scratch' = scratch \ {p}
    /\ UNCHANGED <<lock, staged, final, given, closed, committed, links>>

UnlinkStaged(p) ==
    /\ Step(p, "published", "unlinked")
    /\ staged' = staged \ {Mine(p)}
    /\ UNCHANGED <<lock, scratch, final, given, closed, committed, links>>

CommitReturns(p) ==
    /\ Return(p, "unlinked")
    /\ committed' = committed \cup {call[p].digest}
    /\ UNCHANGED <<scratch, staged, final, given, closed, links>>

-----------------------------------------------------------------------------
(* discardStagedAssets                                                      *)

Remove(p) ==
    /\ Step(p, "remove", "removed")
    /\ staged' = staged \ FilesOf(call[p].run)
    /\ scratch' = scratch \ {q \in scratch : SameDirectory(p, q)}
    /\ UNCHANGED <<lock, final, given, closed, committed, links>>
DiscardReturns(p) ==
    /\ Return(p, "removed")
    /\ UNCHANGED <<scratch, staged, final, given, closed, committed, links>>

-----------------------------------------------------------------------------
(* Failures                                                                 *)

\* What can go wrong at a step, besides a lock that was lost.
Trouble(p) ==
    CASE call[p].at \in {"write", "fill", "settle", "remove"} -> TRUE  \* the disk
      [] call[p].at = "look"    -> Mine(p) \notin staged /\ Cardinality(FilesOf(call[p].run)) >= MaxFiles
      [] call[p].at = "rename"  -> p \notin scratch
      [] call[p].at = "read"    -> Mine(p) \notin staged
      [] call[p].at = "publish" -> p \notin scratch \/ final[call[p].digest] = "part"
      [] OTHER -> FALSE
\* cleanupOwnedPathOnFailure: a file that this call wrote in place is removed again.
Owned(p) == ~links /\ call[p].at \in {"fill", "settle"}
GiveUp(p) ==
    /\ Working(p) /\ (Trouble(p) \/ (~Holds(p) /\ ~call[p].looked))
    /\ final' = IF Owned(p) THEN [final EXCEPT ![call[p].digest] = "none"] ELSE final
    /\ scratch' = scratch \ {p}
    /\ Release(p) /\ call' = [call EXCEPT ![p] = Idle]
    /\ UNCHANGED <<staged, given, closed, committed, links>>

Crash(p) ==
    /\ Working(p)
    /\ Release(p) /\ call' = [call EXCEPT ![p] = Idle] /\ scratch' = scratch \ {p}
    /\ UNCHANGED <<staged, final, given, closed, committed, links>>

Next == \E p \in Callers :
    \/ \E op \in {"stage", "commit", "discard"}, f \in File : Begin(p, op, f)
    \/ TakeLock(p) \/ TimesOut(p) \/ LoseLock(p) \/ Look(p) \/ Write(p) \/ Rename(p) \/ StageReturns(p)
    \/ ReadStaged(p) \/ Link(p) \/ Create(p) \/ Fill(p) \/ AlreadyThere(p) \/ Settle(p) \/ UnlinkStaged(p)
    \/ CommitReturns(p) \/ Remove(p) \/ DiscardReturns(p) \/ GiveUp(p) \/ Crash(p)
Spec == Init /\ [][Next]_assetVars

-----------------------------------------------------------------------------
(* Properties                                                               *)

\* A digest whose commit has returned is on disk with all its bytes, and stays there.
CommittedStays == \A d \in committed : final[d] = "whole"
\* A file that was staged, and whose run nobody has discarded, is still staged or published.
StagedStays == \A f \in given : f[1] \in closed \/ f \in staged \/ final[f[2]] = "whole"
\* No crash, lost lock or second writer of the same picture loses bytes that a caller
\* was told are stored.
AssetsSurvive == CommittedStays /\ StagedStays
=============================================================================
