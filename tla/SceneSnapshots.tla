---------------------------- MODULE SceneSnapshots ----------------------------
(***************************************************************************)
(* Snapshots of the scene (api/routers/snapshots.py, snapshot_scripts.py,  *)
(* sqlite_snapshot_store.py): Blender writes a .blend file named after the *)
(* second, then a row is stored; a restore opens the row's file; a delete  *)
(* removes the row only.  A file is the scene it holds.                    *)
(***************************************************************************)
EXTENDS StudioScene

CONSTANT MaxSnaps    \* bound: requests for a snapshot

ASSUME SnapAssumption == MaxSnaps \in Nat

VARIABLES
    now,         \* the second it is
    files,       \* the file of each second: the scene in it, or None
    rows,        \* snapshots with a row
    path,        \* the second in a snapshot's blend_path
    meant,       \* the scene each snapshot was asked for
    saving,      \* idle, asked, written, over: each POST /api/snapshot
    restoring    \* the snapshot whose row a restore has read, or None

snapVars == <<now, files, rows, path, meant, saving, restoring>>

Snap == 1..MaxSnaps          \* uuids, in the order they are asked for
Second == 0..MaxSnaps

SnapTypeOK ==
    /\ now \in Second
    /\ files \in [Second -> 0..scene \union {None}]
    /\ rows \subseteq Snap
    /\ path \in [Snap -> Second]
    /\ meant \in [Snap -> 0..scene]
    /\ saving \in [Snap -> {"idle", "asked", "written", "over"}]
    /\ restoring \in Snap \union {None}

SnapInit ==
    /\ now = 0
    /\ files = [s \in Second |-> None]
    /\ rows = {} /\ restoring = None
    /\ path = [s \in Snap |-> 0] /\ meant = [s \in Snap |-> 0]
    /\ saving = [s \in Snap |-> "idle"]

CreateSnapshot(s) ==
    /\ Gesture
    /\ saving[s] = "idle" /\ \A earlier \in 1..(s - 1) : saving[earlier] # "idle"
    /\ saving' = [saving EXCEPT ![s] = "asked"]
    /\ UNCHANGED <<sceneVars, now, files, rows, path, meant, restoring>>

\* The script runs whole in Blender; some time may have passed.
SaveFile(s) ==
    /\ saving[s] = "asked"
    /\ now' \in {now, now + 1} \intersect Second
    /\ files' = [files EXCEPT ![now'] = shape]
    /\ path' = [path EXCEPT ![s] = now']
    /\ meant' = [meant EXCEPT ![s] = shape]
    /\ saving' = [saving EXCEPT ![s] = "written"]
    /\ UNCHANGED <<sceneVars, gestures, rows, restoring>>

SaveFails(s) ==
    /\ saving[s] = "asked" /\ saving' = [saving EXCEPT ![s] = "over"]
    /\ UNCHANGED <<sceneVars, gestures, now, files, rows, path, meant, restoring>>

\* After the thumbnail, with or without one.
StoreRow(s) ==
    /\ saving[s] = "written" /\ saving' = [saving EXCEPT ![s] = "over"]
    /\ rows' = rows \union {s}
    /\ UNCHANGED <<sceneVars, gestures, now, files, path, meant, restoring>>

AskRestore(s) ==
    /\ Gesture
    /\ restoring = None /\ s \in rows /\ files[path[s]] # None
    /\ restoring' = s
    /\ UNCHANGED <<sceneVars, now, files, rows, path, meant, saving>>

\* The restore raises no tick: the web app is not told that the scene changed.
Restore ==
    /\ restoring # None
    /\ scene' = scene + 1
    /\ shape' = files[path[restoring]]
    /\ restoring' = None
    /\ UNCHANGED <<tick, told, gestures, now, files, rows, path, meant, saving>>

\* Mutant: the delete takes the .blend file with it.
DeleteWithFile(s) ==
    /\ Gesture
    /\ s \in rows /\ rows' = rows \ {s}
    /\ files' = [files EXCEPT ![path[s]] = None]
    /\ UNCHANGED <<sceneVars, now, path, meant, saving, restoring>>

DeleteRow(s) ==
    /\ Gesture
    /\ s \in rows /\ rows' = rows \ {s}
    /\ UNCHANGED <<sceneVars, now, files, path, meant, saving, restoring>>

SnapStep(s) == SaveFile(s) \/ SaveFails(s) \/ StoreRow(s)

SnapNext ==
    \/ Restore
    \/ \E s \in Snap : CreateSnapshot(s) \/ SnapStep(s) \/ AskRestore(s) \/ DeleteRow(s)

-----------------------------------------------------------------------------
(* Properties *)

\* A snapshot can be restored, and shows the scene it was saved from unless
\* another was saved in the same second: that one has written over its file
\* (snapshot_scripts.py:12).  Deletes of other snapshots, also of one that
\* shares the file, and a delete while it is restored take nothing away.
SnapshotIsIntact ==
    \A s \in rows \union ({restoring} \ {None}) :
        /\ files[path[s]] # None
        /\ files[path[s]] = meant[s] \/
              \E other \in Snap \ {s} : saving[other] \in {"written", "over"} /\ path[other] = path[s]
=============================================================================
