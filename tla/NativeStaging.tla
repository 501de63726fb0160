----------------------------- MODULE NativeStaging -----------------------------
(***************************************************************************)
(* Copying a selected native source into a job's own directory             *)
(* (adapters/artifacts/native_staging.py, native_source.py): the source is *)
(* resolved against its checksum manifest, copied, resolved again, and the *)
(* copy is verified before a receipt vouches for it.  Meanwhile anyone may *)
(* rewrite the source or the copy, the caller may be cancelled, a second   *)
(* call may come with the same run, and the server may crash.              *)
(*                                                                         *)
(* A file is its version; a manifest is the version it declares for every  *)
(* asset, so that equal checksums are equal versions.  Sizes are left out: *)
(* a file of another size is a file of another version.  The note of a     *)
(* failure can always be written.                                          *)
(***************************************************************************)
EXTENDS Naturals

CONSTANTS
    Asset,       \* the files the manifest names
    Version,     \* the contents a file may have
    Call,        \* calls of stage() with one run_id
    Missing,
    MaxEdits,    \* bound: files rewritten by others in one behaviour
    MaxDowns     \* bound: crashes of the server

ASSUME StagingAssumption ==
    /\ Missing \notin Version \union [Asset -> Version]
    /\ MaxEdits \in Nat
    /\ MaxDowns \in Nat

VARIABLES
    source,      \* the source's assets
    manifest,    \* the source's SHA256.json
    expected,    \* NativeModelSource, captured when the job was queued
    copied,      \* native-source/: its assets
    copiedManifest,      \* native-source/SHA256.json
    extra,       \* native-source/ has a file that no manifest names
    made,        \* native-source/ exists
    receipt, note,       \* native-source-receipt.json, native-source-failure.json
    at,          \* where each call of stage() is
    raw,         \* the manifest this pass has read
    left,        \* the assets this pass has not come to yet
    owned,       \* the call's Event: it made the directory
    cancelled,   \* the call's task has been cancelled
    late,        \* assets of the copy rewritten after they were verified
    edits, downs

files == <<copied, copiedManifest, extra, made, receipt, note>>
calls == <<at, raw, left, owned, cancelled>>
stagingVars == <<source, manifest, expected, files, calls, late, edits, downs>>

Content == Version \union {Missing}
Manifest == [Asset -> Version]
Resolving == {"first", "second"}
Draining == {"copy", "verify", "undo"}     \* under run_to_completion
Over == {"returned", "failed", "stopped", "gone"}

StagingTypeOK ==
    /\ source \in Manifest
    /\ manifest \in Manifest
    /\ expected \in Manifest
    /\ copied \in [Asset -> Content]
    /\ copiedManifest \in Manifest \union {Missing}
    /\ {extra, made, receipt, note} \subseteq BOOLEAN
    /\ at \in [Call -> {"idle"} \union Resolving \union Draining \union Over]
    /\ raw \in [Call -> Manifest \union {Missing}]
    /\ left \in [Call -> SUBSET Asset]
    /\ owned \subseteq Call
    /\ cancelled \subseteq Call
    /\ late \subseteq Asset
    /\ edits \in Nat
    /\ downs \in Nat

\* The capture resolved the source: it agreed with its manifest then.
StagingInit ==
    /\ source \in Manifest
    /\ manifest = source
    /\ expected = source
    /\ copied = [a \in Asset |-> Missing]
    /\ copiedManifest = Missing
    /\ extra = FALSE /\ made = FALSE
    /\ receipt = FALSE /\ note = FALSE
    /\ at = [c \in Call |-> "idle"]
    /\ raw = [c \in Call |-> Missing]
    /\ left = [c \in Call |-> {}]
    /\ owned = {} /\ cancelled = {}
    /\ late = {}
    /\ edits = 0 /\ downs = 0

-----------------------------------------------------------------------------
(* Passes over the files *)

\* The call goes on to its next pass, with no manifest read.
Move(c, place) ==
    /\ at' = [at EXCEPT ![c] = place]
    /\ raw' = [raw EXCEPT ![c] = Missing]
    /\ left' = [left EXCEPT ![c] = {}]

\* This pass has read manifest m: every asset of it is still to come.
Opened(c, m) ==
    /\ raw' = [raw EXCEPT ![c] = m]
    /\ left' = [left EXCEPT ![c] = Asset]
    /\ UNCHANGED at

Passed(c, a) ==
    /\ left' = [left EXCEPT ![c] = @ \ {a}]
    /\ UNCHANGED <<at, raw>>

Here(c, place) == at[c] = place /\ UNCHANGED <<owned, cancelled, downs, edits>>
World == <<source, manifest, expected>>

\* The answer of a task: CancelledError if it was cancelled while its thread drained.
End(c, place) == Move(c, IF c \in cancelled THEN "stopped" ELSE place)

Stage(c) ==
    /\ Here(c, "idle")
    /\ Move(c, "first")
    /\ UNCHANGED <<World, files, late>>

\* An error before the directory is owned leaves nothing; after that it has to be undone.
Stale(c) == Move(c, IF at[c] = "second" THEN "undo" ELSE "failed")

(* FilesystemNativeSource._resolve *)
ResolveManifest(c) ==
    /\ at[c] \in Resolving /\ raw[c] = Missing
    /\ Opened(c, manifest)
    /\ UNCHANGED <<World, files, owned, cancelled, late, edits, downs>>

\* fingerprint_source_asset: an asset is read whole, or its stat gives a change away.
ResolveAsset(c) ==
    /\ at[c] \in Resolving
    /\ \E a \in left[c] : IF source[a] = raw[c][a] THEN Passed(c, a) ELSE Stale(c)
    /\ UNCHANGED <<World, files, owned, cancelled, late, edits, downs>>

\* The manifest is read once more; what was resolved has to be what was expected.
Resolved(c) ==
    /\ at[c] \in Resolving /\ raw[c] # Missing /\ left[c] = {}
    /\ IF manifest = raw[c] /\ raw[c] = expected
       THEN Move(c, IF at[c] = "first" THEN "copy" ELSE "verify")
       ELSE Stale(c)
    /\ UNCHANGED <<World, files, owned, cancelled, late, edits, downs>>

(* _failure: the receipt goes, the first diagnostic stays. *)
Undone == receipt' = FALSE /\ note' = TRUE

(* _copy, in a thread *)
MakeDirectory(c) ==
    /\ at[c] = "copy" /\ c \notin owned
    /\ IF made
       THEN End(c, "failed") /\ UNCHANGED <<made, owned>>
       ELSE /\ made' = TRUE
            /\ owned' = owned \union {c}
            /\ UNCHANGED <<at, raw, left>>
    /\ UNCHANGED <<World, copied, copiedManifest, extra, receipt, note, cancelled, late, edits, downs>>

\* _copy records its own failure; a cancelled stage() records it again, to no effect.
CopyFails(c) == Undone /\ End(c, "failed")

CopyManifest(c) ==
    /\ Here(c, "copy") /\ c \in owned /\ raw[c] = Missing
    /\ IF manifest = expected
       THEN Opened(c, manifest) /\ UNCHANGED <<receipt, note>>
       ELSE CopyFails(c)
    /\ UNCHANGED <<World, copied, copiedManifest, extra, made, late>>

\* The target is opened "x": one that is there already is not overwritten.
CopyAsset(c) ==
    /\ Here(c, "copy")
    /\ \E a \in left[c] :
         /\ copied' = IF copied[a] = Missing THEN [copied EXCEPT ![a] = source[a]] ELSE copied
         /\ IF copied[a] = Missing /\ source[a] = raw[c][a]
            THEN Passed(c, a) /\ UNCHANGED <<receipt, note>>
            ELSE CopyFails(c)
    /\ UNCHANGED <<World, copiedManifest, extra, made, late>>

\* The copy is complete; a cancellation that waited for the thread now undoes it.
CopyEnds(c) ==
    /\ Here(c, "copy") /\ raw[c] # Missing /\ left[c] = {}
    /\ copiedManifest' = IF copiedManifest = Missing THEN raw[c] ELSE copiedManifest
    /\ IF copiedManifest # Missing THEN CopyFails(c)
       ELSE /\ Move(c, IF c \in cancelled THEN "undo" ELSE "second")
            /\ UNCHANGED <<receipt, note>>
    /\ UNCHANGED <<World, copied, extra, made, late>>

(* _receipt, in a thread *)
\* Mutant: the receipt trusts the copy's files once their names agree.
VerifyManifestOnly(c) ==
    /\ Here(c, "verify") /\ raw[c] = Missing
    /\ raw' = [raw EXCEPT ![c] = expected]
    /\ UNCHANGED <<at, left, World, files, late>>

VerifyManifest(c) ==
    /\ Here(c, "verify") /\ raw[c] = Missing
    /\ IF copiedManifest = expected /\ ~extra /\ \A a \in Asset : copied[a] # Missing
       THEN Opened(c, copiedManifest) ELSE Move(c, "undo")
    /\ UNCHANGED <<World, files, late>>

VerifyAsset(c) ==
    /\ Here(c, "verify")
    /\ \E a \in left[c] :
         IF copied[a] = raw[c][a] THEN Passed(c, a) ELSE Move(c, "undo")
    /\ UNCHANGED <<World, files, late>>

\* Mutant: the cancelled caller leaves as soon as the receipt is written.
WriteReceiptAndLeave(c) ==
    /\ Here(c, "verify") /\ raw[c] # Missing /\ left[c] = {}
    /\ receipt' = TRUE
    /\ End(c, "returned")
    /\ UNCHANGED <<World, copied, copiedManifest, extra, made, note, late>>

\* The receipt is opened "x" and stays, unless the caller was cancelled meanwhile.
WriteReceipt(c) ==
    /\ Here(c, "verify") /\ raw[c] # Missing /\ left[c] = {}
    /\ receipt' = TRUE
    /\ Move(c, IF c \in cancelled \/ receipt THEN "undo" ELSE "returned")
    /\ UNCHANGED <<World, copied, copiedManifest, extra, made, note, late>>

Undo(c) ==
    /\ Here(c, "undo")
    /\ Undone
    /\ End(c, "failed")
    /\ UNCHANGED <<World, copied, copiedManifest, extra, made, late>>

-----------------------------------------------------------------------------
(* The others *)

\* A drain outlives a cancellation; another await passes it on at once.
CancelStage(c) ==
    /\ c \notin cancelled /\ at[c] \in Resolving \union Draining
    /\ cancelled' = cancelled \union {c}
    /\ CASE at[c] = "first" -> Move(c, "stopped")
         [] at[c] = "second" -> Move(c, "undo")
         [] OTHER -> UNCHANGED <<at, raw, left>>
    /\ UNCHANGED <<World, files, owned, late, edits, downs>>

\* Anyone rewrites the source: an asset, or the manifest.
EditSource ==
    /\ edits < MaxEdits /\ edits' = edits + 1
    /\ \E a \in Asset, v \in Version :
         \/ source' = [source EXCEPT ![a] = v] /\ UNCHANGED manifest
         \/ manifest' = [manifest EXCEPT ![a] = v] /\ UNCHANGED source
    /\ UNCHANGED <<expected, files, calls, late, downs>>

\* The pass behind the receipt has come past this asset.
Verified(a) ==
    receipt \/ \E c \in Call : at[c] = "verify" /\ raw[c] # Missing /\ a \notin left[c]

\* Anyone rewrites the copy: an asset, or a file no manifest names.
EditCopy ==
    /\ made
    /\ edits < MaxEdits /\ edits' = edits + 1
    /\ \/ \E a \in Asset, v \in Version :
            /\ copied' = [copied EXCEPT ![a] = v]
            /\ late' = IF Verified(a) THEN late \union {a} ELSE late
            /\ UNCHANGED extra
       \/ extra' = TRUE /\ UNCHANGED <<copied, late>>
    /\ UNCHANGED <<World, copiedManifest, made, receipt, note, calls, downs>>

\* The server dies with its threads; the files stay.
ServerDies ==
    /\ downs < MaxDowns /\ downs' = downs + 1
    /\ at' = [c \in Call |-> IF at[c] = "idle" \/ at[c] \in Over THEN at[c] ELSE "gone"]
    /\ raw' = [c \in Call |-> Missing]
    /\ left' = [c \in Call |-> {}]
    /\ UNCHANGED <<World, files, owned, cancelled, late, edits>>

StageStep(c) ==
    \/ ResolveManifest(c) \/ ResolveAsset(c) \/ Resolved(c)
    \/ MakeDirectory(c) \/ CopyManifest(c) \/ CopyAsset(c) \/ CopyEnds(c)
    \/ VerifyManifest(c) \/ VerifyAsset(c) \/ WriteReceipt(c) \/ Undo(c)

StagingNext ==
    \/ \E c \in Call : Stage(c) \/ StageStep(c) \/ CancelStage(c)
    \/ EditSource \/ EditCopy \/ ServerDies

StagingSpec == StagingInit /\ [][StagingNext]_stagingVars

-----------------------------------------------------------------------------
(* Properties *)

\* A receipt vouches for the copy: every asset is the captured one, unless it
\* was rewritten after the receipt's own verification.  Source and copy are
\* rewritten by others at any moment (stage, _copy, _receipt).
ReceiptVouches ==
    receipt => \A a \in Asset : copied[a] = expected[a] \/ a \in late

\* What a call answered is what the files say: a snapshot that was returned has
\* its receipt and no diagnostic, one that was begun and given up has the
\* diagnostic and no receipt, also when the caller was cancelled in the middle
\* and when a second call collides with it (the except clauses of stage).
VerdictIsRecorded ==
    \A c \in Call :
        /\ at[c] = "returned" => receipt /\ ~note
        /\ c \in owned /\ at[c] \in {"failed", "stopped"} => note /\ ~receipt
=============================================================================
