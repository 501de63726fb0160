------------------------- MODULE NativeStagingProofs -------------------------
(***************************************************************************)
(* Proofs about NativeStaging for every set of assets, versions and calls, *)
(* and any number of rewrites and crashes.                                 *)
(***************************************************************************)
EXTENDS NativeStaging, TLAPS

\* What a call in its verifying pass has come past is the captured content.
VerifyInv ==
    \A c \in Call : at[c] = "verify" /\ raw[c] # Missing =>
        /\ raw[c] = expected
        /\ \A a \in Asset \ left[c] : copied[a] = expected[a] \/ a \in late

\* Who is past mkdir has made the directory, and only one call has; a pass
\* that has assets to come has read its manifest.
OwnerInv ==
    /\ \A c, d \in owned : c = d
    /\ owned # {} => made
    /\ \A c \in Call :
        /\ at[c] \in {"second", "verify", "undo", "returned"} => c \in owned
        /\ at[c] = "copy" /\ raw[c] # Missing => c \in owned
        /\ at[c] \in {"idle", "first"} => c \notin owned
        /\ left[c] # {} => raw[c] # Missing

\* The files are the owner's: there is a diagnostic exactly when it has given
\* up, and a receipt only once it has come through.
FilesInv ==
    /\ note => \E c \in owned : at[c] \in {"failed", "stopped"}
    /\ receipt => \E c \in owned : at[c] \in {"returned", "undo", "gone"}

StagingIInv == StagingTypeOK /\ ReceiptVouches /\ VerifyInv /\ OwnerInv /\ FilesInv /\ VerdictIsRecorded

-----------------------------------------------------------------------------
\* Each action of StagingNext, grouped by what it writes.
LEMMA StagingCases ==
    ASSUME [StagingNext]_stagingVars, NEW P,
           ASSUME NEW c \in Call, Stage(c) \/ ResolveManifest(c) \/ ResolveAsset(c) \/ Resolved(c) PROVE P,
           ASSUME NEW c \in Call, MakeDirectory(c) \/ CopyManifest(c) PROVE P,
           ASSUME NEW c \in Call, CopyAsset(c) \/ CopyEnds(c) PROVE P,
           ASSUME NEW c \in Call, VerifyManifest(c) \/ VerifyAsset(c) PROVE P,
           ASSUME NEW c \in Call, WriteReceipt(c) \/ Undo(c) PROVE P,
           ASSUME NEW c \in Call, CancelStage(c) PROVE P,
           ASSUME EditSource \/ EditCopy \/ ServerDies PROVE P,
           ASSUME UNCHANGED stagingVars PROVE P
    PROVE  P
BY Zenon DEF StagingNext, StageStep

LEMMA StagingTypeStep == StagingTypeOK /\ [StagingNext]_stagingVars => StagingTypeOK'
<1> SUFFICES ASSUME StagingTypeOK, [StagingNext]_stagingVars PROVE StagingTypeOK'
  OBVIOUS
<1> USE StagingAssumption DEF StagingTypeOK, Resolving, Draining, Over, Content, Manifest,
        World, files, Move, Opened, Passed, Here, End, Stale, Undone
<1> DEFINE Walking == /\ at' \in [Call -> {"idle"} \union Resolving \union Draining \union Over]
                     /\ raw' \in [Call -> Manifest \union {Missing}] /\ left' \in [Call -> SUBSET Asset]
<1>1. ASSUME NEW c \in Call, Stage(c) \/ ResolveManifest(c) \/ ResolveAsset(c) \/ Resolved(c)
      PROVE  StagingTypeOK'
  <2>1. CASE Stage(c) \/ ResolveManifest(c)
    BY <2>1 DEF Stage, ResolveManifest
  <2>2. CASE ResolveAsset(c) \/ Resolved(c)
    <3>1. \/ \E a \in left[c] : Passed(c, a)
          \/ \E place \in {"copy", "verify", "undo", "failed"} : Move(c, place)
      BY <2>2 DEF ResolveAsset, Resolved
    <3>2. UNCHANGED <<source, manifest, expected, copied, copiedManifest, extra, made, receipt, note, owned,
                      cancelled, late, edits, downs>>
      BY <2>2 DEF ResolveAsset, Resolved
    <3>3. Walking
      BY <3>1
    <3> QED BY <3>2, <3>3
  <2> QED BY <1>1, <2>1, <2>2
<1>2. ASSUME NEW c \in Call, MakeDirectory(c) \/ CopyManifest(c) PROVE StagingTypeOK'
  <2>1. CASE MakeDirectory(c)
    <3>1. \/ UNCHANGED <<at, raw, left>>
          \/ \E place \in {"failed", "stopped"} : Move(c, place)
      BY <2>1 DEF MakeDirectory
    <3>2. Walking
      BY <3>1
    <3>3. /\ made' \in BOOLEAN /\ owned' \subseteq Call
          /\ UNCHANGED <<source, manifest, expected, copied, copiedManifest, extra, receipt, note, cancelled, late,
                         edits, downs>>
      BY <2>1 DEF MakeDirectory
    <3> QED BY <3>2, <3>3
  <2>2. CASE CopyManifest(c)
    <3>1. /\ Opened(c, manifest) \/ \E place \in {"failed", "stopped"} : Move(c, place)
          /\ receipt' \in BOOLEAN /\ note' \in BOOLEAN
      BY <2>2 DEF CopyManifest, CopyFails
    <3>2. Walking
      BY <3>1
    <3>3. UNCHANGED <<source, manifest, expected, copied, copiedManifest, extra, made, late, owned, cancelled,
                      edits, downs>>
      BY <2>2 DEF CopyManifest
    <3> QED BY <3>1, <3>2, <3>3
  <2> QED BY <1>2, <2>1, <2>2
<1>3. ASSUME NEW c \in Call, CopyAsset(c) \/ CopyEnds(c) PROVE StagingTypeOK'
  <2>1. CASE CopyAsset(c)
    <3>1. PICK a \in left[c] :
             /\ copied' = IF copied[a] = Missing THEN [copied EXCEPT ![a] = source[a]] ELSE copied
             /\ \/ Passed(c, a) /\ UNCHANGED <<receipt, note>>
                \/ CopyFails(c)
      BY <2>1 DEF CopyAsset
    <3>2. a \in Asset /\ source[a] \in Version /\ copied' \in [Asset -> Content]
      BY <3>1
    <3>3. /\ Passed(c, a) \/ \E place \in {"failed", "stopped"} : Move(c, place)
          /\ receipt' \in BOOLEAN /\ note' \in BOOLEAN
      <4>1. CASE Passed(c, a) /\ UNCHANGED <<receipt, note>>
        BY <4>1
      <4>2. CASE CopyFails(c)
        BY <4>2 DEF CopyFails
      <4> QED BY <3>1, <4>1, <4>2
    <3>4. Walking
      BY <3>2, <3>3
    <3>5. UNCHANGED <<source, manifest, expected, copiedManifest, extra, made, late, owned, cancelled, edits, downs>>
      BY <2>1 DEF CopyAsset
    <3> QED BY <3>2, <3>3, <3>4, <3>5
  <2>2. CASE CopyEnds(c)
    <3>1. copiedManifest' \in Manifest \union {Missing}
      BY <2>2 DEF CopyEnds
    <3>2. /\ \E place \in {"undo", "second", "failed", "stopped"} : Move(c, place)
          /\ receipt' \in BOOLEAN /\ note' \in BOOLEAN
      BY <2>2 DEF CopyEnds, CopyFails
    <3>3. Walking
      BY <3>2
    <3>4. UNCHANGED <<source, manifest, expected, copied, extra, made, late, owned, cancelled, edits, downs>>
      BY <2>2 DEF CopyEnds
    <3> QED BY <3>1, <3>2, <3>3, <3>4
  <2> QED BY <1>3, <2>1, <2>2
<1>4. ASSUME NEW c \in Call, VerifyManifest(c) \/ VerifyAsset(c) PROVE StagingTypeOK'
  BY <1>4 DEF VerifyManifest, VerifyAsset
<1>5. ASSUME NEW c \in Call, WriteReceipt(c) \/ Undo(c) PROVE StagingTypeOK'
  BY <1>5 DEF WriteReceipt, Undo
<1>6. ASSUME NEW c \in Call, CancelStage(c) PROVE StagingTypeOK'
  BY <1>6 DEF CancelStage
<1>7. ASSUME EditSource \/ EditCopy \/ ServerDies PROVE StagingTypeOK'
  <2>1. CASE EditSource
    BY <2>1 DEF EditSource, calls
  <2>2. CASE EditCopy
    <3>1. copied' \in [Asset -> Content] /\ late' \subseteq Asset /\ extra' \in BOOLEAN
      <4>1. ASSUME NEW a \in Asset, NEW v \in Version,
                   copied' = [copied EXCEPT ![a] = v],
                   late' = IF Verified(a) THEN late \union {a} ELSE late,
                   UNCHANGED extra
            PROVE  copied' \in [Asset -> Content] /\ late' \subseteq Asset /\ extra' \in BOOLEAN
        <5>1. late' \in {late, late \union {a}}
          BY <4>1, Zenon
        <5> QED BY <4>1, <5>1
      <4>2. CASE extra' = TRUE /\ UNCHANGED <<copied, late>>
        BY <4>2
      <4> QED BY <2>2, <4>1, <4>2 DEF EditCopy
    <3> QED BY <2>2, <3>1 DEF EditCopy, calls
  <2>3. CASE ServerDies
    BY <2>3 DEF ServerDies
  <2> QED BY <1>7, <2>1, <2>2, <2>3
<1>8. ASSUME UNCHANGED stagingVars PROVE StagingTypeOK'
  BY <1>8 DEF stagingVars, calls
<1> QED BY <1>1, <1>2, <1>3, <1>4, <1>5, <1>6, <1>7, <1>8, StagingCases, Zenon

-----------------------------------------------------------------------------
\* Only the verifying pass and the rewrites of others bear on the receipt: the
\* asset a copy writes was missing, so nothing had vouched for it.
LEMMA VouchStep ==
    StagingTypeOK /\ ReceiptVouches /\ VerifyInv /\ [StagingNext]_stagingVars
        => ReceiptVouches' /\ VerifyInv'
<1> DEFINE V == ReceiptVouches' /\ VerifyInv'
<1> SUFFICES ASSUME StagingTypeOK, ReceiptVouches, VerifyInv, [StagingNext]_stagingVars PROVE V
  OBVIOUS
<1> USE StagingAssumption DEF StagingTypeOK, ReceiptVouches, VerifyInv, Content, Manifest,
        World, files, Move, Opened, Passed, Here, End, Stale, Undone
<1>1. ASSUME NEW c \in Call, Stage(c) \/ ResolveManifest(c) \/ ResolveAsset(c) \/ Resolved(c)
      PROVE  V
  BY <1>1 DEF Stage, ResolveManifest, ResolveAsset, Resolved, Resolving
<1>2. ASSUME NEW c \in Call, MakeDirectory(c) \/ CopyManifest(c) PROVE V
  BY <1>2 DEF MakeDirectory, CopyManifest, CopyFails
<1>3. ASSUME NEW c \in Call, CopyAsset(c) \/ CopyEnds(c) PROVE V
  <2>1. CASE CopyAsset(c)
    <3>1. PICK a \in left[c] :
             /\ copied' = IF copied[a] = Missing THEN [copied EXCEPT ![a] = source[a]] ELSE copied
             /\ \/ Passed(c, a) /\ UNCHANGED <<receipt, note>>
                \/ CopyFails(c)
      BY <2>1 DEF CopyAsset
    <3>2. \A b \in Asset : copied[b] = expected[b] => copied'[b] = copied[b]
      BY <3>1
    <3>3. expected' = expected /\ late' = late /\ at[c] = "copy"
      BY <2>1 DEF CopyAsset
    <3>4. CASE Passed(c, a) /\ UNCHANGED <<receipt, note>>
      BY <3>2, <3>3, <3>4
    <3>5. CASE CopyFails(c)
      BY <3>2, <3>3, <3>5 DEF CopyFails
    <3> QED BY <3>1, <3>4, <3>5
  <2>2. CASE CopyEnds(c)
    BY <2>2 DEF CopyEnds, CopyFails
  <2> QED BY <1>3, <2>1, <2>2
<1>4. ASSUME NEW c \in Call, VerifyManifest(c) \/ VerifyAsset(c) PROVE V
  BY <1>4 DEF VerifyManifest, VerifyAsset
<1>5. ASSUME NEW c \in Call, WriteReceipt(c) \/ Undo(c) PROVE V
  BY <1>5 DEF WriteReceipt, Undo
<1>6. ASSUME NEW c \in Call, CancelStage(c) PROVE V
  BY <1>6 DEF CancelStage
<1>7. ASSUME EditSource \/ EditCopy \/ ServerDies PROVE V
  <2>1. CASE EditSource
    BY <2>1 DEF EditSource, calls
  <2>2. CASE EditCopy
    BY <2>2 DEF EditCopy, Verified, calls
  <2>3. CASE ServerDies
    BY <2>3 DEF ServerDies
  <2> QED BY <1>7, <2>1, <2>2, <2>3
<1>8. ASSUME UNCHANGED stagingVars PROVE V
  BY <1>8 DEF stagingVars, calls
<1> QED BY <1>1, <1>2, <1>3, <1>4, <1>5, <1>6, <1>7, <1>8, StagingCases, Zenon

-----------------------------------------------------------------------------
LEMMA OwnerStep == StagingTypeOK /\ OwnerInv /\ [StagingNext]_stagingVars => OwnerInv'
<1> SUFFICES ASSUME StagingTypeOK, OwnerInv, [StagingNext]_stagingVars PROVE OwnerInv'
  OBVIOUS
<1> USE StagingAssumption DEF StagingTypeOK, OwnerInv, Resolving, Draining, Over, Content, Manifest,
        World, files, Move, Opened, Passed, Here, End, Stale, Undone
<1>1. ASSUME NEW c \in Call, Stage(c) \/ ResolveManifest(c) \/ ResolveAsset(c) \/ Resolved(c)
      PROVE  OwnerInv'
  <2>1. CASE Stage(c)
    BY <2>1 DEF Stage
  <2>2. CASE ResolveManifest(c)
    BY <2>2 DEF ResolveManifest
  <2>3. CASE ResolveAsset(c)
    BY <2>3 DEF ResolveAsset
  <2>4. CASE Resolved(c)
    BY <2>4 DEF Resolved
  <2> QED BY <1>1, <2>1, <2>2, <2>3, <2>4
<1>2. ASSUME NEW c \in Call, MakeDirectory(c) \/ CopyManifest(c) PROVE OwnerInv'
  <2>1. CASE MakeDirectory(c)
    BY <2>1 DEF MakeDirectory
  <2>2. CASE CopyManifest(c)
    BY <2>2 DEF CopyManifest, CopyFails
  <2> QED BY <1>2, <2>1, <2>2
<1>3. ASSUME NEW c \in Call, CopyAsset(c) \/ CopyEnds(c) PROVE OwnerInv'
  BY <1>3 DEF CopyAsset, CopyEnds, CopyFails
<1>4. ASSUME NEW c \in Call, VerifyManifest(c) \/ VerifyAsset(c) PROVE OwnerInv'
  BY <1>4 DEF VerifyManifest, VerifyAsset
<1>5. ASSUME NEW c \in Call, WriteReceipt(c) \/ Undo(c) PROVE OwnerInv'
  BY <1>5 DEF WriteReceipt, Undo
<1>6. ASSUME NEW c \in Call, CancelStage(c) PROVE OwnerInv'
  BY <1>6 DEF CancelStage
<1>7. ASSUME EditSource \/ EditCopy \/ ServerDies PROVE OwnerInv'
  BY <1>7 DEF EditSource, EditCopy, ServerDies, calls
<1>8. ASSUME UNCHANGED stagingVars PROVE OwnerInv'
  BY <1>8 DEF stagingVars, calls
<1> QED BY <1>1, <1>2, <1>3, <1>4, <1>5, <1>6, <1>7, <1>8, StagingCases, Zenon

-----------------------------------------------------------------------------
LEMMA FilesStep ==
    StagingTypeOK /\ OwnerInv /\ FilesInv /\ VerdictIsRecorded /\ [StagingNext]_stagingVars
        => FilesInv' /\ VerdictIsRecorded'
<1> DEFINE F == FilesInv' /\ VerdictIsRecorded'
<1> SUFFICES ASSUME StagingTypeOK, OwnerInv, FilesInv, VerdictIsRecorded, [StagingNext]_stagingVars
             PROVE  F
  OBVIOUS
<1> USE StagingAssumption DEF StagingTypeOK, OwnerInv, FilesInv, VerdictIsRecorded,
        Resolving, Draining, Over,
        World, files, Move, Opened, Passed, Here, End, Stale, Undone
<1>1. ASSUME NEW c \in Call, Stage(c) \/ ResolveManifest(c) \/ ResolveAsset(c) \/ Resolved(c)
      PROVE  F
  BY <1>1 DEF Stage, ResolveManifest, ResolveAsset, Resolved
<1>2. ASSUME NEW c \in Call, MakeDirectory(c) \/ CopyManifest(c) PROVE F
  BY <1>2 DEF MakeDirectory, CopyManifest, CopyFails
<1>3. ASSUME NEW c \in Call, CopyAsset(c) \/ CopyEnds(c) PROVE F
  BY <1>3 DEF CopyAsset, CopyEnds, CopyFails
<1>4. ASSUME NEW c \in Call, VerifyManifest(c) \/ VerifyAsset(c) PROVE F
  BY <1>4 DEF VerifyManifest, VerifyAsset
<1>5. ASSUME NEW c \in Call, WriteReceipt(c) \/ Undo(c) PROVE F
  BY <1>5 DEF WriteReceipt, Undo
<1>6. ASSUME NEW c \in Call, CancelStage(c) PROVE F
  BY <1>6 DEF CancelStage
<1>7. ASSUME EditSource \/ EditCopy \/ ServerDies PROVE F
  BY <1>7 DEF EditSource, EditCopy, ServerDies, calls
<1>8. ASSUME UNCHANGED stagingVars PROVE F
  BY <1>8 DEF stagingVars, calls
<1> QED BY <1>1, <1>2, <1>3, <1>4, <1>5, <1>6, <1>7, <1>8, StagingCases, Zenon

-----------------------------------------------------------------------------
\* The conjunction is inductive: every other theorem follows from it.
THEOREM StagingInvariance == StagingSpec => []StagingIInv
<1>1. StagingInit => StagingIInv
  <2> SUFFICES ASSUME StagingInit PROVE StagingIInv
    OBVIOUS
  <2> USE DEF StagingInit
  <2>1. StagingTypeOK
    BY StagingAssumption DEF StagingTypeOK, Content, Manifest
  <2>2. ReceiptVouches /\ VerifyInv
    BY DEF ReceiptVouches, VerifyInv
  <2>3. OwnerInv
    BY DEF OwnerInv
  <2>4. FilesInv /\ VerdictIsRecorded
    BY DEF FilesInv, VerdictIsRecorded
  <2> QED BY <2>1, <2>2, <2>3, <2>4 DEF StagingIInv
<1>2. StagingIInv /\ [StagingNext]_stagingVars => StagingIInv'
  BY StagingTypeStep, VouchStep, OwnerStep, FilesStep DEF StagingIInv
<1> QED BY <1>1, <1>2, PTL DEF StagingSpec

\* The staging of a source (stage, _copy, _receipt, _failure) stays within its types.
THEOREM StagingTypes == StagingSpec => []StagingTypeOK
<1>1. StagingIInv => StagingTypeOK
  BY DEF StagingIInv
<1> QED BY <1>1, StagingInvariance, PTL

\* A receipt vouches for the captured content whoever rewrites source or copy
\* while it is made (_receipt verifies every asset before it is written).
THEOREM ReceiptIsTrue == StagingSpec => []ReceiptVouches
<1>1. StagingIInv => ReceiptVouches
  BY DEF StagingIInv
<1> QED BY <1>1, StagingInvariance, PTL

\* A snapshot that was returned has a receipt and no diagnostic, one that was
\* given up the diagnostic and no receipt (the except clauses of stage).
THEOREM VerdictRecorded == StagingSpec => []VerdictIsRecorded
<1>1. StagingIInv => VerdictIsRecorded
  BY DEF StagingIInv
<1> QED BY <1>1, StagingInvariance, PTL
=============================================================================
