------------------------------ MODULE MCEvidence ------------------------------
(* The parts that vouch for a native revision and its print share no state:   *)
(* a behaviour exercises one of them while the others stay as they began.      *)
EXTENDS NativeStaging, Toolpath, ScriptAuthority

CONSTANTS X, Z, v1, v2, t1, t2

VARIABLE part

EvidenceTypeOK == StagingTypeOK /\ ToolpathTypeOK /\ AuthorityTypeOK

Init ==
    /\ StagingInit /\ ToolpathInit /\ AuthorityInit
    /\ part \in {"staging", "toolpath", "authority"}
    /\ part # "staging" => \A a \in Asset : source[a] = v1
    /\ part # "toolpath" => \A a \in Axis : place[a] = 0
    /\ part # "authority" => started = {t1}

StagingStep ==
    /\ part = "staging" /\ StagingNext
    /\ UNCHANGED <<toolpathVars, authorityVars, part>>

ToolpathStep ==
    /\ part = "toolpath" /\ ToolpathNext
    /\ UNCHANGED <<stagingVars, authorityVars, part>>

AuthorityStep ==
    /\ part = "authority" /\ AuthorityNext
    /\ UNCHANGED <<stagingVars, toolpathVars, part>>

Next == StagingStep \/ ToolpathStep \/ AuthorityStep

EvidenceSpec == Init /\ [][Next]_<<stagingVars, toolpathVars, authorityVars, part>>
=============================================================================
