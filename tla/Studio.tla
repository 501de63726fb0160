-------------------------------- MODULE Studio --------------------------------
(***************************************************************************)
(* The web studio: a conversation, its refinement, snapshots, undo and the *)
(* export gate work on one scene, in any interleaving.                     *)
(***************************************************************************)
EXTENDS ChatSession, SceneSnapshots, StudioPanel

vars == <<sceneVars, gestures, chatVars, snapVars, panelVars>>

Init == SceneInit /\ ChatInit /\ SnapInit /\ PanelInit

ChatAct == ChatNext /\ UNCHANGED <<snapVars, panelVars>>
SnapAct == SnapNext /\ UNCHANGED <<chatVars, panelVars>>
PanelAct == PanelNext /\ UNCHANGED <<chatVars, snapVars>>

Next == ChatAct \/ SnapAct \/ PanelAct

Spec == Init /\ [][Next]_vars

\* The event loops of the server and of the tab keep running, and the language
\* model answers or fails within its client's timeout.
FairSpec ==
    /\ Spec
    /\ WF_vars(HandlerStep /\ UNCHANGED <<snapVars, panelVars>>)
    /\ WF_vars(Receive /\ UNCHANGED <<snapVars, panelVars>>)

TypeOK == ChatTypeOK /\ SnapTypeOK /\ PanelTypeOK
=============================================================================
