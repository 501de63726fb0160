----------------------------- MODULE StudioProofs -----------------------------
(***************************************************************************)
(* Proofs about the web studio for every number of gestures, faults,       *)
(* refinement rounds, snapshots, options and inspections, and every length *)
(* of the history.                                                         *)
(***************************************************************************)
EXTENDS Studio, SequenceTheorems, TLAPS

Changes == SUBSET (0..scene)

SceneInv ==
    /\ scene \in Nat /\ shape \in 0..scene /\ tick \in Nat /\ told \in Changes
    /\ gestures \in 0..MaxGestures

Handlers == [at : {"idle"} \union Serving, mine : Seq(Message), out : BOOLEAN, changes : Changes]
Refiners == [at : {"idle"} \union Refining, mine : Seq(Message), left : Nat, rounds : Nat]
Answers  == [done : BOOLEAN, out : BOOLEAN, changes : Changes]

ChatShape ==
    /\ row \in Seq(Message)
    /\ handler \in Handlers /\ refiner \in Refiners /\ answer \in Answers \union {None}
    /\ known \in BOOLEAN /\ linked \in BOOLEAN /\ connected \in BOOLEAN
    /\ loading \in BOOLEAN /\ severed \in BOOLEAN
    /\ turns \in 0..gestures /\ sent \in {0, turns} /\ faults \in 0..MaxFaults
    /\ overtaken \subseteq {"turn", "refinement"}
    /\ acked \subseteq Message /\ lost \subseteq Message

\* One turn is under way at a time: on its way, in its handler, or answered.  The
\* rounds of all refinements are bounded by the gestures that asked for them.
OneTurn ==
    /\ ~loading => sent = 0 /\ answer = None /\ handler.at = "idle"
    /\ sent # 0 => answer = None /\ handler.at = "idle"
    /\ answer # None => handler.at = "idle"
    /\ loading => turns # 0
    /\ refiner.at = "look" => refiner.left # 0
    /\ refiner.rounds + refiner.left <= MaxRounds * gestures

Turn == {<<"user", turns>>, <<"assistant", turns>>}

\* Which messages are where: the handler's session has those of its turn ...
TurnHeld ==
    /\ handler.at \in {"loaded", "model"} => <<"user", turns>> \in Entries(handler.mine)
    /\ handler.at \in {"dispatch", "store"} => Turn \subseteq Entries(handler.mine)

\* ... the row has them before the turn is answered as done ...
TurnSaved ==
    /\ handler.at = "answer" => Turn \subseteq Entries(row) \union lost
    /\ answer # None /\ answer.done => Turn \subseteq Entries(row) \union lost

\* ... and a session that was not overtaken has all that is in the row.
Fresh ==
    /\ handler.at \in {"loaded", "model", "dispatch", "store"} /\ "turn" \notin overtaken =>
           Entries(row) \subseteq Entries(handler.mine)
    /\ refiner.at # "idle" /\ "refinement" \notin overtaken =>
           Entries(row) \subseteq Entries(refiner.mine)

SessionInv == TurnHeld /\ TurnSaved /\ Fresh /\ TurnsAreKept

Intact(s) ==
    /\ files[path[s]] # None
    /\ files[path[s]] = meant[s] \/
          \E other \in Snap \ {s} : saving[other] \in {"written", "over"} /\ path[other] = path[s]

\* A file is intact from the moment it is written, before it has a row.
SnapInv ==
    /\ SnapTypeOK
    /\ \A s \in Snap : s \in rows \/ restoring = s => saving[s] = "over"
    /\ \A s \in Snap : saving[s] = "written" \/ s \in rows \/ restoring = s => Intact(s)

PanelShape ==
    /\ PanelTypeOK
    /\ undos \subseteq [at : {"asked", "done", "refused"}, op : 1..begun, changes : Changes]

\* No two operations in flight share a record, and the record is true.
HistoryInv ==
    /\ \A i, j \in Inspection :
          inspections[i].at # "idle" /\ inspections[j].at # "idle" /\ inspections[i].op = inspections[j].op
          => i = j
    /\ \A i \in Inspection :
          inspections[i].at # "idle" => \A u \in undos : inspections[i].op # u.op
    /\ \A u, v \in undos : u.op = v.op => u = v
    /\ HistoryIsTrue

\* What is measured under the revision of now covers every change announced.
MeasuredInv ==
    /\ \A i \in Inspection : inspections[i].at # "idle" => inspections[i].revision <= tick
    /\ \A i \in Inspection :
          inspections[i].at = "measured" /\ inspections[i].revision = tick
          => \A change \in told : change <= inspections[i].measured
    /\ report # None =>
          /\ report.revision <= tick
          /\ report.revision = tick => \A change \in told : change <= report.measured

IInv ==
    /\ SceneInv /\ ChatShape /\ OneTurn /\ SessionInv
    /\ SnapInv /\ PanelShape /\ HistoryInv /\ MeasuredInv

-----------------------------------------------------------------------------
(* Sessions *)

LEMMA EntriesAppend ==
    ASSUME NEW S, NEW s \in Seq(S), NEW m
    PROVE  Entries(Append(s, m)) = Entries(s) \union {m}
<1>1. DOMAIN Append(s, m) = 1..Len(s) + 1 /\ DOMAIN s = 1..Len(s) /\ Len(s) \in Nat
  OBVIOUS
<1>2. \A i \in 1..Len(s) : Append(s, m)[i] = s[i]
  OBVIOUS
<1>3. Append(s, m)[Len(s) + 1] = m
  OBVIOUS
<1>4. ASSUME NEW x PROVE x \in Entries(Append(s, m)) <=> x \in Entries(s) \union {m}
  <2>1. x \in Entries(Append(s, m)) <=> \E i \in 1..Len(s) + 1 : Append(s, m)[i] = x
    BY <1>1 DEF Entries
  <2>2. x \in Entries(s) <=> \E i \in 1..Len(s) : s[i] = x
    BY <1>1 DEF Entries
  <2>3. 1..Len(s) + 1 = 1..Len(s) \union {Len(s) + 1}
    BY <1>1
  <2> QED BY <1>2, <1>3, <2>1, <2>2, <2>3
<1> QED BY <1>4

\* A save removes nothing that the ghost `lost` does not account for.
LEMMA SaveKeeps ==
    ASSUME NEW writer, NEW session, Save(writer, session),
           writer \notin overtaken => Entries(row) \subseteq Entries(session)
    PROVE  Entries(row) \union lost \subseteq Entries(row') \union lost'
<1>1. row' = session /\ lost' = IF writer \in overtaken THEN lost \union (Entries(row) \ Entries(session)) ELSE lost
  BY DEF Save
<1>2. Entries(row') = Entries(session)
  BY <1>1
<1> HIDE DEF Entries
<1> QED BY <1>1, <1>2

-----------------------------------------------------------------------------
(* The scene and its revision *)

\* What a step does to what the parts share.
Later ==
    /\ scene' \in Nat /\ scene <= scene' /\ gestures' \in Nat /\ gestures <= gestures'
    /\ UNCHANGED <<tick, told>> \/ (tick' = tick + 1 /\ told \subseteq told')

LEMMA SceneStep == SceneInv /\ ChatShape /\ SnapInv /\ PanelShape /\ [Next]_vars => SceneInv' /\ Later
<1> SUFFICES ASSUME SceneInv, ChatShape, SnapInv, PanelShape, [Next]_vars PROVE SceneInv' /\ Later
  OBVIOUS
<1>a. scene \in Nat /\ shape \in 0..scene /\ tick \in Nat /\ told \subseteq 0..scene
      /\ gestures \in 0..MaxGestures /\ MaxGestures \in Nat
  BY SceneAssumption DEF SceneInv, Changes
<1>g. ASSUME UNCHANGED gestures \/ Gesture, UNCHANGED sceneVars PROVE SceneInv' /\ Later
  BY <1>a, <1>g DEF Gesture, sceneVars, SceneInv, Changes, Later
<1>c. ASSUME UNCHANGED gestures, UNCHANGED <<tick, told>>, Change PROVE SceneInv' /\ Later
  BY <1>a, <1>c DEF Change, SceneInv, Changes, Later
<1>n. ASSUME UNCHANGED <<gestures, scene, shape>>, NEW changes \in Changes, Announce(changes)
      PROVE SceneInv' /\ Later
  BY <1>a, <1>n DEF Announce, SceneInv, Changes, Later
<1>u. ASSUME UNCHANGED <<gestures, scene, shape, tick, told>> PROVE SceneInv' /\ Later
  BY <1>g, <1>u DEF sceneVars
<1>1. CASE ChatNext
  <2>1. CASE Send \/ Drop \/ OnClose \/ Reconnect
    BY <2>1, <1>g DEF Send, Drop, OnClose, Reconnect
  <2>2. CASE Receive
    <3>1. answer.changes \in Changes /\ UNCHANGED <<gestures, scene, shape>>
      BY <2>2 DEF Receive, Answers, ChatShape
    <3> QED BY <2>2, <3>1, <1>n, <1>u DEF Receive
  <2>3. CASE Load \/ SaveUser \/ Answer
    BY <2>3, <1>g DEF Load, SaveUser, Answer, Quiet
  <2>4. CASE Reply \/ SaveReply
    BY <2>4, <1>g DEF Reply, SaveReply, Calm
  <2>5. CASE Dispatch
    BY <2>5, <1>c, <1>u DEF Dispatch, Calm
  <2>6. CASE Refine
    BY <2>6, <1>g DEF Refine, Beside, sceneVars
  <2>7. CASE Round
    BY <2>7, <1>c, <1>u DEF Round, Beside
  <2>8. CASE Finish
    BY <2>8, <1>u DEF Finish, Beside
  <2> QED BY <1>1, <2>1, <2>2, <2>3, <2>4, <2>5, <2>6, <2>7, <2>8 DEF ChatNext, HandlerStep, RefineStep
<1>2. CASE SnapNext
  <2>1. CASE Restore
    <3>1. restoring \in Snap /\ path[restoring] \in Second /\ files \in [Second -> 0..scene \union {None}]
      BY <2>1 DEF Restore, SnapInv, SnapTypeOK
    <3>2. files[path[restoring]] # None
      BY <2>1, <3>1 DEF SnapInv, Intact
    <3>3. shape' \in 0..scene
      BY <2>1, <3>1, <3>2 DEF Restore
    <3> QED BY <1>a, <2>1, <3>3 DEF Restore, SceneInv, Changes, Later
  <2>2. ASSUME NEW s \in Snap, CreateSnapshot(s) \/ SnapStep(s) \/ AskRestore(s) \/ DeleteRow(s)
        PROVE  SceneInv' /\ Later
    BY <2>2, <1>g DEF CreateSnapshot, SnapStep, SaveFile, SaveFails, StoreRow, AskRestore, DeleteRow
  <2> QED BY <1>2, <2>1, <2>2 DEF SnapNext
<1>3. CASE PanelNext
  <2>1. CASE ClearHistory \/ SetOptions \/ AskUndo
    BY <2>1, <1>g DEF ClearHistory, SetOptions, AskUndo
  <2>2. ASSUME NEW u \in undos, Undone(u) PROVE SceneInv' /\ Later
    BY <2>2, <1>c, <1>u DEF Undone
  <2>3. ASSUME NEW u \in undos, UndoAnswered(u) PROVE SceneInv' /\ Later
    <3>1. u.changes \in Changes
      BY DEF PanelShape
    <3> QED BY <2>3, <3>1, <1>n, <1>u DEF UndoAnswered
  <2>4. ASSUME NEW i \in Inspection, Inspect(i) \/ Measure(i) \/ Deliver(i) \/ InspectionFails(i)
        PROVE  SceneInv' /\ Later
    BY <2>4, <1>g DEF Inspect, Measure, Deliver, InspectionFails
  <2> QED BY <1>3, <2>1, <2>2, <2>3, <2>4 DEF PanelNext
<1>4. CASE UNCHANGED vars
  BY <1>4, <1>g DEF vars
<1> QED BY <1>1, <1>2, <1>3, <1>4 DEF Next, ChatAct, SnapAct, PanelAct

-----------------------------------------------------------------------------
(* The conversation *)

LEMMA Messages ==
    /\ \A t \in 1..MaxGestures : <<"user", t>> \in Message /\ <<"assistant", t>> \in Message
    /\ \A n \in 1..MaxRounds * MaxGestures : <<"round", n>> \in Message
<1>1. MaxGestures \in Nat /\ MaxRounds \in Nat /\ MaxRounds # 0
  BY SceneAssumption, ChatAssumption
<1>2. MaxGestures * MaxRounds = MaxRounds * MaxGestures /\ MaxGestures <= MaxGestures * MaxRounds
  BY <1>1
<1>3. 1..MaxGestures \subseteq 1..MaxGestures * MaxRounds
  BY <1>1, <1>2
<1> QED BY <1>2, <1>3 DEF Message

\* More gestures allow more rounds.
LEMMA RoundBound ==
    ASSUME NEW g \in Nat, NEW h \in Nat, g <= h
    PROVE  MaxRounds * g <= MaxRounds * h /\ MaxRounds * g \in Nat /\ MaxRounds * h \in Nat
           /\ (g < h => MaxRounds * g + MaxRounds <= MaxRounds * h)
<1>1. MaxRounds \in Nat
  BY ChatAssumption
<1>2. PICK d \in Nat : h = g + d
  BY h - g \in Nat
<1>3. MaxRounds * h = MaxRounds * g + MaxRounds * d /\ MaxRounds * d \in Nat /\ MaxRounds * g \in Nat
  BY <1>1, <1>2
<1>4. d # 0 => MaxRounds <= MaxRounds * d
  BY <1>1
<1> QED BY <1>1, <1>2, <1>3, <1>4

\* Each step, as far as the conversation is concerned.
ChatStep == ChatNext \/ UNCHANGED chatVars

LEMMA ChatCases ==
    ASSUME ChatStep, NEW P,
           Send => P, Drop => P, OnClose \/ Reconnect => P, Receive => P,
           Load => P, SaveUser => P, Reply => P, Dispatch => P, SaveReply => P, Answer => P,
           Refine => P, Round => P, Finish => P, UNCHANGED chatVars => P
    PROVE  P
BY Zenon DEF ChatStep, ChatNext, HandlerStep, RefineStep

LEMMA ShapeStep ==
    SceneInv /\ SceneInv' /\ Later /\ ChatShape /\ OneTurn /\ ChatStep => ChatShape'
<1> SUFFICES ASSUME SceneInv, SceneInv', Later, ChatShape, OneTurn, ChatStep PROVE ChatShape'
  OBVIOUS
<1>c. Changes \subseteq Changes'
  BY DEF SceneInv, Later, Changes
<1>e. <<>> \in Seq(Message)
  OBVIOUS
<1>r. Resting \in Handlers'
  BY DEF Handlers, Resting, Changes
<1>a. /\ gestures \in 0..MaxGestures /\ gestures' \in 0..MaxGestures /\ gestures <= gestures'
      /\ Handlers \subseteq Handlers' /\ Answers \subseteq Answers'
      /\ MaxGestures \in Nat /\ MaxFaults \in Nat
  BY <1>c, SceneAssumption, ChatAssumption DEF SceneInv, Later, Handlers, Answers
<1>u. ASSUME NEW t \in 1..MaxGestures PROVE <<"user", t>> \in Message /\ <<"assistant", t>> \in Message
  BY Messages
<1>s. ASSUME UNCHANGED <<row, handler, refiner, answer, known, linked, connected, loading, severed>>,
             UNCHANGED <<turns, sent, faults, overtaken, acked, lost>>
      PROVE  ChatShape'
  BY <1>a, <1>s DEF ChatShape
<1>f. StoreFails => faults' \in 0..MaxFaults
  BY <1>a DEF StoreFails, ChatShape
<1>d. ASSUME DieOfStore, Quiet PROVE ChatShape'
  BY <1>a, <1>d, <1>f, <1>r DEF DieOfStore, Quiet, Sever, rowVars, ChatShape
<1>v. ASSUME NEW writer \in {"turn", "refinement"}, NEW session \in Seq(Message), Save(writer, session)
      PROVE  row' \in Seq(Message) /\ overtaken' \subseteq {"turn", "refinement"} /\ lost' \subseteq Message
  <2>1. row \in Seq(Message) /\ lost \subseteq Message /\ overtaken \subseteq {"turn", "refinement"}
    BY DEF ChatShape
  <2>2. Entries(row) \subseteq Message
    BY <2>1 DEF Entries
  <2> QED BY <1>v, <2>1, <2>2 DEF Save
<1>1. ASSUME Send PROVE ChatShape'
  BY <1>1, <1>a DEF Send, Gesture, rowVars, ChatShape
<1>2. ASSUME Drop PROVE ChatShape'
  <2>1. /\ UNCHANGED <<row, handler, refiner, known, connected, loading, turns, faults>>
        /\ UNCHANGED <<overtaken, acked, lost>>
        /\ linked' \in BOOLEAN /\ sent' = 0 /\ answer' = None /\ severed' \in BOOLEAN
    BY <1>2 DEF Drop, Sever, rowVars
  <2> QED BY <1>a, <2>1 DEF ChatShape
<1>3. ASSUME OnClose \/ Reconnect PROVE ChatShape'
  BY <1>3, <1>a DEF OnClose, Reconnect, rowVars, ChatShape
<1>4. ASSUME Receive PROVE ChatShape'
  <2>1. turns # 0
    BY <1>4 DEF Receive, OneTurn, ChatShape
  <2>2. <<"user", turns>> \in Message /\ <<"assistant", turns>> \in Message
    BY <1>a, <1>u, <2>1 DEF ChatShape
  <2> QED BY <1>4, <1>a, <2>2 DEF Receive, rowVars, ChatShape
<1>5. ASSUME Load PROVE ChatShape'
  <2>1. CASE /\ handler' = [at |-> "loaded", mine |-> Append(row, <<"user", sent>>),
                            out |-> FALSE, changes |-> {}]
             /\ sent' = 0 /\ overtaken' = overtaken \ {"turn"}
             /\ UNCHANGED <<answer, linked, severed, faults, row, lost>>
    <3>1. sent \in 1..MaxGestures
      BY <1>5, <1>a DEF Load, ChatShape
    <3>2. Append(row, <<"user", sent>>) \in Seq(Message)
      <4>1. <<"user", sent>> \in Message
        BY <1>u, <3>1
      <4> QED BY <4>1 DEF ChatShape
    <3>3. handler' \in Handlers'
      BY <2>1, <3>2 DEF Handlers, Serving, Changes
    <3> QED BY <1>5, <1>a, <2>1, <3>3 DEF Load, Quiet, ChatShape
  <2>2. CASE DieOfStore
    BY <1>5, <1>d, <2>2 DEF Load
  <2> QED BY <1>5, <2>1, <2>2 DEF Load
<1>6. ASSUME SaveUser PROVE ChatShape'
  <2>1. CASE Save("turn", handler.mine) /\ To("model") /\ UNCHANGED <<sent, answer, linked, severed, faults>>
    <3>1. row' \in Seq(Message) /\ overtaken' \subseteq {"turn", "refinement"} /\ lost' \subseteq Message
      BY <1>v, <2>1 DEF Handlers, ChatShape
    <3>2. handler' \in Handlers'
      BY <1>c, <2>1 DEF To, Handlers, Serving, ChatShape
    <3> QED BY <1>6, <1>a, <2>1, <3>1, <3>2 DEF SaveUser, Quiet, ChatShape
  <2>2. CASE DieOfStore
    BY <1>6, <1>d, <2>2 DEF SaveUser
  <2> QED BY <1>6, <2>1, <2>2 DEF SaveUser
<1>7. ASSUME Reply PROVE ChatShape'
  <2>1. turns \in 1..MaxGestures /\ handler.mine \in Seq(Message)
    BY <1>7, <1>a DEF Reply, OneTurn, Handlers, ChatShape
  <2>2. Append(handler.mine, <<"assistant", turns>>) \in Seq(Message)
    <3>1. <<"assistant", turns>> \in Message
      BY <1>u, <2>1
    <3> QED BY <2>1, <3>1
  <2>3. handler' \in Handlers'
    BY <1>7, <1>c, <2>2 DEF Reply, To, Handlers, Serving, ChatShape
  <2> QED BY <1>7, <1>a, <2>3 DEF Reply, Calm, rowVars, tabVars, ChatShape
<1>8. ASSUME Dispatch PROVE ChatShape'
  <2>1. PICK changes \in {{}, {scene + 1}}, answers \in BOOLEAN :
          /\ IF changes = {} THEN UNCHANGED <<scene, shape>> ELSE Change
          /\ handler' = [handler EXCEPT !.at = IF answers THEN "store" ELSE "error",
                                       !.out = answers, !.changes = changes]
    BY <1>8 DEF Dispatch
  <2>2. changes \in Changes'
    BY <2>1 DEF Change, Changes, SceneInv
  <2>3. handler' \in Handlers'
    BY <2>1, <2>2 DEF Handlers, Serving, ChatShape
  <2> QED BY <1>8, <1>a, <2>3 DEF Dispatch, Calm, rowVars, tabVars, ChatShape
<1>9. ASSUME SaveReply PROVE ChatShape'
  <2>1. PICK place \in {"answer", "error"} : To(place)
    BY <1>9 DEF SaveReply
  <2>2. handler' \in Handlers'
    BY <1>c, <2>1 DEF To, Handlers, Serving, ChatShape
  <2>3. faults' \in 0..MaxFaults
    BY <1>9, <1>f DEF SaveReply, ChatShape
  <2>4. row' \in Seq(Message) /\ overtaken' \subseteq {"turn", "refinement"} /\ lost' \subseteq Message
    BY <1>9, <1>v DEF SaveReply, rowVars, Handlers, ChatShape
  <2> QED BY <1>9, <1>a, <2>2, <2>3, <2>4 DEF SaveReply, Calm, tabVars, ChatShape
<1>10. ASSUME Answer PROVE ChatShape'
  <2>1. answer' \in Answers' \union {None}
    BY <1>10, <1>c DEF Answer, Answers, Handlers, ChatShape
  <2> QED BY <1>10, <1>a, <1>r, <2>1 DEF Answer, Quiet, ChatShape
<1>11. ASSUME Refine PROVE ChatShape'
  <2>1. refiner' \in Refiners
    BY <1>11, ChatAssumption DEF Refine, Refiners, Refining, ChatShape
  <2> QED BY <1>11, <1>a, <2>1 DEF Refine, Beside, tabVars, ChatShape
<1>12. ASSUME Round PROVE ChatShape'
  <2>1. <<"round", refiner.rounds + 1>> \in Message
    <3>1. MaxRounds * gestures <= MaxRounds * MaxGestures /\ MaxRounds * gestures \in Nat
          /\ MaxRounds * MaxGestures \in Nat
      BY <1>a, RoundBound
    <3>2. refiner.left # 0 /\ refiner.rounds \in Nat /\ refiner.left \in Nat
          /\ refiner.rounds + refiner.left <= MaxRounds * gestures
      BY <1>12 DEF Round, OneTurn, Refiners, ChatShape
    <3>3. refiner.rounds + 1 \in 1..MaxRounds * MaxGestures
      BY <3>1, <3>2
    <3> QED BY <3>3, Messages
  <2>2. refiner.left # 0 /\ refiner.mine \in Seq(Message)
    BY <1>12 DEF Round, OneTurn, Refiners, ChatShape
  <2>3. Append(refiner.mine, <<"round", refiner.rounds + 1>>) \in Seq(Message)
    BY <2>1, <2>2
  <2>4. refiner' \in Refiners
    <3>1. CASE refiner' = [refiner EXCEPT !.at = "finish"]
      BY <3>1 DEF Refiners, Refining, ChatShape
    <3>2. CASE refiner' = [refiner EXCEPT !.at = "idle", !.mine = <<>>, !.left = 0]
      BY <1>e, <3>2 DEF Refiners, ChatShape
    <3>3. CASE refiner' = [at |-> IF refiner.left = 1 THEN "finish" ELSE "look",
                           mine |-> Append(refiner.mine, <<"round", refiner.rounds + 1>>),
                           left |-> refiner.left - 1, rounds |-> refiner.rounds + 1]
      BY <2>2, <2>3, <3>3 DEF Refiners, Refining, ChatShape
    <3> QED BY <1>12, <3>1, <3>2, <3>3 DEF Round
  <2> QED BY <1>12, <1>a, <2>4 DEF Round, Beside, tabVars, rowVars, ChatShape
<1>13. ASSUME Finish PROVE ChatShape'
  <2>1. refiner' \in Refiners
    BY <1>13, <1>e DEF Finish, Refiners, Refining, ChatShape
  <2>2. row' \in Seq(Message) /\ overtaken' \subseteq {"turn", "refinement"} /\ lost' \subseteq Message
    BY <1>13, <1>v DEF Finish, rowVars, Refiners, ChatShape
  <2>3. acked' \subseteq Message
    BY <1>13 DEF Finish, ChatShape, Refiners, Entries
  <2>4. faults' \in 0..MaxFaults
    BY <1>13, <1>f DEF Finish, ChatShape
  <2> QED BY <1>13, <1>a, <2>1, <2>2, <2>3, <2>4 DEF Finish, Beside, tabVars, ChatShape
<1>14. ASSUME UNCHANGED chatVars PROVE ChatShape'
  BY <1>14, <1>s DEF chatVars, tabVars, rowVars
<1> QED BY <1>1, <1>2, <1>3, <1>4, <1>5, <1>6, <1>7, <1>8, <1>9, <1>10, <1>11, <1>12, <1>13, <1>14,
           ChatCases, Zenon

LEMMA TurnStep ==
    SceneInv /\ Later /\ ChatShape /\ OneTurn /\ ChatStep => OneTurn'
<1> SUFFICES ASSUME SceneInv, Later, ChatShape, OneTurn, ChatStep PROVE OneTurn'
  OBVIOUS
<1>a. /\ gestures \in Nat /\ gestures' \in Nat /\ gestures <= gestures'
      /\ MaxRounds * gestures <= MaxRounds * gestures'
      /\ MaxRounds * gestures \in Nat /\ MaxRounds * gestures' \in Nat
      /\ gestures' = gestures + 1 => MaxRounds * gestures + MaxRounds <= MaxRounds * gestures'
      /\ MaxRounds \in Nat \ {0}
  <2>1. gestures \in Nat /\ gestures' \in Nat /\ gestures <= gestures' /\ MaxRounds \in Nat \ {0}
    BY SceneAssumption, ChatAssumption DEF SceneInv, Later
  <2>2. /\ MaxRounds * gestures <= MaxRounds * gestures'
        /\ MaxRounds * gestures \in Nat /\ MaxRounds * gestures' \in Nat
        /\ gestures < gestures' => MaxRounds * gestures + MaxRounds <= MaxRounds * gestures'
    BY <2>1, RoundBound
  <2>3. gestures' = gestures + 1 => gestures < gestures'
    BY <2>1
  <2> QED BY <2>1, <2>2, <2>3
<1>b. refiner.left \in Nat /\ refiner.rounds \in Nat /\ turns \in Nat /\ sent \in {0, turns}
  BY <1>a DEF ChatShape, Refiners
<1>s. ASSUME refiner' = refiner
      PROVE  (refiner.at = "look" => refiner.left # 0)' /\ (refiner.rounds + refiner.left <= MaxRounds * gestures)'
  BY <1>a, <1>b, <1>s DEF OneTurn
<1>t. ASSUME UNCHANGED <<loading, sent, answer, turns>>, handler'.at = "idle" <=> handler.at = "idle"
      PROVE  /\ (~loading => sent = 0 /\ answer = None /\ handler.at = "idle")'
             /\ (sent # 0 => answer = None /\ handler.at = "idle")'
             /\ (answer # None => handler.at = "idle")' /\ (loading => turns # 0)'
  BY <1>t DEF OneTurn
<1>d. ASSUME DieOfStore, Quiet PROVE OneTurn'
  <2>1. handler'.at = "idle" /\ sent' = 0 /\ answer' = None /\ UNCHANGED <<loading, turns, refiner>>
    BY <1>d DEF DieOfStore, Quiet, Sever, Resting
  <2> QED BY <1>s, <2>1 DEF OneTurn
<1>p. ASSUME NEW place \in Serving, To(place), handler.at # "idle" PROVE handler'.at # "idle"
  BY <1>p DEF To, Serving, ChatShape, Handlers
<1>1. ASSUME Send PROVE OneTurn'
  <2>1. handler.at = "idle" /\ answer = None /\ sent = 0
    BY <1>1 DEF Send, OneTurn
  <2>2. loading' = TRUE /\ turns' # 0 /\ answer' = None /\ handler' = handler /\ refiner' = refiner
    BY <1>1, <1>b, <2>1 DEF Send
  <2> QED BY <1>s, <2>1, <2>2 DEF OneTurn
<1>2. ASSUME Drop PROVE OneTurn'
  BY <1>2, <1>s DEF Drop, Sever, OneTurn
<1>3. ASSUME OnClose \/ Reconnect PROVE OneTurn'
  BY <1>3, <1>s, <1>t DEF OnClose, Reconnect, OneTurn
<1>4. ASSUME Receive PROVE OneTurn'
  BY <1>4, <1>s DEF Receive, OneTurn
<1>5. ASSUME Load PROVE OneTurn'
  <2>1. CASE handler'.at = "loaded" /\ sent' = 0 /\ answer' = answer
    BY <1>5, <1>s, <2>1 DEF Load, Quiet, OneTurn
  <2>2. CASE DieOfStore
    BY <1>5, <1>d, <2>2 DEF Load
  <2> QED BY <1>5, <2>1, <2>2 DEF Load
<1>6. ASSUME SaveUser PROVE OneTurn'
  <2>1. CASE To("model") /\ UNCHANGED <<sent, answer>>
    <3>1. handler'.at # "idle" /\ handler.at # "idle"
      BY <1>6, <1>p, <2>1 DEF SaveUser, Serving
    <3> QED BY <1>6, <1>s, <1>t, <2>1, <3>1 DEF SaveUser, Quiet, OneTurn
  <2>2. CASE DieOfStore
    BY <1>6, <1>d, <2>2 DEF SaveUser
  <2> QED BY <1>6, <2>1, <2>2 DEF SaveUser
<1>7. ASSUME Reply PROVE OneTurn'
  <2>1. handler'.at # "idle" /\ handler.at # "idle"
    BY <1>7, <1>p DEF Reply, Serving, ChatShape, Handlers
  <2> QED BY <1>7, <1>s, <1>t, <2>1 DEF Reply, Calm, tabVars, OneTurn
<1>8. ASSUME Dispatch PROVE OneTurn'
  <2>1. handler'.at # "idle" /\ handler.at # "idle"
    BY <1>8 DEF Dispatch, ChatShape, Handlers
  <2> QED BY <1>8, <1>s, <1>t, <2>1 DEF Dispatch, Calm, tabVars, OneTurn
<1>9. ASSUME SaveReply PROVE OneTurn'
  <2>1. handler'.at # "idle" /\ handler.at # "idle"
    BY <1>9, <1>p DEF SaveReply, Serving
  <2> QED BY <1>9, <1>s, <1>t, <2>1 DEF SaveReply, Calm, tabVars, OneTurn
<1>10. ASSUME Answer PROVE OneTurn'
  <2>1. handler'.at = "idle" /\ loading /\ turns # 0 /\ sent = 0
    BY <1>10 DEF Answer, Resting, OneTurn
  <2> QED BY <1>10, <1>s, <2>1 DEF Answer, Quiet, OneTurn
<1>11. ASSUME Refine PROVE OneTurn'
  <2>1. refiner'.at = "look" /\ refiner'.left = MaxRounds /\ refiner'.rounds = refiner.rounds
    BY <1>11 DEF Refine, ChatShape, Refiners
  <2>2. gestures' = gestures + 1 /\ UNCHANGED <<loading, sent, answer, turns, handler>>
    BY <1>11 DEF Refine, Gesture, Beside, tabVars
  <2> QED BY <1>a, <1>b, <1>t, <2>1, <2>2 DEF OneTurn
<1>12. ASSUME Round PROVE OneTurn'
  <2>1. /\ refiner'.left \in Nat /\ refiner'.rounds \in Nat
        /\ refiner'.rounds + refiner'.left <= refiner.rounds + refiner.left
        /\ refiner'.at = "look" => refiner'.left # 0
    <3>1. refiner.left # 0
      BY <1>12 DEF Round, OneTurn
    <3>2. CASE refiner' = [refiner EXCEPT !.at = "finish"]
      BY <1>b, <3>2 DEF ChatShape, Refiners
    <3>3. CASE refiner' = [refiner EXCEPT !.at = "idle", !.mine = <<>>, !.left = 0]
      BY <1>b, <3>3 DEF ChatShape, Refiners
    <3>4. CASE refiner' = [at |-> IF refiner.left = 1 THEN "finish" ELSE "look",
                           mine |-> Append(refiner.mine, <<"round", refiner.rounds + 1>>),
                           left |-> refiner.left - 1, rounds |-> refiner.rounds + 1]
      BY <1>b, <3>1, <3>4
    <3> QED BY <1>12, <3>2, <3>3, <3>4 DEF Round
  <2>2. UNCHANGED <<loading, sent, answer, turns, handler, gestures>>
    BY <1>12 DEF Round, Beside, tabVars
  <2> QED BY <1>a, <1>b, <1>t, <2>1, <2>2 DEF OneTurn
<1>13. ASSUME Finish PROVE OneTurn'
  <2>1. refiner'.at = "idle" /\ refiner'.left = 0 /\ refiner'.rounds = refiner.rounds
    BY <1>13 DEF Finish, ChatShape, Refiners
  <2>2. UNCHANGED <<loading, sent, answer, turns, handler, gestures>>
    BY <1>13 DEF Finish, Beside, tabVars
  <2> QED BY <1>a, <1>b, <1>t, <2>1, <2>2 DEF OneTurn
<1>14. ASSUME UNCHANGED chatVars PROVE OneTurn'
  BY <1>14, <1>s, <1>t DEF chatVars, tabVars, OneTurn
<1> QED BY <1>1, <1>2, <1>3, <1>4, <1>5, <1>6, <1>7, <1>8, <1>9, <1>10, <1>11, <1>12, <1>13, <1>14,
           ChatCases, Zenon

LEMMA SessionStep ==
    ChatShape /\ OneTurn /\ SessionInv /\ ChatStep => SessionInv'
<1> SUFFICES ASSUME ChatShape, OneTurn, SessionInv, ChatStep PROVE SessionInv'
  OBVIOUS
<1> DEFINE In == Entries(row) \union lost
<1>a. TurnHeld /\ TurnSaved /\ Fresh /\ acked \subseteq In
  BY DEF SessionInv, TurnsAreKept
<1>m. handler.mine \in Seq(Message) /\ refiner.mine \in Seq(Message) /\ row \in Seq(Message)
  BY DEF ChatShape, Handlers, Refiners
<1> HIDE DEF Entries
<1>s. ASSUME UNCHANGED <<row, lost, overtaken, refiner>>, acked' = acked,
             \/ handler' = handler /\ turns' = turns
             \/ handler'.at = "idle"
             \/ handler'.at = "error",
             answer' = None \/ (answer' = answer /\ turns' = turns)
      PROVE  SessionInv'
  BY <1>s, <1>a DEF SessionInv, TurnHeld, TurnSaved, Fresh, TurnsAreKept, Turn
<1>v. ASSUME NEW session, Save("turn", session), handler.at \in {"loaded", "store"}, session = handler.mine
      PROVE  /\ In \subseteq In' /\ Entries(row') = Entries(handler.mine)
             /\ refiner.at # "idle" => "refinement" \in overtaken'
  <2>1. "turn" \notin overtaken => Entries(row) \subseteq Entries(session)
    BY <1>a, <1>v DEF Fresh
  <2>2. In \subseteq In'
    BY <1>v, <2>1, SaveKeeps
  <2> QED BY <1>v, <2>2 DEF Save
<1>d. ASSUME DieOfStore, Quiet PROVE SessionInv'
  BY <1>d, <1>s DEF DieOfStore, Quiet, Sever, Resting, rowVars
<1>1. ASSUME Send PROVE SessionInv'
  <2>1. handler'.at = "idle" /\ answer' = None /\ UNCHANGED <<row, lost, overtaken, refiner, acked>>
    BY <1>1 DEF Send, OneTurn, rowVars
  <2> QED BY <1>s, <2>1
<1>2. ASSUME Drop PROVE SessionInv'
  BY <1>2, <1>s DEF Drop, Sever, rowVars
<1>3. ASSUME OnClose \/ Reconnect PROVE SessionInv'
  BY <1>3, <1>s DEF OnClose, Reconnect, rowVars
<1>4. ASSUME Receive PROVE SessionInv'
  <2>1. acked' \subseteq In
    BY <1>4, <1>a DEF Receive, TurnSaved, Turn
  <2>2. answer' = None /\ UNCHANGED <<row, lost, overtaken, refiner, handler, turns>>
    BY <1>4 DEF Receive, rowVars
  <2> QED BY <1>a, <2>1, <2>2 DEF SessionInv, TurnHeld, TurnSaved, Fresh, TurnsAreKept, Turn
<1>5. ASSUME Load PROVE SessionInv'
  <2>1. CASE /\ handler' = [at |-> "loaded", mine |-> Append(row, <<"user", sent>>),
                            out |-> FALSE, changes |-> {}]
             /\ overtaken' = overtaken \ {"turn"}
             /\ UNCHANGED <<answer, row, lost>>
    <3>1. sent = turns /\ answer' = None /\ UNCHANGED <<turns, refiner, acked>>
      BY <1>5, <2>1 DEF Load, Quiet, OneTurn, ChatShape
    <3>2. Entries(handler'.mine) = Entries(row) \union {<<"user", turns>>}
      BY <1>m, <2>1, <3>1, EntriesAppend
    <3> QED BY <1>a, <2>1, <3>1, <3>2 DEF SessionInv, TurnHeld, TurnSaved, Fresh, TurnsAreKept
  <2>2. CASE DieOfStore
    BY <1>5, <1>d, <2>2 DEF Load
  <2> QED BY <1>5, <2>1, <2>2 DEF Load
<1>6. ASSUME SaveUser PROVE SessionInv'
  <2>1. CASE Save("turn", handler.mine) /\ To("model") /\ answer' = answer
    <3>1. In \subseteq In' /\ Entries(row') = Entries(handler.mine)
          /\ (refiner.at # "idle" => "refinement" \in overtaken')
      BY <1>6, <1>v, <2>1 DEF SaveUser
    <3>2. handler'.at = "model" /\ handler'.mine = handler.mine
      BY <2>1 DEF To, ChatShape, Handlers
    <3>3. answer' = None /\ UNCHANGED <<turns, refiner, acked>>
      BY <1>6, <2>1 DEF SaveUser, Quiet, OneTurn
    <3>4. <<"user", turns>> \in Entries(handler.mine)
      BY <1>a, <1>6 DEF SaveUser, TurnHeld
    <3> QED BY <1>a, <3>1, <3>2, <3>3, <3>4 DEF SessionInv, TurnHeld, TurnSaved, Fresh, TurnsAreKept
  <2>2. CASE DieOfStore
    BY <1>6, <1>d, <2>2 DEF SaveUser
  <2> QED BY <1>6, <2>1, <2>2 DEF SaveUser
<1>7. ASSUME Reply PROVE SessionInv'
  <2>1. UNCHANGED <<row, lost, overtaken, refiner, acked, answer, turns>>
    BY <1>7 DEF Reply, Calm, tabVars, rowVars
  <2>2. CASE To("error")
    <3>1. handler'.at = "error"
      BY <2>2 DEF To, ChatShape, Handlers
    <3> QED BY <1>s, <2>1, <3>1
  <2>3. ASSUME NEW place \in {"store", "dispatch"},
               handler' = [handler EXCEPT !.at = place, !.mine = Append(@, <<"assistant", turns>>)]
        PROVE  SessionInv'
    <3>1. handler'.at = place /\ handler'.mine = Append(handler.mine, <<"assistant", turns>>)
      BY <2>3 DEF ChatShape, Handlers
    <3>2. Entries(handler'.mine) = Entries(handler.mine) \union {<<"assistant", turns>>}
      BY <1>m, <3>1, EntriesAppend
    <3>3. /\ <<"user", turns>> \in Entries(handler.mine)
          /\ "turn" \notin overtaken => Entries(row) \subseteq Entries(handler.mine)
      BY <1>a, <1>7 DEF Reply, TurnHeld, Fresh
    <3> QED BY <1>a, <2>1, <3>1, <3>2, <3>3 DEF SessionInv, TurnHeld, TurnSaved, Fresh, TurnsAreKept, Turn
  <2> QED BY <1>7, <2>2, <2>3 DEF Reply
<1>8. ASSUME Dispatch PROVE SessionInv'
  <2>1. UNCHANGED <<row, lost, overtaken, refiner, acked, answer, turns>>
    BY <1>8 DEF Dispatch, Calm, tabVars, rowVars
  <2>2. handler'.at \in {"store", "error"} /\ handler'.mine = handler.mine
    BY <1>8 DEF Dispatch, ChatShape, Handlers
  <2>3. handler.at = "dispatch"
    BY <1>8 DEF Dispatch
  <2> QED BY <1>a, <2>1, <2>2, <2>3 DEF SessionInv, TurnHeld, TurnSaved, Fresh, TurnsAreKept, Turn
<1>9. ASSUME SaveReply PROVE SessionInv'
  <2>1. UNCHANGED <<refiner, acked, answer, turns>> /\ handler.at = "store" /\ answer = None
    BY <1>9 DEF SaveReply, Calm, tabVars, OneTurn
  <2>2. CASE Save("turn", handler.mine) /\ To("answer")
    <3>1. In \subseteq In' /\ Entries(row') = Entries(handler.mine)
          /\ (refiner.at # "idle" => "refinement" \in overtaken')
      BY <1>v, <2>1, <2>2
    <3>2. handler'.at = "answer"
      BY <2>2 DEF To, ChatShape, Handlers
    <3>3. Turn \subseteq Entries(handler.mine)
      BY <1>a, <2>1 DEF TurnHeld
    <3> QED BY <1>a, <2>1, <3>1, <3>2, <3>3 DEF SessionInv, TurnHeld, TurnSaved, Fresh, TurnsAreKept, Turn
  <2>3. CASE To("error") /\ UNCHANGED rowVars
    <3>1. handler'.at = "error"
      BY <2>3 DEF To, ChatShape, Handlers
    <3> QED BY <1>s, <2>1, <2>3, <3>1 DEF rowVars
  <2> QED BY <1>9, <2>2, <2>3 DEF SaveReply
<1>10. ASSUME Answer PROVE SessionInv'
  <2>1. /\ UNCHANGED <<row, lost, refiner, acked, turns>> /\ handler'.at = "idle"
        /\ overtaken' = overtaken \ {"turn"}
    BY <1>10 DEF Answer, Quiet, Resting
  <2>2. answer' # None /\ answer'.done => Turn \subseteq In
    BY <1>10, <1>a DEF Answer, TurnSaved
  <2> QED BY <1>a, <2>1, <2>2 DEF SessionInv, TurnHeld, TurnSaved, Fresh, TurnsAreKept, Turn
<1>11. ASSUME Refine PROVE SessionInv'
  <2>1. /\ UNCHANGED <<row, lost, handler, answer, turns, acked>>
        /\ overtaken' = overtaken \ {"refinement"}
    BY <1>11 DEF Refine, Beside, tabVars
  <2>2. refiner'.mine = row
    BY <1>11 DEF Refine, ChatShape, Refiners
  <2> QED BY <1>a, <2>1, <2>2 DEF SessionInv, TurnHeld, TurnSaved, Fresh, TurnsAreKept, Turn
<1>12. ASSUME Round PROVE SessionInv'
  <2>1. UNCHANGED <<row, lost, overtaken, handler, answer, turns, acked>> /\ refiner.at = "look"
    BY <1>12 DEF Round, Beside, tabVars, rowVars
  <2>2. refiner'.at = "idle" \/ Entries(refiner.mine) \subseteq Entries(refiner'.mine)
    <3>1. CASE refiner' = [refiner EXCEPT !.at = "finish"]
      BY <3>1 DEF ChatShape, Refiners
    <3>2. CASE refiner' = [refiner EXCEPT !.at = "idle", !.mine = <<>>, !.left = 0]
      BY <3>2 DEF ChatShape, Refiners
    <3>3. CASE refiner'.mine = Append(refiner.mine, <<"round", refiner.rounds + 1>>)
      <4>1. Entries(refiner'.mine) = Entries(refiner.mine) \union {<<"round", refiner.rounds + 1>>}
        BY <1>m, <3>3, EntriesAppend
      <4> QED BY <4>1
    <3> QED BY <1>12, <3>1, <3>2, <3>3 DEF Round
  <2> QED BY <1>a, <2>1, <2>2 DEF SessionInv, TurnHeld, TurnSaved, Fresh, TurnsAreKept, Turn
<1>13. ASSUME Finish PROVE SessionInv'
  <2>1. refiner'.at = "idle" /\ UNCHANGED <<handler, answer, turns>> /\ refiner.at = "finish"
    BY <1>13 DEF Finish, Beside, tabVars, ChatShape, Refiners
  <2>2. CASE /\ Save("refinement", refiner.mine)
             /\ acked' = acked \union {m \in Entries(refiner.mine) : m[1] = "round"}
    <3>1. "refinement" \notin overtaken => Entries(row) \subseteq Entries(refiner.mine)
      BY <1>a, <2>1 DEF Fresh
    <3>2. In \subseteq In'
      BY <2>2, <3>1, SaveKeeps
    <3>3. Entries(row') = Entries(refiner.mine) /\ (handler.at \in Serving => "turn" \in overtaken')
      BY <2>2 DEF Save
    <3>4. acked' \subseteq In'
      BY <1>a, <2>2, <3>2, <3>3
    <3> QED BY <1>a, <2>1, <3>2, <3>3, <3>4
            DEF SessionInv, TurnHeld, TurnSaved, Fresh, TurnsAreKept, Turn, Serving
  <2>3. CASE UNCHANGED <<rowVars, acked>>
    BY <1>a, <2>1, <2>3 DEF SessionInv, TurnHeld, TurnSaved, Fresh, TurnsAreKept, Turn, rowVars
  <2> QED BY <1>13, <2>2, <2>3 DEF Finish
<1>14. ASSUME UNCHANGED chatVars PROVE SessionInv'
  BY <1>14, <1>s DEF chatVars, tabVars, rowVars
<1> QED BY <1>1, <1>2, <1>3, <1>4, <1>5, <1>6, <1>7, <1>8, <1>9, <1>10, <1>11, <1>12, <1>13, <1>14,
           ChatCases, Zenon

-----------------------------------------------------------------------------
(* Snapshots *)

LEMMA SnapshotStep ==
    SceneInv /\ Later /\ SnapInv /\ (SnapNext \/ UNCHANGED snapVars) => SnapInv'
<1> SUFFICES ASSUME SceneInv, Later, SnapInv, SnapNext \/ UNCHANGED snapVars PROVE SnapInv'
  OBVIOUS
<1>a. /\ scene \in Nat /\ scene' \in Nat /\ 0..scene \subseteq 0..scene' /\ shape \in 0..scene
      /\ None \notin Nat /\ Snap \subseteq Nat
  BY SceneAssumption, SnapAssumption DEF SceneInv, Later, Snap
<1>t. /\ now \in Second /\ files \in [Second -> 0..scene \union {None}]
      /\ files \in [Second -> 0..scene' \union {None}]
      /\ rows \subseteq Snap /\ path \in [Snap -> Second]
      /\ meant \in [Snap -> 0..scene] /\ meant \in [Snap -> 0..scene']
      /\ saving \in [Snap -> {"idle", "asked", "written", "over"}]
      /\ restoring \in Snap \union {None}
  BY <1>a DEF SnapInv, SnapTypeOK
<1>o. \A s \in Snap : s \in rows \/ restoring = s => saving[s] = "over"
  BY DEF SnapInv
<1>i. \A s \in Snap : saving[s] = "written" \/ s \in rows \/ restoring = s => Intact(s)
  BY DEF SnapInv
\* What is written or over stays so, and no file or name changes.
<1>k. ASSUME UNCHANGED <<now, files, path, meant>>,
             saving' \in [Snap -> {"idle", "asked", "written", "over"}],
             rows' \subseteq Snap, restoring' \in Snap \union {None},
             \A s \in Snap : saving[s] \in {"written", "over"} => saving'[s] \in {"written", "over"},
             \A s \in Snap : s \in rows' \/ restoring' = s => saving'[s] = "over",
             \A s \in Snap : saving'[s] = "written" \/ s \in rows' \/ restoring' = s =>
                saving[s] = "written" \/ s \in rows \/ restoring = s
      PROVE  SnapInv'
  <2>1. \A s \in Snap : Intact(s) => Intact(s)'
    BY <1>k DEF Intact
  <2>2. SnapTypeOK'
    BY <1>k, <1>t DEF SnapTypeOK
  <2> QED BY <1>k, <1>i, <2>1, <2>2 DEF SnapInv
<1>1. ASSUME Restore PROVE SnapInv'
  BY <1>1, <1>a, <1>t, <1>o, <1>k DEF Restore
<1>2. ASSUME NEW s \in Snap, CreateSnapshot(s) PROVE SnapInv'
  BY <1>2, <1>t, <1>o, <1>k DEF CreateSnapshot
<1>3. ASSUME NEW s \in Snap, SaveFile(s) PROVE SnapInv'
  <2>1. /\ now' \in Second /\ UNCHANGED <<rows, restoring>>
        /\ files' = [files EXCEPT ![now'] = shape] /\ path' = [path EXCEPT ![s] = now']
        /\ meant' = [meant EXCEPT ![s] = shape] /\ saving' = [saving EXCEPT ![s] = "written"]
        /\ saving[s] = "asked"
    BY <1>3 DEF SaveFile
  <2>2. SnapTypeOK'
    BY <1>a, <1>t, <2>1 DEF SnapTypeOK
  <2>3. s \notin rows /\ restoring # s
    BY <1>o, <2>1
  <2>4. shape # None /\ files'[now'] = shape /\ path'[s] = now' /\ meant'[s] = shape /\ saving'[s] = "written"
    BY <1>a, <1>t, <2>1
  <2>5. Intact(s)'
    BY <2>4 DEF Intact
  <2>6. ASSUME NEW u \in Snap \ {s}, Intact(u) PROVE Intact(u)'
    <3>1. path'[u] = path[u] /\ meant'[u] = meant[u]
      BY <1>t, <2>1
    <3>2. CASE path[u] = now'
      BY <2>4, <3>1, <3>2 DEF Intact
    <3>3. CASE path[u] # now'
      <4>1. files'[path[u]] = files[path[u]]
        BY <1>t, <2>1, <3>3
      <4>2. ASSUME NEW other \in Snap \ {u}, saving[other] \in {"written", "over"}, path[other] = path[u]
            PROVE  saving'[other] \in {"written", "over"} /\ path'[other] = path'[u]
        BY <1>t, <2>1, <3>1, <4>2
      <4> QED BY <2>6, <3>1, <4>1, <4>2 DEF Intact
    <3> QED BY <3>2, <3>3
  <2> QED BY <1>t, <1>o, <1>i, <2>1, <2>2, <2>3, <2>5, <2>6 DEF SnapInv
<1>4. ASSUME NEW s \in Snap, SaveFails(s) PROVE SnapInv'
  BY <1>4, <1>t, <1>o, <1>k DEF SaveFails
<1>5. ASSUME NEW s \in Snap, StoreRow(s) PROVE SnapInv'
  BY <1>5, <1>t, <1>o, <1>k DEF StoreRow
<1>6. ASSUME NEW s \in Snap, AskRestore(s) PROVE SnapInv'
  BY <1>6, <1>t, <1>o, <1>k DEF AskRestore
<1>7. ASSUME NEW s \in Snap, DeleteRow(s) PROVE SnapInv'
  BY <1>7, <1>t, <1>o, <1>k DEF DeleteRow
<1>8. ASSUME UNCHANGED snapVars PROVE SnapInv'
  BY <1>8, <1>t, <1>o, <1>k DEF snapVars
<1> QED BY <1>1, <1>2, <1>3, <1>4, <1>5, <1>6, <1>7, <1>8 DEF SnapNext, SnapStep

-----------------------------------------------------------------------------
(* The export gate and the history *)

\* begin puts its record in front; the records that stay move back by one.
LEMMA BeginFacts ==
    ASSUME operations \in Seq(Operation), Len(operations) <= HistoryLimit, begun \in Nat, Begin
    PROVE  /\ begun' = begun + 1 /\ operations' \in Seq(Operation') /\ Len(operations') <= HistoryLimit
           /\ \A n \in DOMAIN operations' :
                 \/ operations'[n] = [id |-> begun + 1, status |-> "running"]
                 \/ \E m \in DOMAIN operations : operations'[n] = operations[m]
<1> DEFINE new == [id |-> begun + 1, status |-> "running"]
           all == <<new>> \o operations
           n == IF Len(all) < HistoryLimit THEN Len(all) ELSE HistoryLimit
<1>1. begun' = begun + 1 /\ operations' = SubSeq(all, 1, n)
  BY DEF Begin
<1>2. HistoryLimit \in Nat /\ HistoryLimit # 0
  BY PanelAssumption
<1>3. Operation \subseteq Operation' /\ new \in Operation'
  BY <1>1 DEF Operation
<1>4. operations \in Seq(Operation') /\ <<new>> \in Seq(Operation') /\ Len(<<new>>) = 1 /\ <<new>>[1] = new
  <2>1. operations \in Seq(Operation')
    BY <1>3
  <2> HIDE DEF new
  <2> QED BY <1>3, <2>1
<1> HIDE DEF new
<1>5. /\ all \in Seq(Operation') /\ Len(all) = 1 + Len(operations) /\ Len(operations) \in Nat
      /\ \A i \in 1..Len(all) : all[i] = IF i <= 1 THEN new ELSE operations[i - 1]
  BY <1>4, ConcatProperties
<1> HIDE DEF all
<1>6. n \in Nat /\ n <= HistoryLimit /\ n <= Len(all) /\ \A i \in 1..n : all[i] \in Operation'
  BY <1>2, <1>5
<1> HIDE DEF n
<1>7. /\ SubSeq(all, 1, n) \in Seq(Operation') /\ Len(SubSeq(all, 1, n)) = n
      /\ \A i \in 1..n : SubSeq(all, 1, n)[i] = all[i]
  BY <1>6, SubSeqProperties
<1>8. ASSUME NEW i \in DOMAIN operations'
      PROVE  operations'[i] = new \/ \E m \in DOMAIN operations : operations'[i] = operations[m]
  <2>1. i \in 1..n /\ operations'[i] = all[i]
    BY <1>1, <1>7
  <2>2. CASE i <= 1
    BY <1>5, <1>6, <2>1, <2>2
  <2>3. CASE ~(i <= 1)
    <3>1. i - 1 \in DOMAIN operations /\ all[i] = operations[i - 1]
      BY <1>4, <1>5, <1>6, <2>1, <2>3
    <3> QED BY <2>1, <3>1
  <2> QED BY <2>2, <2>3
<1> QED BY <1>1, <1>6, <1>7, <1>8 DEF new

\* complete changes the status of one operation's record and nothing else.
LEMMA CompleteFacts ==
    ASSUME operations \in Seq(Operation), NEW id, NEW outcome \in {"success", "error"}, Complete(id, outcome)
    PROVE  /\ operations' \in Seq(Operation) /\ Len(operations') = Len(operations)
           /\ DOMAIN operations' = DOMAIN operations
           /\ \A n \in DOMAIN operations :
                 /\ operations'[n].id = operations[n].id
                 /\ operations'[n].status = IF operations[n].id = id THEN outcome ELSE operations[n].status
<1>1. Len(operations) \in Nat /\ DOMAIN operations = 1..Len(operations)
  OBVIOUS
<1>2. ASSUME NEW n \in DOMAIN operations
      PROVE  /\ operations'[n] \in Operation /\ operations'[n].id = operations[n].id
             /\ operations'[n].status = IF operations[n].id = id THEN outcome ELSE operations[n].status
  <2>1. operations[n] \in Operation
    BY <1>1
  <2>2. operations'[n] = IF operations[n].id = id THEN [operations[n] EXCEPT !.status = outcome] ELSE operations[n]
    BY DEF Complete
  <2> QED BY <2>1, <2>2 DEF Operation
<1>3. operations' \in [1..Len(operations) -> Operation]
  BY <1>1, <1>2 DEF Complete
<1>4. operations' \in Seq(Operation) /\ Len(operations') = Len(operations)
  BY <1>1, <1>3
<1> QED BY <1>1, <1>2, <1>3, <1>4

Inspections == [at : {"idle", "asked", "measured"}, op : 0..begun, options : Option,
                revision : Nat, measured : Nat]

\* Each step, as far as the panel is concerned.
PanelStep == PanelNext \/ UNCHANGED panelVars

LEMMA PanelCases ==
    ASSUME PanelStep, NEW P,
           ClearHistory => P, SetOptions => P, AskUndo => P,
           ASSUME NEW u \in undos, Undone(u) PROVE P,
           ASSUME NEW u \in undos, UndoAnswered(u) PROVE P,
           ASSUME NEW i \in Inspection, Inspect(i) PROVE P,
           ASSUME NEW i \in Inspection, Measure(i) PROVE P,
           ASSUME NEW i \in Inspection, Deliver(i) PROVE P,
           ASSUME NEW i \in Inspection, InspectionFails(i) PROVE P,
           UNCHANGED panelVars => P
    PROVE  P
BY Zenon DEF PanelStep, PanelNext

LEMMA PanelShapeStep ==
    SceneInv /\ SceneInv' /\ Later /\ PanelShape /\ PanelStep => PanelShape'
<1> SUFFICES ASSUME SceneInv, SceneInv', Later, PanelShape, PanelStep PROVE PanelShape'
  OBVIOUS
<1> DEFINE Undos == [at : {"asked", "done", "refused"}, op : 1..begun, changes : Changes]
<1>c. Changes \subseteq Changes' /\ scene \in Nat /\ tick \in Nat
  BY DEF SceneInv, Later, Changes
<1>t. /\ options \in Option /\ report \in Report \union {None} /\ busy \in BOOLEAN
      /\ inspections \in [Inspection -> Inspections] /\ undos \subseteq Undos
      /\ operations \in Seq(Operation) /\ Len(operations) <= HistoryLimit /\ begun \in Nat
  BY DEF PanelShape, PanelTypeOK, Inspections
<1>p. ASSUME options' \in Option, report' \in Report \union {None}, busy' \in BOOLEAN,
             inspections' \in [Inspection -> Inspections'], undos' \subseteq Undos',
             operations' \in Seq(Operation'), Len(operations') <= HistoryLimit, begun' \in Nat
      PROVE  PanelShape'
  BY <1>p DEF PanelShape, PanelTypeOK, Inspections
<1>b. ASSUME begun' = begun
      PROVE  Inspections' = Inspections /\ Operation' = Operation /\ Undos \subseteq Undos'
  BY <1>b, <1>c DEF Inspections, Operation
<1>g. ASSUME begun' = begun + 1
      PROVE  Inspections \subseteq Inspections' /\ Undos \subseteq Undos'
  BY <1>c, <1>g, <1>t DEF Inspections
<1>i. NoInspection \in Inspections
  BY <1>t, PanelAssumption DEF Inspections, NoInspection
<1>1. ASSUME ClearHistory PROVE PanelShape'
  <2>1. begun' = begun /\ operations' \in Seq(Operation) /\ Len(operations') <= HistoryLimit
    BY <1>1, PanelAssumption DEF ClearHistory
  <2> QED BY <1>1, <1>b, <1>p, <1>t, <2>1 DEF ClearHistory
<1>2. ASSUME SetOptions PROVE PanelShape'
  BY <1>2, <1>b, <1>p, <1>t DEF SetOptions
<1>3. ASSUME AskUndo PROVE PanelShape'
  <2>1. begun' = begun + 1 /\ operations' \in Seq(Operation') /\ Len(operations') <= HistoryLimit
    BY <1>3, <1>t, BeginFacts DEF AskUndo
  <2>2. undos' \subseteq Undos'
    <3>1. [at |-> "asked", op |-> begun + 1, changes |-> {}] \in Undos'
      BY <1>t, <2>1 DEF Changes
    <3> HIDE DEF Undos
    <3> QED BY <1>3, <1>g, <1>t, <2>1, <3>1 DEF AskUndo
  <2> QED BY <1>3, <1>g, <1>p, <1>t, <2>1, <2>2 DEF AskUndo
<1>4. ASSUME NEW u \in undos, Undone(u) PROVE PanelShape'
  <2>1. undos' \subseteq Undos'
    <3>1. CASE Change /\ \E at \in {"done", "refused"} :
                 undos' = (undos \ {u}) \union {[u EXCEPT !.at = at, !.changes = {scene + 1}]}
      <4>1. {scene + 1} \in Changes'
        BY <1>c, <3>1 DEF Change, Changes
      <4>2. PICK at \in {"done", "refused"} :
                 undos' = (undos \ {u}) \union {[u EXCEPT !.at = at, !.changes = {scene + 1}]}
        BY <3>1
      <4>3. u \in Undos /\ begun' = begun
        BY <1>4, <1>t DEF Undone
      <4>4. [u EXCEPT !.at = at, !.changes = {scene + 1}] \in Undos'
        BY <4>1, <4>3
      <4> HIDE DEF Undos
      <4> QED BY <1>b, <1>t, <4>2, <4>3, <4>4
    <3>2. CASE undos' = (undos \ {u}) \union {[u EXCEPT !.at = "refused"]}
      <4>1. u \in Undos /\ begun' = begun
        BY <1>4, <1>t DEF Undone
      <4>2. [u EXCEPT !.at = "refused"] \in Undos
        BY <4>1
      <4> HIDE DEF Undos
      <4> QED BY <1>b, <1>t, <3>2, <4>1, <4>2
    <3> QED BY <1>4, <3>1, <3>2 DEF Undone
  <2> HIDE DEF Undos
  <2> QED BY <1>4, <1>b, <1>p, <1>t, <2>1 DEF Undone
<1> HIDE DEF Undos
<1>5. ASSUME NEW u \in undos, UndoAnswered(u) PROVE PanelShape'
  <2>1. operations' \in Seq(Operation) /\ Len(operations') = Len(operations)
    BY <1>5, <1>t, CompleteFacts DEF UndoAnswered
  <2> QED BY <1>5, <1>b, <1>p, <1>t, <2>1 DEF UndoAnswered
<1>6. ASSUME NEW i \in Inspection, Inspect(i) PROVE PanelShape'
  <2>1. begun' = begun + 1 /\ operations' \in Seq(Operation') /\ Len(operations') <= HistoryLimit
    BY <1>6, <1>t, BeginFacts DEF Inspect
  <2>2. inspections' \in [Inspection -> Inspections']
    <3>1. [at |-> "asked", op |-> begun + 1, options |-> options, revision |-> tick, measured |-> 0]
          \in Inspections'
      BY <1>c, <1>t, <2>1 DEF Inspections
    <3>2. inspections \in [Inspection -> Inspections']
      BY <1>g, <1>t, <2>1
    <3> QED BY <1>6, <3>1, <3>2 DEF Inspect
  <2> QED BY <1>6, <1>g, <1>p, <1>t, <2>1, <2>2 DEF Inspect
<1>7. ASSUME NEW i \in Inspection, Measure(i) PROVE PanelShape'
  <2>1. inspections' \in [Inspection -> Inspections]
    <3>1. [inspections[i] EXCEPT !.at = "measured", !.measured = scene] \in Inspections
      BY <1>c, <1>t DEF Inspections
    <3>2. inspections' = [inspections EXCEPT ![i] = [inspections[i] EXCEPT !.at = "measured", !.measured = scene]]
      BY <1>7, <1>t DEF Measure, Inspections
    <3> QED BY <1>t, <3>1, <3>2
  <2> QED BY <1>7, <1>b, <1>p, <1>t, <2>1 DEF Measure
<1>8. ASSUME NEW i \in Inspection, Deliver(i) PROVE PanelShape'
  <2>1. operations' \in Seq(Operation) /\ Len(operations') = Len(operations)
    BY <1>8, <1>t, CompleteFacts DEF Deliver
  <2>2. report' \in Report \union {None}
    BY <1>8, <1>t DEF Deliver, Report, Inspections
  <2>3. inspections' \in [Inspection -> Inspections]
    BY <1>8, <1>t, <1>i DEF Deliver
  <2> QED BY <1>8, <1>b, <1>p, <1>t, <2>1, <2>2, <2>3 DEF Deliver
<1>9. ASSUME NEW i \in Inspection, InspectionFails(i) PROVE PanelShape'
  <2>1. operations' \in Seq(Operation) /\ Len(operations') = Len(operations)
    BY <1>9, <1>t, CompleteFacts DEF InspectionFails
  <2>2. inspections' \in [Inspection -> Inspections]
    BY <1>9, <1>t, <1>i DEF InspectionFails
  <2> QED BY <1>9, <1>b, <1>p, <1>t, <2>1, <2>2 DEF InspectionFails
<1>10. ASSUME UNCHANGED panelVars PROVE PanelShape'
  BY <1>10, <1>b, <1>p, <1>t DEF panelVars
<1> QED BY <1>1, <1>2, <1>3, <1>4, <1>5, <1>6, <1>7, <1>8, <1>9, <1>10, PanelCases, Zenon

\* The records of the operations in flight.
InFlight == {inspections[i].op : i \in {j \in Inspection : inspections[j].at # "idle"}}
            \union {u.op : u \in undos}

\* What the history says of each record it holds.
Told == \A n \in DOMAIN operations : operations[n].status = "running" <=> operations[n].id \in InFlight

LEMMA ToldNow == HistoryIsTrue <=> Told
<1>1. \A id : id \in InFlight <=>
          \/ \E i \in Inspection : inspections[i].at # "idle" /\ inspections[i].op = id
          \/ \E u \in undos : u.op = id
  BY DEF InFlight
<1> QED BY <1>1 DEF HistoryIsTrue, Told

LEMMA ToldNext == HistoryIsTrue' <=> Told'
BY ToldNow, PTL

LEMMA HistoryStep == PanelShape /\ HistoryInv /\ PanelStep => HistoryInv'
<1> SUFFICES ASSUME PanelShape, HistoryInv, PanelStep PROVE HistoryInv'
  OBVIOUS
<1>t. /\ inspections \in [Inspection -> Inspections]
      /\ undos \subseteq [at : {"asked", "done", "refused"}, op : 1..begun, changes : Changes]
      /\ operations \in Seq(Operation) /\ Len(operations) <= HistoryLimit /\ begun \in Nat
  BY DEF PanelShape, PanelTypeOK, Inspections
<1>o. \A n \in DOMAIN operations : operations[n].id \in 1..begun
  <2>1. \A n \in DOMAIN operations : operations[n] \in Operation
    BY <1>t
  <2> QED BY <2>1 DEF Operation
<1>d. /\ \A i, j \in Inspection :
             inspections[i].at # "idle" /\ inspections[j].at # "idle" /\ inspections[i].op = inspections[j].op
             => i = j
      /\ \A i \in Inspection :
             inspections[i].at # "idle" => \A u \in undos : inspections[i].op # u.op
      /\ \A u, v \in undos : u.op = v.op => u = v
  BY DEF HistoryInv
<1>h. Told
  BY ToldNow DEF HistoryInv
\* The operations in flight are told apart by their records ...
<1>i. ASSUME NEW i \in Inspection, inspections'[i].at # "idle",
             inspections'[i].op = inspections[i].op, inspections[i].at # "idle",
             \A j \in Inspection \ {i} : inspections'[j] = inspections[j],
             UNCHANGED <<undos, operations>>
      PROVE  HistoryInv'
  <2>1. InFlight' = InFlight
    BY <1>i DEF InFlight
  <2> QED BY <1>i, <1>d, <1>h, <2>1, ToldNext DEF HistoryInv, Told
<1>u. ASSUME UNCHANGED <<inspections, operations>>, NEW u \in undos, NEW v, v.op = u.op,
             undos' = (undos \ {u}) \union {v}
      PROVE  HistoryInv'
  <2>1. InFlight' = InFlight
    BY <1>u DEF InFlight
  <2> QED BY <1>u, <1>d, <1>h, <2>1, ToldNext DEF HistoryInv, Told
\* ... a new one has a new record ...
<1>n. ASSUME Begin,
             \A id \in 1..begun : id \in InFlight' <=> id \in InFlight,
             begun + 1 \in InFlight'
      PROVE  HistoryIsTrue'
  <2>1. \A n \in DOMAIN operations' :
           \/ operations'[n] = [id |-> begun + 1, status |-> "running"]
           \/ \E m \in DOMAIN operations : operations'[n] = operations[m]
    BY <1>n, <1>t, BeginFacts
  <2>2. \A n \in DOMAIN operations' : operations'[n].status = "running" <=> operations'[n].id \in InFlight'
    <3> SUFFICES ASSUME NEW n \in DOMAIN operations'
                 PROVE  operations'[n].status = "running" <=> operations'[n].id \in InFlight'
      OBVIOUS
    <3>1. CASE operations'[n] = [id |-> begun + 1, status |-> "running"]
      BY <1>n, <3>1
    <3>2. CASE \E m \in DOMAIN operations : operations'[n] = operations[m]
      BY <1>n, <1>h, <1>o, <3>2 DEF Told
    <3> QED BY <2>1, <3>1, <3>2
  <2> QED BY <2>2, ToldNext DEF Told
\* ... and one that ends is completed.
<1>c. ASSUME NEW id, NEW outcome \in {"success", "error"}, Complete(id, outcome), id \notin InFlight',
             \A other \in 1..begun : other # id => (other \in InFlight' <=> other \in InFlight)
      PROVE  HistoryIsTrue'
  <2>1. /\ DOMAIN operations' = DOMAIN operations
        /\ \A n \in DOMAIN operations :
              /\ operations'[n].id = operations[n].id
              /\ operations'[n].status = IF operations[n].id = id THEN outcome ELSE operations[n].status
    BY <1>c, <1>t, CompleteFacts
  <2>2. \A n \in DOMAIN operations' : operations'[n].status = "running" <=> operations'[n].id \in InFlight'
    BY <1>c, <1>h, <1>o, <2>1 DEF Told
  <2> QED BY <2>2, ToldNext DEF Told
<1>1. ASSUME ClearHistory PROVE HistoryInv'
  BY <1>1, <1>d, ToldNext DEF ClearHistory, HistoryInv, Told
<1>2. ASSUME SetOptions PROVE HistoryInv'
  BY <1>2, <1>d, <1>h, ToldNext DEF SetOptions, HistoryInv, Told, InFlight
<1>3. ASSUME AskUndo PROVE HistoryInv'
  <2> DEFINE new == [at |-> "asked", op |-> begun + 1, changes |-> {}]
  <2>1. /\ undos' = undos \union {new}
        /\ inspections' = inspections /\ Begin
    BY <1>3 DEF AskUndo
  <2>2. (\A i \in Inspection : inspections[i].op \in 0..begun) /\ \A u \in undos : u.op \in 1..begun
    BY <1>t DEF Inspections
  <2>3. new.op = begun + 1
    OBVIOUS
  <2> HIDE DEF new
  <2>4. \A u : u \in undos' <=> u \in undos \/ u = new
    BY <2>1
  <2>5. \A u \in undos : u.op # begun + 1 /\ u.op # new.op
    BY <1>t, <2>2, <2>3
  <2>6. HistoryIsTrue'
    <3>1. \A id : id \in {u.op : u \in undos'} <=> id \in {u.op : u \in undos} \/ id = begun + 1
      BY <2>3, <2>4
    <3>2. \A id : id \in InFlight' <=> id \in InFlight \/ id = begun + 1
      BY <2>1, <3>1 DEF InFlight
    <3> QED BY <1>n, <1>t, <2>1, <3>2
  <2>7. \A u, v \in undos' : u.op = v.op => u = v
    BY <1>d, <2>4, <2>5
  <2>8. \A i \in Inspection : inspections'[i].at # "idle" => \A u \in undos' : inspections'[i].op # u.op
    <3>1. \A i \in Inspection : inspections[i].op # new.op
      BY <1>t, <2>2, <2>3
    <3> QED BY <1>d, <2>1, <2>4, <3>1
  <2>9. \A i, j \in Inspection :
           inspections'[i].at # "idle" /\ inspections'[j].at # "idle" /\ inspections'[i].op = inspections'[j].op
           => i = j
    BY <1>d, <2>1
  <2> QED BY <2>6, <2>7, <2>8, <2>9 DEF HistoryInv
<1>4. ASSUME NEW u \in undos, Undone(u) PROVE HistoryInv'
  <2>1. PICK v : v.op = u.op /\ undos' = (undos \ {u}) \union {v}
    BY <1>4, <1>t DEF Undone
  <2> QED BY <1>4, <1>u, <2>1 DEF Undone
<1>5. ASSUME NEW u \in undos, UndoAnswered(u) PROVE HistoryInv'
  <2>1. /\ undos' = undos \ {u} /\ inspections' = inspections
        /\ Complete(u.op, IF u.at = "done" THEN "success" ELSE "error")
    BY <1>5 DEF UndoAnswered
  <2>2. u.op \notin InFlight' /\ \A other : other # u.op => (other \in InFlight' <=> other \in InFlight)
    BY <1>d, <2>1 DEF InFlight
  <2>3. HistoryIsTrue'
    BY <1>c, <2>1, <2>2
  <2> QED BY <1>d, <2>1, <2>3 DEF HistoryInv
<1>6. ASSUME NEW i \in Inspection, Inspect(i) PROVE HistoryInv'
  <2>1. /\ inspections[i].at = "idle" /\ inspections'[i].at = "asked" /\ inspections'[i].op = begun + 1
        /\ \A j \in Inspection \ {i} : inspections'[j] = inspections[j]
        /\ undos' = undos /\ Begin
    BY <1>6, <1>t DEF Inspect
  <2>2. \A j \in Inspection : inspections[j].op \in 0..begun
    BY <1>t DEF Inspections
  <2>3. HistoryIsTrue'
    <3>1. \A id \in 1..begun : id \in InFlight' <=> id \in InFlight
      BY <1>t, <2>1 DEF InFlight
    <3>2. begun + 1 \in InFlight'
      BY <2>1 DEF InFlight
    <3> QED BY <1>n, <2>1, <3>1, <3>2
  <2> QED BY <1>d, <1>t, <2>1, <2>2, <2>3 DEF HistoryInv
<1>7. ASSUME NEW i \in Inspection, Measure(i) PROVE HistoryInv'
  <2>1. /\ inspections[i].at = "asked" /\ inspections'[i].at = "measured"
        /\ inspections'[i].op = inspections[i].op
        /\ \A j \in Inspection \ {i} : inspections'[j] = inspections[j]
        /\ undos' = undos /\ operations' = operations
    BY <1>7, <1>t DEF Measure, Inspections
  <2> QED BY <1>i, <2>1
<1>8. ASSUME NEW i \in Inspection, Deliver(i) \/ InspectionFails(i) PROVE HistoryInv'
  <2>1. /\ inspections[i].at # "idle" /\ inspections'[i].at = "idle"
        /\ \A j \in Inspection \ {i} : inspections'[j] = inspections[j]
        /\ undos' = undos
    BY <1>8, <1>t DEF Deliver, InspectionFails, NoInspection
  <2>2. PICK outcome \in {"success", "error"} : Complete(inspections[i].op, outcome)
    BY <1>8 DEF Deliver, InspectionFails
  <2>3. HistoryIsTrue'
    <3>1. inspections[i].op \notin InFlight'
      BY <1>d, <2>1 DEF InFlight
    <3>2. \A other \in 1..begun : other # inspections[i].op => (other \in InFlight' <=> other \in InFlight)
      BY <2>1 DEF InFlight
    <3> QED BY <1>c, <2>2, <3>1, <3>2
  <2> QED BY <1>d, <2>1, <2>3 DEF HistoryInv
<1>9. ASSUME UNCHANGED panelVars PROVE HistoryInv'
  BY <1>9, <1>d, <1>h, ToldNext DEF panelVars, HistoryInv, Told, InFlight
<1> QED BY <1>1, <1>2, <1>3, <1>4, <1>5, <1>6, <1>7, <1>8, <1>9, PanelCases, Zenon

LEMMA MeasuredStep ==
    SceneInv /\ Later /\ PanelShape /\ MeasuredInv /\ PanelStep /\
    (UNCHANGED <<tick, told>> \/ UNCHANGED <<inspections, report>>) => MeasuredInv'
<1> SUFFICES ASSUME SceneInv, Later, PanelShape, MeasuredInv, PanelStep,
                    UNCHANGED <<tick, told>> \/ UNCHANGED <<inspections, report>>
             PROVE  MeasuredInv'
  OBVIOUS
<1>t. /\ inspections \in [Inspection -> Inspections] /\ report \in Report \union {None}
      /\ scene \in Nat /\ tick \in Nat /\ told \subseteq 0..scene
  BY DEF PanelShape, PanelTypeOK, Inspections, SceneInv, Changes
<1>n. \A i \in Inspection : inspections[i].revision \in Nat
  BY <1>t DEF Inspections
<1>r. report # None => report.revision \in Nat
  BY <1>t DEF Report
<1>i. \A i \in Inspection :
         /\ inspections[i].at # "idle" => inspections[i].revision <= tick
         /\ inspections[i].at = "measured" /\ inspections[i].revision = tick
            => \A change \in told : change <= inspections[i].measured
  BY DEF MeasuredInv
<1>m. report # None =>
         /\ report.revision <= tick
         /\ report.revision = tick => \A change \in told : change <= report.measured
  BY DEF MeasuredInv
\* A new revision makes every measurement stale; the old one keeps them.
<1>s. ASSUME UNCHANGED <<inspections, report>> PROVE MeasuredInv'
  <2>1. CASE UNCHANGED <<tick, told>>
    BY <1>s, <1>i, <1>m, <2>1 DEF MeasuredInv
  <2>2. CASE tick' = tick + 1
    BY <1>s, <1>i, <1>m, <1>n, <1>r, <1>t, <2>2 DEF MeasuredInv
  <2> QED BY <2>1, <2>2 DEF Later
\* One inspection changes, and with it the report or not.
<1>c. ASSUME UNCHANGED <<tick, told>>, NEW i \in Inspection,
             \A j \in Inspection \ {i} : inspections'[j] = inspections[j],
             inspections'[i].at # "idle" => inspections'[i].revision <= tick,
             inspections'[i].at = "measured" => \A change \in told : change <= inspections'[i].measured,
             \/ report' = report
             \/ report' = None
             \/ /\ inspections[i].at = "measured"
                /\ report'.revision = inspections[i].revision /\ report'.measured = inspections[i].measured
      PROVE  MeasuredInv'
  BY <1>c, <1>i, <1>m DEF MeasuredInv
<1>1. ASSUME ClearHistory \/ SetOptions \/ AskUndo \/ \E u \in undos : Undone(u) \/ UndoAnswered(u)
      PROVE  MeasuredInv'
  BY <1>1, <1>s DEF ClearHistory, SetOptions, AskUndo, Undone, UndoAnswered
<1>2. ASSUME NEW i \in Inspection, Inspect(i) PROVE MeasuredInv'
  BY <1>2, <1>c, <1>t DEF Inspect, sceneVars
<1>3. ASSUME NEW i \in Inspection, Measure(i) PROVE MeasuredInv'
  <2>1. /\ inspections'[i].at = "measured" /\ inspections'[i].revision = inspections[i].revision
        /\ inspections'[i].measured = scene /\ inspections[i].at = "asked"
    BY <1>3, <1>t DEF Measure, Inspections
  <2>2. \A j \in Inspection \ {i} : inspections'[j] = inspections[j]
    BY <1>3, <1>t DEF Measure
  <2>3. UNCHANGED <<tick, told, report>>
    BY <1>3 DEF Measure, sceneVars
  <2>4. \A change \in told : change <= scene
    BY <1>t
  <2> QED BY <1>c, <1>i, <2>1, <2>2, <2>3, <2>4
<1>4. ASSUME NEW i \in Inspection, Deliver(i) PROVE MeasuredInv'
  <2>1. inspections'[i].at = "idle" /\ \A j \in Inspection \ {i} : inspections'[j] = inspections[j]
    BY <1>4, <1>t DEF Deliver, NoInspection
  <2>2. UNCHANGED <<tick, told>> /\ inspections[i].at = "measured"
    BY <1>4 DEF Deliver, sceneVars
  <2>3. \/ report' = None
        \/ report'.revision = inspections[i].revision /\ report'.measured = inspections[i].measured
    BY <1>4 DEF Deliver
  <2> QED BY <1>c, <2>1, <2>2, <2>3
<1>5. ASSUME NEW i \in Inspection, InspectionFails(i) PROVE MeasuredInv'
  <2>1. inspections'[i].at = "idle" /\ \A j \in Inspection \ {i} : inspections'[j] = inspections[j]
    BY <1>5, <1>t DEF InspectionFails, NoInspection
  <2> QED BY <1>5, <1>c, <2>1 DEF InspectionFails, sceneVars
<1>6. ASSUME UNCHANGED panelVars PROVE MeasuredInv'
  BY <1>6, <1>s DEF panelVars
<1> QED BY <1>1, <1>2, <1>3, <1>4, <1>5, <1>6, PanelCases, Zenon

-----------------------------------------------------------------------------
(* The invariant of the composition *)

\* A step announces to the panel or changes what the panel measures, not both.
LEMMA Apart ==
    [Next]_vars => UNCHANGED <<tick, told>> \/ UNCHANGED <<inspections, report>>
<1> SUFFICES ASSUME [Next]_vars PROVE UNCHANGED <<tick, told>> \/ UNCHANGED <<inspections, report>>
  OBVIOUS
<1>1. CASE PanelNext
  <2>1. CASE ClearHistory \/ SetOptions \/ AskUndo \/ \E u \in undos : Undone(u) \/ UndoAnswered(u)
    BY <2>1 DEF ClearHistory, SetOptions, AskUndo, Undone, UndoAnswered
  <2>2. CASE \E i \in Inspection : Inspect(i) \/ Measure(i) \/ Deliver(i) \/ InspectionFails(i)
    BY <2>2 DEF Inspect, Measure, Deliver, InspectionFails, sceneVars
  <2> QED BY <1>1, <2>1, <2>2 DEF PanelNext
<1>2. CASE UNCHANGED panelVars
  BY <1>2 DEF panelVars
<1> QED BY <1>1, <1>2 DEF Next, ChatAct, SnapAct, PanelAct, vars

LEMMA InitStep == Init => IInv
<1> SUFFICES ASSUME Init PROVE IInv
  OBVIOUS
<1>a. None \notin Nat /\ MaxGestures \in Nat /\ MaxRounds \in Nat /\ MaxFaults \in Nat /\ MaxSnaps \in Nat
  BY SceneAssumption, ChatAssumption, SnapAssumption
<1>1. SceneInv
  BY <1>a DEF Init, SceneInit, SceneInv, Changes
<1>2. ChatShape
  <2>1. <<>> \in Seq(Message)
    OBVIOUS
  <2>2. handler \in Handlers /\ refiner \in Refiners
    BY <2>1 DEF Init, ChatInit, Resting, Handlers, Refiners, Changes
  <2>3. /\ known \in BOOLEAN /\ linked \in BOOLEAN /\ connected \in BOOLEAN
        /\ loading \in BOOLEAN /\ severed \in BOOLEAN
    BY DEF Init, ChatInit
  <2>4. turns \in 0..gestures /\ sent \in {0, turns} /\ faults \in 0..MaxFaults
    BY <1>a DEF Init, SceneInit, ChatInit
  <2> QED BY <2>1, <2>2, <2>3, <2>4 DEF Init, ChatInit, ChatShape
<1>3. OneTurn
  BY <1>a DEF Init, SceneInit, ChatInit, Resting, OneTurn
<1>4. SessionInv
  BY DEF Init, ChatInit, Resting, SessionInv, TurnHeld, TurnSaved, Fresh, TurnsAreKept
<1>5. SnapInv
  <2>1. restoring = None /\ Snap \subseteq Nat /\ rows = {}
    BY <1>a DEF Init, SnapInit, Snap
  <2>2. SnapTypeOK
    BY <1>a DEF Init, SceneInit, SnapInit, SnapTypeOK, Second
  <2> QED BY <1>a, <2>1, <2>2 DEF Init, SnapInit, SnapInv
<1>6. PanelShape
  <2>1. operations \in Seq(Operation) /\ Len(operations) <= HistoryLimit
    BY PanelAssumption DEF Init, PanelInit
  <2>2. undos \subseteq [at : {"asked", "done", "refused"}, op : 1..begun, changes : Changes]
    BY DEF Init, PanelInit
  <2>3. NoInspection \in [at : {"idle", "asked", "measured"}, op : 0..begun, options : Option,
                          revision : Nat, measured : Nat]
    BY PanelAssumption DEF Init, PanelInit, NoInspection
  <2>4. inspections \in [Inspection -> [at : {"idle", "asked", "measured"}, op : 0..begun,
                                       options : Option, revision : Nat, measured : Nat]]
    BY <2>3 DEF Init, PanelInit
  <2>5. options \in Option /\ report \in Report \union {None} /\ busy \in BOOLEAN /\ begun \in Nat
    BY PanelAssumption DEF Init, PanelInit
  <2> QED BY <2>1, <2>2, <2>4, <2>5 DEF PanelShape, PanelTypeOK
<1>7. HistoryInv
  BY DEF Init, PanelInit, HistoryInv, HistoryIsTrue, NoInspection
<1>8. MeasuredInv
  BY DEF Init, PanelInit, MeasuredInv, NoInspection
<1> QED BY <1>1, <1>2, <1>3, <1>4, <1>5, <1>6, <1>7, <1>8 DEF IInv

LEMMA NextStep == IInv /\ [Next]_vars => IInv'
<1> SUFFICES ASSUME IInv, [Next]_vars PROVE IInv'
  OBVIOUS
<1>1. ChatStep /\ PanelStep /\ (SnapNext \/ UNCHANGED snapVars)
  BY DEF Next, ChatAct, SnapAct, PanelAct, vars, ChatStep, PanelStep
<1>2. SceneInv' /\ Later
  BY SceneStep DEF IInv
<1> QED BY <1>1, <1>2, ShapeStep, TurnStep, SessionStep, SnapshotStep, PanelShapeStep, HistoryStep,
           MeasuredStep, Apart DEF IInv

\* The invariant the properties below follow from.
THEOREM Invariance == Spec => []IInv
BY InitStep, NextStep, PTL DEF Spec

-----------------------------------------------------------------------------
(* What the studio promises *)

\* Conversation, snapshots and panel stay within their types; a turn's number
\* and a refinement's rounds within what the gestures allow.
THEOREM TypeCorrect == Spec => []TypeOK
<1>1. IInv => ChatTypeOK
  <2> SUFFICES ASSUME ChatShape, SceneInv PROVE ChatTypeOK
    BY DEF IInv
  <2>1. turns \in 0..MaxGestures /\ sent \in 0..turns
    BY SceneAssumption DEF ChatShape, SceneInv
  <2>2. /\ handler.at \in {"idle"} \union Serving /\ handler.mine \in Seq(Message)
        /\ refiner.at \in {"idle"} \union Refining /\ refiner.mine \in Seq(Message)
    BY DEF ChatShape, Handlers, Refiners
  <2>3. {known, linked, connected, loading, severed} \subseteq BOOLEAN
    BY DEF ChatShape
  <2> QED BY <2>1, <2>2, <2>3 DEF ChatShape, ChatTypeOK
<1>2. IInv => TypeOK
  BY <1>1 DEF IInv, SnapInv, PanelShape, TypeOK
<1> QED BY <1>2, Invariance, PTL

\* What a user was told is done stays in the session's row, or is accounted for
\* by a save of a turn and a refinement that overlapped.
THEOREM MessagesStay == Spec => []TurnsAreKept
<1>1. IInv => TurnsAreKept
  BY DEF IInv, SessionInv
<1> QED BY <1>1, Invariance, PTL

\* A snapshot with a row can be restored and holds its scene, unless another was
\* saved in the same second.
THEOREM SnapshotsStay == Spec => []SnapshotIsIntact
<1>1. IInv => SnapshotIsIntact
  BY DEF IInv, SnapInv, SnapTypeOK, Intact, SnapshotIsIntact
<1> QED BY <1>1, Invariance, PTL

\* The export gate offers a download only for a report of the options shown that
\* was measured after every change the tab has been told of.
THEOREM DownloadsAreMeasured == Spec => []DownloadIsMeasured
<1>1. IInv => DownloadIsMeasured
  BY DEF IInv, MeasuredInv, DownloadIsMeasured, DownloadEnabled, Stale
<1> QED BY <1>1, Invariance, PTL

\* The history shows as running exactly the operations in flight, whatever
\* overlaps, falls out or is cleared.
THEOREM HistoryTellsTruth == Spec => []HistoryIsTrue
<1>1. IInv => HistoryIsTrue
  BY DEF IInv, HistoryInv
<1> QED BY <1>1, Invariance, PTL
===============================================================================
