------------------------------ MODULE ChatSession ------------------------------
(***************************************************************************)
(* One conversation: the composer of a browser tab, its socket, the        *)
(* handler of /ws/chat (api/routers/chat.py), and a refinement over HTTP   *)
(* (api/routers/vision.py) that may run beside it.  Both load the session, *)
(* work for seconds and write the whole of it back.                        *)
(*                                                                         *)
(* A tab has one session; its messages are the turn's two entries and one  *)
(* entry per refinement round (its two messages).  Both language models    *)
(* support tools, so that the handler never takes its streaming path.      *)
(* Only these writers write the row, so that it can always be read back.   *)
(***************************************************************************)
EXTENDS StudioScene

CONSTANTS
    MaxRounds,   \* bound: max_iterations of a refinement
    MaxFaults    \* bound: failures of the session store

ASSUME ChatAssumption == MaxRounds \in Nat \ {0} /\ MaxFaults \in Nat

VARIABLES
    row,         \* the session's row
    known,       \* sessionId: the tab has been told of its session
    linked,      \* the tab's socket is open
    connected, loading,      \* chatStore.isConnected, isLoading
    sent,        \* the turn on its way to the server, or 0
    answer,      \* the response on its way to the tab, or None
    turns,       \* turns sent so far: the last one's number
    handler,     \* [at, mine, out, changes]: the handler of the last turn
    refiner,     \* [at, mine, left, rounds]: the refinement
    severed,     \* the last turn's connection is gone, or never carried it
    acked,       \* messages whose turn or refinement was answered as done
    overtaken,   \* writers whose session was loaded before another's save
    lost,        \* messages that the save of such a writer removed
    faults

tabVars == <<known, linked, connected, loading, sent, answer, turns, severed>>
rowVars == <<row, overtaken, lost>>
chatVars == <<tabVars, rowVars, handler, refiner, acked, faults>>

Message == {"user", "assistant", "round"} \X (1..MaxGestures * MaxRounds)
Entries(s) == {s[i] : i \in DOMAIN s}
Serving == {"loaded", "model", "dispatch", "store", "answer", "error"}
Refining == {"look", "finish"}

ChatTypeOK ==
    /\ row \in Seq(Message)
    /\ {known, linked, connected, loading, severed} \subseteq BOOLEAN
    /\ sent \in 0..turns /\ turns \in 0..MaxGestures
    /\ handler.at \in {"idle"} \union Serving /\ handler.mine \in Seq(Message)
    /\ refiner.at \in {"idle"} \union Refining /\ refiner.mine \in Seq(Message)
    /\ acked \union lost \subseteq Message
    /\ overtaken \subseteq {"turn", "refinement"}
    /\ faults \in 0..MaxFaults

Resting == [at |-> "idle", mine |-> <<>>, out |-> FALSE, changes |-> {}]

ChatInit ==
    /\ row = <<>>
    /\ known = FALSE /\ loading = FALSE /\ severed = FALSE
    /\ linked = TRUE /\ connected = TRUE
    /\ sent = 0 /\ answer = None /\ turns = 0
    /\ handler = Resting
    /\ refiner = [at |-> "idle", mine |-> <<>>, left |-> 0, rounds |-> 0]
    /\ acked = {} /\ overtaken = {} /\ lost = {} /\ faults = 0

-----------------------------------------------------------------------------
(* The tab *)

\* A socket that has closed without its event is still taken for open.
Send ==
    /\ Gesture
    /\ connected /\ ~loading
    /\ loading' = TRUE
    /\ turns' = turns + 1
    /\ sent' = IF linked THEN turns + 1 ELSE 0
    /\ severed' = ~linked
    /\ UNCHANGED <<sceneVars, rowVars, known, linked, connected, answer, handler, refiner, acked, faults>>

\* The connection breaks, with what is on it.
Sever == linked' = FALSE /\ sent' = 0 /\ answer' = None /\ severed' = TRUE

Drop ==
    /\ Gesture
    /\ linked /\ Sever
    /\ UNCHANGED <<sceneVars, rowVars, known, connected, loading, turns, handler, refiner, acked, faults>>

OnClose ==
    /\ ~linked /\ connected
    /\ connected' = FALSE
    /\ UNCHANGED <<sceneVars, gestures, rowVars, known, linked, loading, sent, answer, turns, severed,
                   handler, refiner, acked, faults>>

\* A handler that still works for the old connection keeps loading, and with it the composer.
Reconnect ==
    /\ ~linked /\ ~connected
    /\ linked' = TRUE /\ connected' = TRUE
    /\ UNCHANGED <<sceneVars, gestures, rowVars, known, loading, sent, answer, turns, severed,
                   handler, refiner, acked, faults>>

\* onmessage: addAssistantMessage raises the tick for any Blender output, "❌" too.
Receive ==
    /\ answer # None
    /\ known' = TRUE /\ loading' = FALSE /\ answer' = None
    /\ acked' = IF answer.done THEN acked \union {<<"user", turns>>, <<"assistant", turns>>} ELSE acked
    /\ IF answer.out THEN Announce(answer.changes) ELSE UNCHANGED <<tick, told>>
    /\ UNCHANGED <<scene, shape, gestures, rowVars, linked, connected, sent, turns, severed,
                   handler, refiner, faults>>

-----------------------------------------------------------------------------
(* The handler *)

\* The store is written: whoever else holds the session is overtaken.
Save(writer, session) ==
    /\ row' = session
    /\ overtaken' = (IF writer = "turn"
                     THEN IF refiner.at # "idle" THEN {"refinement"} ELSE {}
                     ELSE IF handler.at \in Serving THEN {"turn"} ELSE {})
                    \union (overtaken \intersect {"turn"} \intersect {writer})
    /\ lost' = IF writer \in overtaken THEN lost \union (Entries(row) \ Entries(session)) ELSE lost

StoreFails == faults < MaxFaults /\ faults' = faults + 1

To(place) == handler' = [handler EXCEPT !.at = place]
Quiet == UNCHANGED <<sceneVars, gestures, known, connected, loading, turns, refiner, acked>>

\* Before the inner try: an error ends the handler and closes its socket.
DieOfStore == StoreFails /\ handler' = Resting /\ Sever /\ UNCHANGED rowVars

Load ==
    /\ sent # 0 /\ handler.at = "idle"
    /\ \/ /\ handler' = [at |-> "loaded", mine |-> Append(row, <<"user", sent>>),
                         out |-> FALSE, changes |-> {}]
          /\ sent' = 0
          /\ overtaken' = overtaken \ {"turn"}
          /\ UNCHANGED <<answer, linked, severed, faults, row, lost>>
       \/ DieOfStore
    /\ Quiet

SaveUser ==
    /\ handler.at = "loaded"
    /\ \/ Save("turn", handler.mine) /\ To("model") /\ UNCHANGED <<sent, answer, linked, severed, faults>>
       \/ DieOfStore
    /\ Quiet

Calm == UNCHANGED <<gestures, tabVars, refiner, acked>>

\* use_case.execute up to the reply: the model may fail, answer, or call a tool.
Reply ==
    /\ handler.at = "model"
    /\ \/ To("error")
       \/ \E place \in {"store", "dispatch"} :
            handler' = [handler EXCEPT !.at = place, !.mine = Append(@, <<"assistant", turns>>)]
    /\ Calm /\ UNCHANGED <<sceneVars, rowVars, faults>>

\* _dispatch: the command changes the scene or not, and answers, refuses or raises.
Dispatch ==
    /\ handler.at = "dispatch"
    /\ \E changes \in {{}, {scene + 1}}, answers \in BOOLEAN :
         /\ IF changes = {} THEN UNCHANGED <<scene, shape>> ELSE Change
         /\ handler' = [handler EXCEPT !.at = IF answers THEN "store" ELSE "error",
                                       !.out = answers, !.changes = changes]
    /\ Calm /\ UNCHANGED <<tick, told, rowVars, faults>>

\* Mutant: the session that was loaded is saved, not the updated one.
SaveLoaded ==
    /\ handler.at = "store"
    /\ \/ /\ Save("turn", SubSeq(handler.mine, 1, Len(handler.mine) - 1))
          /\ To("answer") /\ UNCHANGED faults
       \/ StoreFails /\ To("error") /\ UNCHANGED rowVars
    /\ Calm /\ UNCHANGED sceneVars

SaveReply ==
    /\ handler.at = "store"
    /\ \/ Save("turn", handler.mine) /\ To("answer") /\ UNCHANGED faults
       \/ StoreFails /\ To("error") /\ UNCHANGED rowVars
    /\ Calm /\ UNCHANGED sceneVars

\* Mutant: the error of a turn is logged instead of sent.
AnswerDoneOnly ==
    /\ handler.at \in {"answer", "error"}
    /\ answer' = IF severed \/ handler.at = "error" THEN answer
                 ELSE [done |-> TRUE, out |-> handler.out, changes |-> handler.changes]
    /\ handler' = Resting
    /\ overtaken' = overtaken \ {"turn"}
    /\ UNCHANGED <<linked, sent, severed, row, lost, faults>>
    /\ Quiet

\* The answer goes out on the turn's own connection, if that is still there; an
\* error carries no Blender output, whatever the command did.
Answer ==
    /\ handler.at \in {"answer", "error"}
    /\ answer' = IF severed THEN answer
                 ELSE [done |-> handler.at = "answer",
                       out |-> handler.at = "answer" /\ handler.out, changes |-> handler.changes]
    /\ handler' = Resting
    /\ overtaken' = overtaken \ {"turn"}
    /\ UNCHANGED <<linked, sent, severed, row, lost, faults>>
    /\ Quiet

-----------------------------------------------------------------------------
(* The refinement *)

Beside == UNCHANGED <<tabVars, handler, tick, told>>

Refine ==
    /\ Gesture
    /\ known /\ refiner.at = "idle"
    /\ refiner' = [refiner EXCEPT !.at = "look", !.mine = row, !.left = MaxRounds]
    /\ overtaken' = overtaken \ {"refinement"}
    /\ Beside /\ UNCHANGED <<scene, shape, row, lost, acked, faults>>

\* The next round: no picture, a converged one or a failing model ends the loop;
\* a failing vision model or connection ends the request, and nothing is saved.
Round ==
    /\ refiner.at = "look"
    /\ \/ refiner' = [refiner EXCEPT !.at = "finish"] /\ UNCHANGED <<scene, shape>>
       \/ \E changed, dies \in BOOLEAN :
            /\ IF changed THEN Change ELSE UNCHANGED <<scene, shape>>
            /\ LET n == refiner.rounds + 1 IN
               refiner' = IF dies THEN [refiner EXCEPT !.at = "idle", !.mine = <<>>, !.left = 0]
                          ELSE [at |-> IF refiner.left = 1 THEN "finish" ELSE "look",
                                mine |-> Append(refiner.mine, <<"round", n>>),
                                left |-> refiner.left - 1, rounds |-> n]
    /\ Beside /\ UNCHANGED <<gestures, rowVars, acked, faults>>

Finish ==
    /\ refiner.at = "finish"
    /\ refiner' = [refiner EXCEPT !.at = "idle", !.mine = <<>>, !.left = 0]
    /\ \/ /\ Save("refinement", refiner.mine)
          /\ acked' = acked \union {m \in Entries(refiner.mine) : m[1] = "round"}
          /\ UNCHANGED faults
       \/ StoreFails /\ UNCHANGED <<rowVars, acked>>
    /\ Beside /\ UNCHANGED <<scene, shape, gestures>>

HandlerStep == Load \/ SaveUser \/ Reply \/ Dispatch \/ SaveReply \/ Answer
RefineStep == Round \/ Finish

ChatNext == Send \/ Drop \/ OnClose \/ Reconnect \/ Receive \/ HandlerStep \/ Refine \/ RefineStep

-----------------------------------------------------------------------------
(* Properties *)

\* What the user was told is done is in the session's row: the two messages of
\* an answered turn and the rounds of an answered refinement stay there, unless
\* a turn and a refinement overlapped and the later save removed them
\* (chat.py:78 and vision.py:38 load, :116 and :55 write the whole session).
TurnsAreKept == acked \subseteq Entries(row) \union lost

\* A turn whose connection lasts frees the composer, whatever fails in it: the
\* handler always answers (chat.py:134).
ComposerFreed == loading /\ ~severed ~> ~loading \/ severed
=============================================================================
