-------------------------- MODULE LeasedSocketProofs --------------------------
(***************************************************************************)
(* Proofs about BlenderSocket and LeasedSocket for every number of calls,  *)
(* connections, stops of the add-on and deaths of Blender.                 *)
(***************************************************************************)
EXTENDS LeasedSocket, SequenceTheorems, TLAPS

\* A stream without a command, and one with command k.
Bare == {<<>>, <<Fin>>}
With(k) == {<<k>>, <<k, Fin>>}

\* Blender's main thread does not work for connection c.
Spared(c) == main = None \/ main.conn # c

\* Nothing is under way on connection c.
Empty(c) == up[c] \in Bare /\ timers[c] = 0 /\ Spared(c) /\ down[c] \in Bare

\* The one command under way on c is k: sent, registered, executed, replied to.
Rising(c, k) ==
    up[c] \in With(k) /\ timers[c] = 0 /\ Spared(c) /\ down[c] \in Bare /\ runs[k] = 0
Waiting(c, k) ==
    up[c] \in Bare /\ timers[c] = 1 /\ bound[c] = k /\ Spared(c) /\ down[c] \in Bare /\ runs[k] = 0
Executed(c, k) ==
    /\ up[c] \in Bare /\ timers[c] = 0 /\ down[c] \in Bare /\ runs[k] = 1
    /\ main = [conn |-> c, cmd |-> k]
Falling(c, k) ==
    up[c] \in Bare /\ timers[c] = 0 /\ Spared(c) /\ down[c] \in With(k) /\ runs[k] = 1

Holds(c, k) == Rising(c, k) \/ Waiting(c, k) \/ Executed(c, k) \/ Falling(c, k)

\* No connection ever has two commands under way.
StreamInv == \A c \in Conn : Empty(c) \/ \E k \in Command : Holds(c, k)

\* A command under way is on one connection; its call reads there, or has given
\* it up and left the connection to nobody.
OwnInv ==
    \A c \in Conn, k \in Command : Holds(c, k) =>
        /\ pc[k] = IF conn = c THEN "reading" ELSE "unknown"
        /\ \A d \in Conn : Holds(d, k) => d = c

\* The lock is held by who dials or reads; whoever reads has a connection.
LockInv ==
    /\ \A k \in Command : pc[k] \in {"dialing", "reading"} <=> lock = k
    /\ \A k \in Command : pc[k] = "dialing" => conn = None
    /\ \A k \in Command : pc[k] = "reading" => conn # None
    /\ conn = None => ~eof

\* A stream that has not ended.
Unended(s) == s # <<Fin>> /\ \A k \in Command : s # <<k, Fin>>

\* An end of stream is on its way up only after the client has left, down only
\* after the handler has; a connection not yet dialled carries nothing.
EndInv ==
    \A c \in Conn :
        /\ c = conn => Unended(up[c])
        /\ handler[c] \in Open => Unended(down[c])
        /\ handler[c] = "none" => c # conn /\ up[c] = <<>> /\ down[c] = <<>> /\ timers[c] = 0 /\ Spared(c)

\* What was not sent has not run; what was answered has, and got its own reply.
RunInv ==
    \A k \in Command :
        /\ pc[k] \notin Sent => runs[k] = 0
        /\ pc[k] = "answered" => runs[k] = 1
        /\ got[k] \in {k, None}

IInv == TypeOK /\ StreamInv /\ OwnInv /\ LockInv /\ EndInv /\ RunInv

-----------------------------------------------------------------------------
(* Streams *)

LEMMA Pairs == ASSUME NEW x, NEW y PROVE Append(<<x>>, y) = <<x, y>>
<1> DEFINE s == Append(<<x>>, y)
<1>1. <<x>> \in Seq({x, y}) /\ <<x, y>> \in Seq({x, y}) /\ s \in Seq({x, y})
  OBVIOUS
<1>2. Len(s) = 2 /\ s[1] = x /\ s[2] = y /\ Len(<<x, y>>) = 2
  OBVIOUS
<1> HIDE DEF s
<1>3. s = <<x, y>>
  BY <1>1, <1>2, SeqEqual
<1> QED BY <1>3 DEF s

\* What is read from a stream, and what is left of it.
LEMMA Heads ==
    ASSUME NEW s, NEW k \in Command
    PROVE  /\ s \in With(k) => s # <<>> /\ Head(s) = k /\ Tail(s) \in Bare /\ First(s) = k
           /\ s \in Bare => First(s) \notin Command /\ s \notin With(k)
           /\ s \in Bare /\ First(s) = Fin => Head(s) = Fin /\ Tail(s) = <<>>
           /\ s \in With(k) => First(s) # Fin
           /\ \A j \in Command : s \in With(j) /\ s \in With(k) => j = k
<1>0. None \notin Command /\ Fin \notin Command /\ None # Fin /\ k # Fin
  BY SocketAssumption
<1>1. CASE s = <<>>
  BY <1>0, <1>1 DEF With, Bare, First
<1>2. CASE s = <<Fin>>
  BY <1>0, <1>2 DEF With, Bare, First
<1>3. CASE s = <<k>>
  BY <1>0, <1>3 DEF With, Bare, First
<1>4. CASE s = <<k, Fin>>
  BY <1>0, <1>4 DEF With, Bare, First
<1> QED BY <1>1, <1>2, <1>3, <1>4 DEF With, Bare

\* The end of a stream without a command.
LEMMA Closing ==
    ASSUME NEW s, s \in Bare
    PROVE  /\ s # <<Fin>> => Append(s, Fin) = <<Fin>>
           /\ s # <<>> => Head(s) = Fin /\ Tail(s) = <<>>
           /\ <<>> \in Bare /\ <<Fin>> \in Bare
<1>1. CASE s = <<>>
  BY <1>1 DEF Bare
<1>2. CASE s = <<Fin>>
  BY <1>2 DEF Bare
<1> QED BY <1>1, <1>2 DEF Bare

\* What is written to a stream that has not ended.
LEMMA Writes ==
    ASSUME NEW s, NEW k \in Command
    PROVE  /\ s \in Bare /\ s # <<Fin>> => Append(s, Fin) = <<Fin>> /\ Append(s, k) = <<k>>
           /\ s \in With(k) /\ s # <<k, Fin>> => Append(s, Fin) = <<k, Fin>>
           /\ <<>> \in Bare /\ <<Fin>> \in Bare /\ <<k>> \in With(k) /\ <<k, Fin>> \in With(k)
<1>1. CASE s = <<>>
  BY <1>1 DEF With, Bare
<1>2. CASE s = <<k>>
  BY <1>2, Pairs, SocketAssumption DEF With, Bare
<1>3. CASE s \notin {<<>>, <<k>>}
  BY <1>3 DEF With, Bare
<1> QED BY <1>1, <1>2, <1>3

\* A connection is as it was if its streams, its timers and the main thread are.
LEMMA Frame ==
    ASSUME NEW c \in Conn, NEW k \in Command,
           up'[c] = up[c], down'[c] = down[c], timers'[c] = timers[c], bound'[c] = bound[c],
           Spared(c)' <=> Spared(c),
           (main' = [conn |-> c, cmd |-> k]) <=> (main = [conn |-> c, cmd |-> k]),
           runs'[k] = runs[k]
    PROVE  (Empty(c)' <=> Empty(c)) /\ (Holds(c, k)' <=> Holds(c, k))
BY DEF Empty, Holds, Rising, Waiting, Executed, Falling, Spared

\* A connection has one command under way, or none.
One ==
    \A c \in Conn : \A j, k \in Command :
        /\ Holds(c, j) /\ Holds(c, k) => j = k
        /\ Holds(c, k) => ~Empty(c)

LEMMA OneNow == One
<1> SUFFICES ASSUME NEW c \in Conn, NEW j \in Command, NEW k \in Command, Holds(c, k)
             PROVE  (Holds(c, j) => j = k) /\ ~Empty(c)
  BY Zenon DEF One
<1>0. [conn |-> c, cmd |-> k] # None
  BY SocketAssumption DEF Job
<1>1. CASE Rising(c, k)
  BY <1>1, Heads DEF Holds, Empty, Rising, Waiting, Executed, Falling
<1>2. CASE Waiting(c, k)
  BY <1>2, Heads DEF Holds, Empty, Rising, Waiting, Executed, Falling
<1>3. CASE Executed(c, k)
  BY <1>0, <1>3, Heads DEF Holds, Empty, Rising, Waiting, Executed, Falling, Spared
<1>4. CASE Falling(c, k)
  BY <1>4, Heads DEF Holds, Empty, Rising, Waiting, Executed, Falling
<1> QED BY <1>1, <1>2, <1>3, <1>4 DEF Holds

LEMMA OneNext == One'
BY OneNow, PTL

\* Connections other than c are as they were.
Others(c) ==
    \A d \in Conn \ {c} :
        /\ up'[d] = up[d] /\ down'[d] = down[d]
        /\ timers'[d] = timers[d] /\ bound'[d] = bound[d]
        /\ Spared(d)' <=> Spared(d)
        /\ \A k \in Command : (main' = [conn |-> d, cmd |-> k]) <=> (main = [conn |-> d, cmd |-> k])

\* Nothing new is under way, and each call is where its command puts it.
LEMMA Kept ==
    ASSUME StreamInv, OwnInv,
           \A d \in Conn, k \in Command : Holds(d, k)' =>
               Holds(d, k) /\ pc'[k] = IF conn' = d THEN "reading" ELSE "unknown",
           \A d \in Conn : Empty(d)' \/ \E k \in Command : Holds(d, k)'
    PROVE  StreamInv' /\ OwnInv'
<1> HIDE DEF Holds, Empty
<1> QED BY Zenon DEF StreamInv, OwnInv

\* The command under way on c comes a place further, or is lost.
LEMMA Passed ==
    ASSUME StreamInv, OwnInv, pc' = pc, conn' = conn,
           NEW c \in Conn, NEW k \in Command, Holds(c, k), Holds(c, k)' \/ Empty(c)',
           Others(c), \A j \in Command \ {k} : runs'[j] = runs[j]
    PROVE  StreamInv' /\ OwnInv'
<1> HIDE DEF Holds, Empty
<1>1. ASSUME NEW d \in Conn \ {c}, NEW j \in Command \ {k}
      PROVE  (Empty(d)' <=> Empty(d)) /\ (Holds(d, j)' <=> Holds(d, j))
  BY Frame, Zenon DEF Others
<1>2. ASSUME NEW d \in Conn \ {c} PROVE ~Holds(d, k)' /\ (Empty(d)' <=> Empty(d))
  <2>1. ~Holds(d, k)
    BY DEF OwnInv
  <2>2. Empty(d)' <=> Empty(d)
    BY DEF Others, Empty, Spared
  <2>3. CASE Empty(d)
    BY <2>2, <2>3, OneNext DEF One
  <2>4. CASE \E j \in Command : Holds(d, j)
    <3>1. PICK j \in Command \ {k} : Holds(d, j)
      BY <2>1, <2>4
    <3> QED BY <3>1, <1>1, <2>2, OneNext DEF One
  <2> QED BY <2>2, <2>3, <2>4 DEF StreamInv
<1>3. ASSUME NEW j \in Command, Holds(c, j)' PROVE j = k
  BY <1>3, OneNext DEF One
<1>4. \A d \in Conn, j \in Command : Holds(d, j)' => Holds(d, j)
  BY <1>1, <1>2, <1>3
<1>5. \A d \in Conn : Empty(d)' \/ \E j \in Command : Holds(d, j)'
  <2> SUFFICES ASSUME NEW d \in Conn \ {c} PROVE Empty(d)' \/ \E j \in Command : Holds(d, j)'
    OBVIOUS
  <2>1. CASE Empty(d)
    BY <1>2, <2>1
  <2>2. CASE \E j \in Command : Holds(d, j)
    BY <1>1, <2>2 DEF OwnInv
  <2> QED BY <2>1, <2>2 DEF StreamInv
<1> QED BY <1>4, <1>5, Kept DEF OwnInv

\* A command is sent on a connection with nothing under way.
LEMMA Sending ==
    ASSUME StreamInv, OwnInv, NEW c \in Conn, NEW k \in Command,
           \A d \in Conn : ~Holds(d, k),
           pc' = [pc EXCEPT ![k] = "reading"], pc \in [Command -> Place],
           conn' = c, conn \in {c, None}, None \notin Conn,
           Empty(c), Holds(c, k)', Others(c), runs' = runs
    PROVE  StreamInv' /\ OwnInv'
<1> HIDE DEF Holds, Empty
<1>1. ASSUME NEW d \in Conn \ {c}, NEW j \in Command
      PROVE  (Empty(d)' <=> Empty(d)) /\ (Holds(d, j)' <=> Holds(d, j))
  BY Frame, Zenon DEF Others
<1>2. ASSUME NEW j \in Command PROVE ~Holds(c, j) /\ (Holds(c, j)' => j = k)
  BY OneNow, OneNext DEF One
<1>3. StreamInv'
  BY <1>1 DEF StreamInv
<1>4. ASSUME NEW d \in Conn, NEW j \in Command, Holds(d, j)'
      PROVE  /\ pc'[j] = IF conn' = d THEN "reading" ELSE "unknown"
             /\ \A e \in Conn : Holds(e, j)' => e = d
  <2>1. CASE j = k
    BY <1>1, <1>4, <2>1
  <2>2. CASE j # k
    BY <1>1, <1>2, <1>4, <2>2 DEF OwnInv
  <2> QED BY <2>1, <2>2
<1> QED BY <1>3, <1>4 DEF OwnInv

-----------------------------------------------------------------------------
(* Steps: which command is under way, and where *)

\* What TypeOK and the assumption say of the variables these lemmas use.
Typed ==
    /\ pc \in [Command -> Place] /\ conn \in Conn \union {None} /\ None \notin Conn
    /\ up \in [Conn -> Seq(Command \union {Fin})] /\ down \in [Conn -> Seq(Command \union {Fin})]
    /\ handler \in [Conn -> Open \union {"none", "closed"}]
    /\ bound \in [Conn -> Command \union {None}] /\ timers \in [Conn -> Nat]
    /\ runs \in [Command -> Nat] /\ got \in [Command -> Command \union {None}]

LEMMA TypedNow == TypeOK => Typed
BY SocketAssumption DEF TypeOK, Typed

\* The stream's head tells whether a command is under way on it.
LEMMA AtHead ==
    ASSUME StreamInv, NEW c \in Conn
    PROVE  /\ First(up[c]) \in Command =>
                 Rising(c, First(up[c])) /\ Head(up[c]) = First(up[c]) /\ Tail(up[c]) \in Bare
           /\ First(down[c]) \in Command =>
                 Falling(c, First(down[c])) /\ Head(down[c]) = First(down[c]) /\ Tail(down[c]) \in Bare
<1>1. ASSUME First(up[c]) \in Command
      PROVE  Rising(c, First(up[c])) /\ Head(up[c]) = First(up[c]) /\ Tail(up[c]) \in Bare
  <2>1. up[c] \notin Bare
    BY <1>1, Heads
  <2>2. PICK k \in Command : Rising(c, k)
    BY <2>1 DEF StreamInv, Empty, Holds, Waiting, Executed, Falling
  <2> QED BY <2>2, Heads DEF Rising
<1>2. ASSUME First(down[c]) \in Command
      PROVE  Falling(c, First(down[c])) /\ Head(down[c]) = First(down[c]) /\ Tail(down[c]) \in Bare
  <2>1. down[c] \notin Bare
    BY <1>2, Heads
  <2>2. PICK k \in Command : Falling(c, k)
    BY <2>1 DEF StreamInv, Empty, Holds, Waiting, Executed, Rising
  <2> QED BY <2>2, Heads DEF Falling
<1> QED BY <1>1, <1>2

\* A registered wrapper and a busy main thread work for the command under way.
LEMMA AtWork ==
    ASSUME StreamInv, NEW c \in Conn
    PROVE  /\ timers[c] # 0 => bound[c] \in Command /\ Waiting(c, bound[c])
           /\ ~Spared(c) => main.cmd \in Command /\ Executed(c, main.cmd)
<1>1. ASSUME timers[c] # 0 PROVE bound[c] \in Command /\ Waiting(c, bound[c])
  BY <1>1 DEF StreamInv, Empty, Holds, Rising, Waiting, Executed, Falling
<1>2. ASSUME ~Spared(c) PROVE main.cmd \in Command /\ Executed(c, main.cmd)
  BY <1>2 DEF StreamInv, Empty, Holds, Rising, Waiting, Executed, Falling
<1> QED BY <1>1, <1>2

\* A call that has not sent has nothing under way.
LEMMA NotSent ==
    ASSUME OwnInv, NEW k \in Command, pc[k] \notin {"reading", "unknown"}
    PROVE  \A d \in Conn : ~Holds(d, k)
BY DEF OwnInv

LEMMA ReceiveTracks ==
    ASSUME Typed, StreamInv, OwnInv, NEW c \in Conn, Receive(c)
    PROVE  StreamInv' /\ OwnInv'
<1>1. PICK k \in Command : Rising(c, k) /\ Head(up[c]) = k /\ Tail(up[c]) \in Bare
  BY AtHead DEF Receive
<1>2. Waiting(c, k)'
  BY <1>1 DEF Receive, Rising, Waiting, Spared, Typed
<1>3. Others(c) /\ runs' = runs /\ pc' = pc /\ conn' = conn
  BY DEF Receive, Others, Spared, clientVars, Typed
<1> QED BY <1>1, <1>2, <1>3, Passed DEF Holds

LEMMA RunTimerTracks ==
    ASSUME Typed, StreamInv, OwnInv, NEW c \in Conn, RunTimer(c)
    PROVE  StreamInv' /\ OwnInv'
<1>1. PICK k \in Command : Waiting(c, k)
  BY AtWork DEF RunTimer, Typed
<1>2. Executed(c, k)'
  BY <1>1 DEF RunTimer, Executed, Waiting, Typed
<1>3. Others(c) /\ pc' = pc /\ conn' = conn /\ \A j \in Command \ {k} : runs'[j] = runs[j]
  <2>1. main = None /\ main' = [conn |-> c, cmd |-> k] /\ bound[c] = k
    BY <1>1 DEF RunTimer, Waiting
  <2>2. \A d \in Conn \ {c} : Spared(d)' /\ Spared(d)
    BY <2>1 DEF Spared
  <2>3. \A d \in Conn : None # [conn |-> d, cmd |-> k]
    BY SocketAssumption DEF Job
  <2> QED BY <2>1, <2>2, <2>3, SocketAssumption DEF RunTimer, Others, clientVars, Typed, Job
<1> QED BY <1>1, <1>2, <1>3, Passed DEF Holds

LEMMA FinishTracks ==
    ASSUME Typed, StreamInv, OwnInv, EndInv, main \in Job, Finish
    PROVE  StreamInv' /\ OwnInv'
<1>1. PICK c \in Conn, k \in Command : Executed(c, k)
  BY AtWork DEF Finish, Spared, Job
<1>2. main.conn = c /\ main.cmd = k /\ main' = None /\ main # None
  BY <1>1 DEF Executed, Finish
<1>3. Spared(c)' /\ Others(c) /\ runs' = runs /\ pc' = pc /\ conn' = conn
  <2>1. \A d \in Conn : Spared(d)' /\ (d # c => Spared(d))
    BY <1>2 DEF Spared
  <2>2. \A d \in Conn, j \in Command : None # [conn |-> d, cmd |-> j]
    BY SocketAssumption DEF Job
  <2>3. \A d \in Conn \ {c}, j \in Command : main # [conn |-> d, cmd |-> j]
    BY <1>2
  <2> QED BY <1>2, <2>1, <2>2, <2>3 DEF Finish, Others, clientVars, addonVars, Typed
<1>4. Falling(c, k)' \/ Empty(c)'
  <2>1. CASE handler[c] \in Open
    <3>1. down[c] # <<Fin>>
      BY <2>1 DEF EndInv, Unended
    <3>2. Append(down[c], k) \in With(k)
      BY <1>1, <3>1, Writes DEF Executed
    <3>3. down'[c] = Append(down[c], k)
      BY <1>2, <2>1 DEF Finish, Typed
    <3> QED BY <1>1, <1>3, <3>2, <3>3 DEF Finish, Executed, Falling, addonVars
  <2>2. CASE handler[c] \notin Open
    BY <1>1, <1>2, <1>3, <2>2 DEF Finish, Executed, Empty, addonVars
  <2> QED BY <2>1, <2>2
<1> QED BY <1>1, <1>3, <1>4, Passed DEF Holds

\* Streams, timers and the main thread rest; only calls that have not sent move.
LEMMA Still ==
    ASSUME StreamInv, OwnInv, UNCHANGED <<up, down, timers, bound, main, runs, conn>>,
           \A k \in Command : pc[k] \in {"reading", "unknown"} => pc'[k] = pc[k]
    PROVE  StreamInv' /\ OwnInv'
<1>1. \A d \in Conn, k \in Command : (Holds(d, k)' <=> Holds(d, k)) /\ (Empty(d)' <=> Empty(d))
  BY Frame, Zenon DEF Spared
<1> HIDE DEF Holds, Empty
<1>2. \A d \in Conn, k \in Command :
        Holds(d, k) => pc[k] \in {"reading", "unknown"} /\ pc[k] = IF conn = d THEN "reading" ELSE "unknown"
  BY DEF OwnInv
<1>3. \A d \in Conn : Empty(d)' \/ \E k \in Command : Holds(d, k)'
  BY <1>1, Frame DEF StreamInv, Empty, Spared
<1> QED BY <1>1, <1>2, <1>3, Kept

\* One connection changes, and what was under way on it stays or is lost.
LEMMA Stayed ==
    ASSUME StreamInv, OwnInv, pc' = pc, conn' = conn, NEW c \in Conn,
           Empty(c) => Empty(c)',
           \A k \in Command : Holds(c, k) => Holds(c, k)' \/ Empty(c)',
           Others(c), runs' = runs
    PROVE  StreamInv' /\ OwnInv'
<1> HIDE DEF Holds, Empty
<1>1. CASE \E k \in Command : Holds(c, k)
  BY <1>1, Passed
<1>2. CASE Empty(c)
  <2>1. ASSUME NEW d \in Conn \ {c}, NEW j \in Command
        PROVE  (Empty(d)' <=> Empty(d)) /\ (Holds(d, j)' <=> Holds(d, j))
    BY Frame, Zenon DEF Others
  <2>2. ASSUME NEW j \in Command PROVE ~Holds(c, j)'
    BY <1>2, OneNext DEF One
  <2>3. \A d \in Conn \ {c} : Empty(d)' <=> Empty(d)
    BY DEF Others, Empty, Spared
  <2> QED BY <1>2, <2>1, <2>2, <2>3, Kept DEF StreamInv, OwnInv
<1> QED BY <1>1, <1>2 DEF StreamInv

\* The client leaves its connection to nobody.
LEMMA LeavesIt ==
    ASSUME Typed, StreamInv, OwnInv, EndInv, Disconnect, UNCHANGED <<down, timers, bound, main, runs>>,
           \A k \in Command : pc[k] \in {"reading", "unknown"} => pc'[k] = "unknown"
    PROVE  StreamInv' /\ OwnInv'
<1>1. ASSUME NEW d \in Conn
      PROVE  /\ up[d] \in Bare => up'[d] \in Bare
             /\ \A k \in Command : up[d] \in With(k) => up'[d] \in With(k)
  <2>1. CASE d = conn
    <3>1. up'[d] = Append(up[d], Fin)
      BY <2>1 DEF Disconnect
    <3>2. up[d] # <<Fin>> /\ \A k \in Command : up[d] # <<k, Fin>>
      BY <2>1 DEF EndInv, Unended
    <3>3. up[d] \in Bare => up'[d] \in Bare
      BY <2>1, <3>1, <3>2, Closing
    <3>4. ASSUME NEW k \in Command, up[d] \in With(k) PROVE up'[d] \in With(k)
      <4>1. Append(up[d], Fin) \in With(k)
        BY <3>2, <3>4, Writes
      <4> QED BY <3>1, <4>1
    <3> QED BY <3>3, <3>4
  <2>2. CASE d # conn
    BY <2>2 DEF Disconnect
  <2> QED BY <2>1, <2>2
<1>2. ASSUME NEW d \in Conn, NEW k \in Command PROVE Holds(d, k) => Holds(d, k)'
  BY <1>1 DEF Holds, Rising, Waiting, Executed, Falling, Spared
<1>3. ASSUME NEW d \in Conn PROVE Empty(d) => Empty(d)'
  BY <1>1 DEF Empty, Spared
<1> HIDE DEF Holds, Empty
<1>4. ASSUME NEW d \in Conn, NEW k \in Command, Holds(d, k)' PROVE Holds(d, k)
  BY <1>2, <1>3, <1>4, OneNext DEF StreamInv, One
<1>5. \A d \in Conn, k \in Command : Holds(d, k) => pc'[k] = "unknown" /\ conn' # d
  BY DEF OwnInv, Disconnect, Typed
<1> QED BY <1>2, <1>3, <1>4, <1>5, Kept DEF StreamInv

LEMMA HandlerEndsTracks ==
    ASSUME Typed, StreamInv, OwnInv, EndInv, NEW c \in Conn, HandlerEnds(c)
    PROVE  StreamInv' /\ OwnInv'
<1>1. up'[c] = <<>> /\ down'[c] = Append(down[c], Fin) /\ timers' = timers /\ bound' = bound
      /\ main' = main /\ runs' = runs /\ pc' = pc /\ conn' = conn
  BY DEF HandlerEnds, Typed, clientVars
<1>2. down[c] # <<Fin>> /\ \A k \in Command : down[c] # <<k, Fin>>
  BY DEF HandlerEnds, Open, Reading, EndInv, Unended
<1>3. Others(c)
  BY <1>1 DEF HandlerEnds, Typed, Others, Spared
<1>4. down[c] \in Bare => down'[c] \in Bare
  BY <1>1, <1>2, Closing
<1>5. Spared(c)' <=> Spared(c)
  BY <1>1 DEF Spared
<1>6. Empty(c) => Empty(c)'
  BY <1>1, <1>4, <1>5 DEF Empty, Bare
<1>7. ASSUME NEW k \in Command, Holds(c, k) PROVE Holds(c, k)' \/ Empty(c)'
  <2>1. CASE Rising(c, k)
    BY <1>1, <1>4, <1>5, <2>1 DEF Rising, Empty, Bare
  <2>2. CASE Waiting(c, k)
    BY <1>1, <1>4, <1>5, <2>2 DEF Waiting, Holds, Bare
  <2>3. CASE Executed(c, k)
    BY <1>1, <1>4, <2>3 DEF Executed, Holds, Bare
  <2>4. CASE Falling(c, k)
    <3>1. down'[c] \in With(k)
      BY <1>1, <1>2, <2>4, Writes DEF Falling
    <3> QED BY <1>1, <1>5, <2>4, <3>1 DEF Falling, Holds, Bare
  <2> QED BY <1>7, <2>1, <2>2, <2>3, <2>4 DEF Holds
<1> QED BY <1>1, <1>3, <1>6, <1>7, Stayed

LEMMA FinArrivesTracks ==
    ASSUME Typed, StreamInv, OwnInv, FinArrives
    PROVE  StreamInv' /\ OwnInv'
<1>1. conn \in Conn
  BY DEF FinArrives, Typed
<1>2. down[conn] \in Bare /\ Tail(down[conn]) = <<>>
  <2>1. \A k \in Command : down[conn] \notin With(k)
    BY Heads DEF FinArrives
  <2>2. down[conn] \in Bare
    BY <1>1, <2>1 DEF StreamInv, Empty, Holds, Rising, Waiting, Executed, Falling
  <2>3. down[conn] # <<>>
    BY SocketAssumption DEF FinArrives, First
  <2> QED BY <2>2, <2>3, Closing
<1>3. down'[conn] = <<>> /\ \A d \in Conn \ {conn} : down'[d] = down[d]
  BY <1>1, <1>2 DEF FinArrives, Typed
<1>4. UNCHANGED <<up, timers, bound, main, runs, pc, conn>>
  BY DEF FinArrives, addonVars
<1>5. \A k \in Command : down[conn] \notin With(k)
  BY <1>2, Heads
<1>6. PICK e \in Conn : e = conn
  BY <1>1
<1>7. Others(e)
  BY <1>3, <1>4, <1>6 DEF Others, Spared
<1>8. Empty(e) => Empty(e)'
  BY <1>3, <1>4, <1>6 DEF Empty, Spared, Bare
<1>9. ASSUME NEW k \in Command, Holds(e, k) PROVE Holds(e, k)'
  BY <1>3, <1>4, <1>5, <1>6, <1>9 DEF Holds, Rising, Waiting, Executed, Falling, Spared, Bare
<1> QED BY <1>4, <1>7, <1>8, <1>9, Stayed

LEMMA BlenderDiesTracks ==
    ASSUME Typed, StreamInv, OwnInv, EndInv, BlenderDies
    PROVE  StreamInv' /\ OwnInv'
<1>1. UNCHANGED <<pc, conn, runs>> /\ \A d \in Conn : Spared(d)' /\ timers'[d] = 0
  BY DEF BlenderDies, clientVars, Spared
<1>2. PICK lost \in BOOLEAN :
          down' = [c \in Conn |-> IF handler[c] \in Open
                                  THEN Append(IF lost THEN <<>> ELSE down[c], Fin)
                                  ELSE down[c]]
  BY DEF BlenderDies
<1>3. ASSUME NEW d \in Conn
      PROVE  /\ Empty(d) => Empty(d)'
             /\ \A k \in Command : Holds(d, k) => Empty(d)' \/ Holds(d, k)'
  <2>1. CASE handler[d] \in Open
    <3>1. up'[d] = <<>>
      BY <2>1 DEF BlenderDies
    <3>2. down'[d] = <<Fin>> \/ down'[d] = Append(down[d], Fin)
      <4>1. Append(<<>>, Fin) = <<Fin>>
        BY Closing DEF Bare
      <4>2. down'[d] = Append(IF lost THEN <<>> ELSE down[d], Fin)
        BY <1>2, <2>1
      <4> QED BY <4>1, <4>2
    <3>3. down[d] # <<Fin>> /\ \A k \in Command : down[d] # <<k, Fin>>
      BY <2>1 DEF EndInv, Unended
    <3>4. up'[d] \in Bare
      BY <3>1 DEF Bare
    <3>5. down[d] \in Bare => down'[d] \in Bare
      BY <3>2, <3>3, Closing DEF Bare
    <3>6. ASSUME NEW k \in Command, Falling(d, k) PROVE Empty(d)' \/ Falling(d, k)'
      <4>1. CASE down'[d] = <<Fin>>
        BY <1>1, <3>4, <4>1 DEF Empty, Bare
      <4>2. CASE down'[d] = Append(down[d], Fin)
        <5>1. Append(down[d], Fin) \in With(k)
          BY <3>3, <3>6, Writes DEF Falling
        <5> QED BY <1>1, <3>4, <3>6, <4>2, <5>1 DEF Falling
      <4> QED BY <3>2, <4>1, <4>2
    <3> QED BY <1>1, <3>4, <3>5, <3>6 DEF Empty, Holds, Rising, Waiting, Executed
  <2>2. CASE handler[d] \notin Open
    <3>1. up'[d] = up[d]
      BY <2>2 DEF BlenderDies
    <3>2. down'[d] = down[d]
      BY <1>2, <2>2
    <3> QED BY <1>1, <3>1, <3>2 DEF Empty, Holds, Rising, Waiting, Executed, Falling
  <2> QED BY <2>1, <2>2
<1> HIDE DEF Holds, Empty
<1>4. ASSUME NEW d \in Conn, NEW k \in Command, Holds(d, k)' PROVE Holds(d, k)
  BY <1>3, <1>4, OneNext DEF StreamInv, One
<1> QED BY <1>1, <1>3, <1>4, Kept DEF StreamInv, OwnInv

LEMMA ReadReplyTracks ==
    ASSUME Typed, StreamInv, OwnInv, LockInv, NEW k \in Command, ReadReply(k)
    PROVE  StreamInv' /\ OwnInv' /\ got'[k] = k /\ runs[k] = 1
<1>1. PICK c \in Conn : c = conn
  BY DEF LockInv, ReadReply, Typed
<1>2. PICK j \in Command : Falling(c, j) /\ Head(down[c]) = j /\ Tail(down[c]) \in Bare
  BY <1>1, AtHead DEF ReadReply
<1>3. j = k
  BY <1>1, <1>2 DEF OwnInv, Holds, LockInv, ReadReply
<1>4. Empty(c)' /\ Others(c) /\ runs' = runs /\ conn' = conn
  BY <1>1, <1>2 DEF ReadReply, Typed, Empty, Falling, Others, Spared, addonVars
<1> HIDE DEF Holds, Empty
<1>5. ASSUME NEW d \in Conn \ {c}, NEW i \in Command
      PROVE  (Empty(d)' <=> Empty(d)) /\ (Holds(d, i)' <=> Holds(d, i))
  BY <1>4, Frame, Zenon DEF Others
<1>6. \A i \in Command : ~Holds(c, i)'
  BY <1>4, OneNext DEF One
<1>7. \A d \in Conn \ {c}, i \in Command : Holds(d, i) => i # k
  BY <1>2, <1>3 DEF OwnInv, Holds
<1>8. \A i \in Command \ {k} : pc'[i] = pc[i]
  BY DEF ReadReply, Ends, Typed
<1>9. StreamInv' /\ OwnInv'
  <2>1. \A d \in Conn, i \in Command : Holds(d, i)' =>
            Holds(d, i) /\ pc'[i] = IF conn' = d THEN "reading" ELSE "unknown"
    BY <1>4, <1>5, <1>6, <1>7, <1>8 DEF OwnInv
  <2>2. \A d \in Conn : Empty(d)' \/ \E i \in Command : Holds(d, i)'
    <3> SUFFICES ASSUME NEW d \in Conn \ {c} PROVE Empty(d)' \/ \E i \in Command : Holds(d, i)'
      BY <1>4
    <3> QED BY <1>5, <1>2 DEF StreamInv
  <2> QED BY <2>1, <2>2, Kept
<1>10. got'[k] = k /\ runs[k] = 1
  <2>1. got' = [got EXCEPT ![k] = Head(down[conn])]
    BY DEF ReadReply
  <2>2. Head(down[conn]) = k /\ runs[k] = 1
    BY <1>1, <1>2, <1>3 DEF Falling
  <2> QED BY <2>1, <2>2 DEF Typed
<1> QED BY <1>9, <1>10

LEMMA DialTracks ==
    ASSUME Typed, StreamInv, OwnInv, LockInv, EndInv, RunInv,
           NEW k \in Command, NEW c \in Conn, Dial(k, c)
    PROVE  StreamInv' /\ OwnInv'
<1>1. \A d \in Conn : ~Holds(d, k)
  BY NotSent DEF Dial
<1>2. Empty(c) /\ conn = None
  BY DEF Dial, EndInv, LockInv, Empty, Bare
<1>3. runs[k] = 0
  BY DEF Dial, RunInv, Sent
<1>4. Rising(c, k)'
  BY <1>2, <1>3 DEF Dial, Empty, Rising, Spared, With, Typed
<1>5. Others(c)
  BY DEF Dial, Others, Spared, Typed
<1>6. pc' = [pc EXCEPT ![k] = "reading"] /\ conn' = c /\ runs' = runs
  BY DEF Dial
<1> QED BY <1>1, <1>2, <1>4, <1>5, <1>6, Sending DEF Holds, Typed

LEMMA AcquireTracks ==
    ASSUME Typed, StreamInv, OwnInv, LockInv, EndInv, RunInv, NEW k \in Command, Acquire(k)
    PROVE  StreamInv' /\ OwnInv'
<1>1. \A d \in Conn : ~Holds(d, k)
  BY NotSent DEF Acquire
<1>2. \A j \in Command : pc[j] # "reading"
  BY SocketAssumption DEF Acquire, LockInv
<1>3. CASE IsConnected /\ pc' = [pc EXCEPT ![k] = "reading"] /\ up' = [up EXCEPT ![conn] = Append(@, k)]
           /\ conn' = conn
  <2>1. PICK c \in Conn : c = conn
    BY <1>3 DEF IsConnected, Typed
  <2>2. Empty(c)
    BY <1>2, <2>1 DEF StreamInv, OwnInv
  <2>3. runs[k] = 0
    BY DEF Acquire, RunInv, Sent
  <2>4. up[c] = <<>>
    BY <2>1, <2>2 DEF Empty, Bare, EndInv, Unended
  <2>5. up'[c] = <<k>>
    BY <1>3, <2>1, <2>4 DEF Typed
  <2>6. UNCHANGED <<down, timers, bound, main, runs>>
    BY DEF Acquire, addonVars
  <2>7. Rising(c, k)'
    BY <2>2, <2>3, <2>5, <2>6 DEF Empty, Rising, Spared, With
  <2>8. Others(c)
    BY <1>3, <2>1, <2>6 DEF Others, Spared, Typed
  <2> QED BY <1>1, <1>3, <2>1, <2>2, <2>6, <2>7, <2>8, Sending DEF Holds, Typed
<1>4. CASE pc' = [pc EXCEPT ![k] = "dialing"] /\ Disconnect
  <2>1. \A j \in Command : pc[j] \in {"reading", "unknown"} => pc'[j] = "unknown"
    BY <1>2, <1>4 DEF Acquire, Typed
  <2>2. UNCHANGED <<down, timers, bound, main, runs>>
    BY DEF Acquire, addonVars
  <2> QED BY <1>4, <2>1, <2>2, LeavesIt
<1> QED BY <1>3, <1>4 DEF Acquire

-----------------------------------------------------------------------------
(* The inductive invariant *)

\* Each step of Next, by the actor that takes it.
LEMMA NextCases ==
    ASSUME [Next]_vars, NEW P,
           ASSUME NEW k \in Command, Call(k) \/ DialFails(k) \/ Dropped(k) PROVE P,
           ASSUME NEW k \in Command, Acquire(k) PROVE P,
           ASSUME NEW k \in Command, NEW c \in Conn, Dial(k, c) PROVE P,
           ASSUME NEW k \in Command, ReadReply(k) PROVE P,
           ASSUME NEW k \in Command, ReadEof(k) \/ GivesUp(k) PROVE P,
           ASSUME FinArrives PROVE P,
           ASSUME NEW c \in Conn, LoopAgain(c) PROVE P,
           ASSUME NEW c \in Conn, Receive(c) PROVE P,
           ASSUME NEW c \in Conn, HandlerEnds(c) PROVE P,
           ASSUME NEW c \in Conn, RunTimer(c) PROVE P,
           ASSUME Finish PROVE P,
           ASSUME AddonStops \/ AddonStarts PROVE P,
           ASSUME BlenderDies PROVE P,
           ASSUME UNCHANGED vars PROVE P
    PROVE  P
BY Zenon DEF Next, Client, Handler, MainThread

LEMMA TrackStep == IInv /\ [Next]_vars => StreamInv' /\ OwnInv'
<1> SUFFICES ASSUME IInv, [Next]_vars PROVE StreamInv' /\ OwnInv'
  OBVIOUS
<1> USE DEF IInv
<1> HIDE DEF StreamInv, OwnInv
<1>0. Typed
  BY TypedNow
<1>1. ASSUME NEW k \in Command, Call(k) \/ DialFails(k) \/ Dropped(k) PROVE StreamInv' /\ OwnInv'
  <2>1. UNCHANGED <<up, down, timers, bound, main, runs, conn>>
    BY <1>1 DEF Call, DialFails, Dropped, addonVars
  <2>2. \A j \in Command : pc[j] \in {"reading", "unknown"} => pc'[j] = pc[j]
    BY <1>0, <1>1 DEF Call, DialFails, Dropped, Ends, Typed
  <2> QED BY <2>1, <2>2, Still
<1>2. ASSUME NEW k \in Command, Acquire(k) PROVE StreamInv' /\ OwnInv'
  BY <1>0, <1>2, AcquireTracks
<1>3. ASSUME NEW k \in Command, NEW c \in Conn, Dial(k, c) PROVE StreamInv' /\ OwnInv'
  BY <1>0, <1>3, DialTracks
<1>4. ASSUME NEW k \in Command, ReadReply(k) PROVE StreamInv' /\ OwnInv'
  BY <1>0, <1>4, ReadReplyTracks
<1>5. ASSUME NEW k \in Command, ReadEof(k) \/ GivesUp(k) PROVE StreamInv' /\ OwnInv'
  <2>1. UNCHANGED <<down, timers, bound, main, runs>> /\ Disconnect
    BY <1>5 DEF ReadEof, GivesUp, addonVars
  <2>2. pc[k] = "reading" /\ pc' = [pc EXCEPT ![k] = "unknown"]
    BY <1>5 DEF ReadEof, GivesUp, Ends
  <2>3. \A j \in Command : pc[j] = "reading" => j = k
    BY <2>2 DEF LockInv
  <2>4. \A j \in Command : pc[j] \in {"reading", "unknown"} => pc'[j] = "unknown"
    BY <1>0, <2>2, <2>3 DEF Typed
  <2> QED BY <1>0, <2>1, <2>4, LeavesIt
<1>6. ASSUME FinArrives PROVE StreamInv' /\ OwnInv'
  BY <1>0, <1>6, FinArrivesTracks
<1>7. ASSUME NEW c \in Conn, LoopAgain(c) PROVE StreamInv' /\ OwnInv'
  BY <1>7, Still DEF LoopAgain, clientVars
<1>8. ASSUME NEW c \in Conn, Receive(c) PROVE StreamInv' /\ OwnInv'
  BY <1>0, <1>8, ReceiveTracks
<1>9. ASSUME NEW c \in Conn, HandlerEnds(c) PROVE StreamInv' /\ OwnInv'
  BY <1>0, <1>9, HandlerEndsTracks
<1>10. ASSUME NEW c \in Conn, RunTimer(c) PROVE StreamInv' /\ OwnInv'
  BY <1>0, <1>10, RunTimerTracks
<1>11. ASSUME Finish PROVE StreamInv' /\ OwnInv'
  BY <1>0, <1>11, FinishTracks DEF Finish, TypeOK
<1>12. ASSUME AddonStops \/ AddonStarts PROVE StreamInv' /\ OwnInv'
  BY <1>12, Still DEF AddonStops, AddonStarts, clientVars
<1>13. ASSUME BlenderDies PROVE StreamInv' /\ OwnInv'
  BY <1>0, <1>13, BlenderDiesTracks
<1>14. ASSUME UNCHANGED vars PROVE StreamInv' /\ OwnInv'
  BY <1>14, Still DEF vars, clientVars, addonVars
<1> HIDE DEF IInv
<1> QED BY <1>1, <1>2, <1>3, <1>4, <1>5, <1>6, <1>7, <1>8, <1>9, <1>10, <1>11, <1>12, <1>13, <1>14,
           NextCases, Zenon

LEMMA Streams ==
    ASSUME NEW s \in Seq(Command \union {Fin})
    PROVE  /\ \A x \in Command \union {Fin} : Append(s, x) \in Seq(Command \union {Fin})
           /\ s # <<>> => Head(s) \in Command \union {Fin} /\ Tail(s) \in Seq(Command \union {Fin})
           /\ \A x \in Command \union {Fin} : <<x>> \in Seq(Command \union {Fin})
           /\ <<>> \in Seq(Command \union {Fin})
OBVIOUS

LEMMA TypeStep == TypeOK /\ StreamInv /\ [Next]_vars => TypeOK'
<1> SUFFICES ASSUME TypeOK, StreamInv, [Next]_vars PROVE TypeOK'
  OBVIOUS
<1> DEFINE Flow == [Conn -> Seq(Command \union {Fin})]
<1>0. up \in Flow /\ down \in Flow /\ \A c \in Conn : up[c] \in Seq(Command \union {Fin})
                                                  /\ down[c] \in Seq(Command \union {Fin})
  BY DEF TypeOK
<1> HIDE DEF Flow
<1> USE DEF TypeOK
<1>1. ASSUME NEW k \in Command, Call(k) \/ DialFails(k) \/ Dropped(k) PROVE TypeOK'
  BY <1>1 DEF Call, DialFails, Dropped, Ends, addonVars, Place, Sent
<1>a. ASSUME Disconnect PROVE up' \in Flow /\ conn' = None /\ eof' = FALSE
  BY <1>0, <1>a, Streams DEF Disconnect, Flow
<1>2. ASSUME NEW k \in Command, Acquire(k) PROVE TypeOK'
  <2>1. up' \in Flow /\ conn' \in Conn \union {None} /\ eof' \in BOOLEAN
    <3>1. CASE IsConnected /\ up' = [up EXCEPT ![conn] = Append(@, k)] /\ UNCHANGED <<conn, eof>>
      BY <1>0, <3>1, Streams DEF Flow, IsConnected
    <3>2. CASE Disconnect
      BY <1>a, <3>2
    <3> QED BY <1>2, <3>1, <3>2 DEF Acquire
  <2>2. pc' \in [Command -> Place] /\ lock' \in Command
    BY <1>2 DEF Acquire, Place, Sent
  <2> QED BY <1>2, <2>1, <2>2 DEF Acquire, addonVars, Flow
<1>3. ASSUME NEW k \in Command, NEW c \in Conn, Dial(k, c) PROVE TypeOK'
  <2>1. up' \in Flow
    BY <1>0, <1>3, Streams DEF Dial, Flow
  <2> QED BY <1>3, <2>1 DEF Dial, Flow, Place, Sent, Open, Reading
<1>4. ASSUME NEW k \in Command, ReadReply(k) PROVE TypeOK'
  <2>1. down[conn] # <<>> /\ Head(down[conn]) \in Command
    BY <1>4, SocketAssumption DEF ReadReply, First
  <2>2. down' \in Flow
    BY <1>0, <1>4, <2>1, Streams DEF ReadReply, Flow
  <2> QED BY <1>4, <2>1, <2>2 DEF ReadReply, Ends, addonVars, Flow, Place, Sent
<1>5. ASSUME NEW k \in Command, ReadEof(k) \/ GivesUp(k) PROVE TypeOK'
  <2>1. up' \in Flow /\ conn' = None /\ eof' = FALSE
    BY <1>5, <1>a DEF ReadEof, GivesUp
  <2> QED BY <1>5, <2>1 DEF ReadEof, GivesUp, Ends, addonVars, Flow, Place, Sent
<1>6. ASSUME FinArrives PROVE TypeOK'
  <2>1. conn \in Conn /\ down[conn] # <<>>
    BY <1>6, SocketAssumption DEF FinArrives, First
  <2>2. down' \in Flow
    BY <1>0, <1>6, <2>1, Streams DEF FinArrives, Flow
  <2> QED BY <1>6, <2>2 DEF FinArrives, addonVars, Flow
<1>7. ASSUME NEW c \in Conn, LoopAgain(c) PROVE TypeOK'
  BY <1>7 DEF LoopAgain, clientVars, Open, Reading
<1>8. ASSUME NEW c \in Conn, Receive(c) PROVE TypeOK'
  <2>1. up[c] # <<>> /\ Head(up[c]) \in Command
    BY <1>8, SocketAssumption DEF Receive, First
  <2>2. up' \in Flow
    BY <1>0, <1>8, <2>1, Streams DEF Receive, Flow
  <2>3. /\ bound' \in [Conn -> Command \union {None}] /\ timers' \in [Conn -> Nat]
        /\ handler' \in [Conn -> Open \union {"none", "closed"}]
    BY <1>8, <2>1 DEF Receive, Open, Reading
  <2> QED BY <1>8, <2>2, <2>3 DEF Receive, clientVars, Flow
<1>9. ASSUME NEW c \in Conn, HandlerEnds(c) PROVE TypeOK'
  <2>1. up' \in Flow /\ down' \in Flow
    BY <1>0, <1>9, Streams DEF HandlerEnds, Flow
  <2> QED BY <1>9, <2>1 DEF HandlerEnds, clientVars, Flow
<1>10. ASSUME NEW c \in Conn, RunTimer(c) PROVE TypeOK'
  <2>1. bound[c] \in Command
    BY <1>10, AtWork DEF RunTimer
  <2> QED BY <1>10, <2>1 DEF RunTimer, clientVars, Job
<1>11. ASSUME Finish PROVE TypeOK'
  <2>1. main.conn \in Conn /\ main.cmd \in Command
    BY <1>11 DEF Finish, Job
  <2>2. down' \in Flow
    BY <1>0, <1>11, <2>1, Streams DEF Finish, Flow
  <2> QED BY <1>11, <2>2 DEF Finish, clientVars, addonVars, Flow
<1>12. ASSUME AddonStops \/ AddonStarts PROVE TypeOK'
  <2>1. CASE AddonStops
    <3>1. handler' \in [Conn -> Open \union {"none", "closed"}]
      BY <2>1 DEF AddonStops, Open, Reading
    <3>2. server' = FALSE /\ faults' = faults + 1
      BY <2>1 DEF AddonStops
    <3>3. UNCHANGED <<pc, lock, conn, eof, got, up, down, bound, timers, main, runs>>
      BY <2>1 DEF AddonStops, clientVars
    <3>4. faults' \in Nat
      BY <3>2
    <3> HIDE DEF Open
    <3> QED BY <3>1, <3>2, <3>3, <3>4
  <2>2. CASE AddonStarts
    BY <2>2 DEF AddonStarts, clientVars
  <2> QED BY <1>12, <2>1, <2>2
<1>13. ASSUME BlenderDies PROVE TypeOK'
  <2>1. up' \in Flow
    BY <1>0, <1>13, Streams DEF BlenderDies, Flow
  <2>2. down' \in Flow
    <3>1. PICK lost \in BOOLEAN :
              down' = [c \in Conn |-> IF handler[c] \in Open
                                      THEN Append(IF lost THEN <<>> ELSE down[c], Fin)
                                      ELSE down[c]]
      BY <1>13 DEF BlenderDies
    <3> QED BY <1>0, <3>1, Streams DEF Flow
  <2>3. handler' \in [Conn -> Open \union {"none", "closed"}]
    BY <1>13 DEF BlenderDies
  <2>4. server' = FALSE /\ faults' = faults + 1 /\ timers' = [c \in Conn |-> 0] /\ main' = None
    BY <1>13 DEF BlenderDies
  <2>5. UNCHANGED <<pc, lock, conn, eof, got, bound, runs>>
    BY <1>13 DEF BlenderDies, clientVars
  <2>6. faults' \in Nat /\ timers' \in [Conn -> Nat]
    BY <2>4
  <2> QED BY <2>1, <2>2, <2>3, <2>4, <2>5, <2>6 DEF Flow
<1>14. ASSUME UNCHANGED vars PROVE TypeOK'
  BY <1>14 DEF vars, clientVars, addonVars
<1> HIDE DEF TypeOK
<1> QED BY <1>1, <1>2, <1>3, <1>4, <1>5, <1>6, <1>7, <1>8, <1>9, <1>10, <1>11, <1>12, <1>13, <1>14,
           NextCases, Zenon

LEMMA LockStep == TypeOK /\ LockInv /\ [Next]_vars => LockInv'
<1> SUFFICES ASSUME TypeOK, LockInv, [Next]_vars PROVE LockInv'
  OBVIOUS
<1>0. Typed /\ None \notin Command
  BY TypedNow, SocketAssumption
<1> USE DEF LockInv, Typed
<1>1. ASSUME NEW k \in Command, Call(k) \/ DialFails(k) \/ Dropped(k) PROVE LockInv'
  BY <1>0, <1>1 DEF Call, DialFails, Dropped, Ends
<1>2. ASSUME NEW k \in Command, Acquire(k) PROVE LockInv'
  BY <1>0, <1>2 DEF Acquire, IsConnected, Disconnect
<1>3. ASSUME NEW k \in Command, NEW c \in Conn, Dial(k, c) PROVE LockInv'
  BY <1>0, <1>3 DEF Dial
<1>4. ASSUME NEW k \in Command, ReadReply(k) PROVE LockInv'
  BY <1>0, <1>4 DEF ReadReply, Ends
<1>5. ASSUME NEW k \in Command, ReadEof(k) \/ GivesUp(k) PROVE LockInv'
  <2>1. pc[k] = "reading" /\ pc' = [pc EXCEPT ![k] = "unknown"] /\ lock' = None
    BY <1>5 DEF ReadEof, GivesUp, Ends
  <2>2. conn' = None /\ eof' = FALSE
    BY <1>5 DEF ReadEof, GivesUp, Disconnect
  <2> QED BY <1>0, <2>1, <2>2
<1>6. ASSUME FinArrives PROVE LockInv'
  BY <1>6 DEF FinArrives
<1>7. ASSUME UNCHANGED clientVars PROVE LockInv'
  BY <1>7 DEF clientVars
<1> HIDE DEF LockInv, Typed
<1>8. ASSUME NEW c \in Conn, LoopAgain(c) PROVE LockInv'
  BY <1>7, <1>8 DEF LoopAgain
<1>9. ASSUME NEW c \in Conn, Receive(c) PROVE LockInv'
  BY <1>7, <1>9 DEF Receive
<1>10. ASSUME NEW c \in Conn, HandlerEnds(c) PROVE LockInv'
  BY <1>7, <1>10 DEF HandlerEnds
<1>11. ASSUME NEW c \in Conn, RunTimer(c) PROVE LockInv'
  BY <1>7, <1>11 DEF RunTimer
<1>12. ASSUME Finish PROVE LockInv'
  BY <1>7, <1>12 DEF Finish
<1>13. ASSUME AddonStops \/ AddonStarts PROVE LockInv'
  BY <1>7, <1>13 DEF AddonStops, AddonStarts
<1>14. ASSUME BlenderDies PROVE LockInv'
  BY <1>7, <1>14 DEF BlenderDies
<1>15. ASSUME UNCHANGED vars PROVE LockInv'
  BY <1>7, <1>15 DEF vars
<1> QED BY <1>1, <1>2, <1>3, <1>4, <1>5, <1>6, <1>8, <1>9, <1>10, <1>11, <1>12, <1>13, <1>14, <1>15,
           NextCases, Zenon

LEMMA RunStep == IInv /\ [Next]_vars => RunInv'
<1> SUFFICES ASSUME IInv, [Next]_vars PROVE RunInv'
  OBVIOUS
<1>0. Typed /\ RunInv /\ LockInv /\ StreamInv /\ OwnInv
  BY TypedNow DEF IInv
<1> USE DEF RunInv, Typed, Sent
<1>1. ASSUME NEW k \in Command, Call(k) \/ DialFails(k) \/ Dropped(k) PROVE RunInv'
  BY <1>0, <1>1 DEF Call, DialFails, Dropped, Ends
<1>2. ASSUME NEW k \in Command, Acquire(k) PROVE RunInv'
  BY <1>0, <1>2 DEF Acquire
<1>3. ASSUME NEW k \in Command, NEW c \in Conn, Dial(k, c) PROVE RunInv'
  BY <1>0, <1>3 DEF Dial
<1>4. ASSUME NEW k \in Command, ReadReply(k) PROVE RunInv'
  <2>1. got'[k] = k /\ runs[k] = 1
    BY <1>0, <1>4, ReadReplyTracks
  <2>2. /\ pc' = [pc EXCEPT ![k] = "answered"] /\ runs' = runs
        /\ \A j \in Command \ {k} : got'[j] = got[j]
    BY <1>0, <1>4 DEF ReadReply, Ends
  <2> QED BY <1>0, <2>1, <2>2
<1>5. ASSUME NEW k \in Command, ReadEof(k) \/ GivesUp(k) PROVE RunInv'
  BY <1>0, <1>5 DEF ReadEof, GivesUp, Ends
<1>7. ASSUME UNCHANGED <<pc, got, runs>> PROVE RunInv'
  BY <1>0, <1>7
<1>11. ASSUME NEW c \in Conn, RunTimer(c) PROVE RunInv'
  <2>1. PICK k \in Command : Waiting(c, k)
    BY <1>0, <1>11, AtWork DEF RunTimer
  <2>2. pc[k] \in {"reading", "unknown"}
    BY <1>0, <2>1 DEF OwnInv, Holds
  <2>3. runs' = [runs EXCEPT ![k] = @ + 1] /\ UNCHANGED <<pc, got>>
    BY <1>11, <2>1 DEF RunTimer, Waiting, clientVars
  <2> QED BY <1>0, <2>2, <2>3
<1> HIDE DEF RunInv, Typed, Sent
<1>6. ASSUME FinArrives PROVE RunInv'
  BY <1>7, <1>6 DEF FinArrives
<1>8. ASSUME NEW c \in Conn, LoopAgain(c) PROVE RunInv'
  BY <1>7, <1>8 DEF LoopAgain, clientVars
<1>9. ASSUME NEW c \in Conn, Receive(c) PROVE RunInv'
  BY <1>7, <1>9 DEF Receive, clientVars
<1>10. ASSUME NEW c \in Conn, HandlerEnds(c) PROVE RunInv'
  BY <1>7, <1>10 DEF HandlerEnds, clientVars
<1>12. ASSUME Finish PROVE RunInv'
  BY <1>7, <1>12 DEF Finish, clientVars
<1>13. ASSUME AddonStops \/ AddonStarts PROVE RunInv'
  BY <1>7, <1>13 DEF AddonStops, AddonStarts, clientVars
<1>14. ASSUME BlenderDies PROVE RunInv'
  BY <1>7, <1>14 DEF BlenderDies, clientVars
<1>15. ASSUME UNCHANGED vars PROVE RunInv'
  BY <1>7, <1>15 DEF vars, clientVars
<1> QED BY <1>1, <1>2, <1>3, <1>4, <1>5, <1>6, <1>8, <1>9, <1>10, <1>11, <1>12, <1>13, <1>14, <1>15,
           NextCases, Zenon

\* Streams that have not ended.
LEMMA UnendedStreams == Unended(<<>>) /\ \A k \in Command : Unended(<<k>>)
BY SocketAssumption DEF Unended

LEMMA UnendedIs ==
    ASSUME NEW s, Unended(s)
    PROVE  /\ s \in Bare => s = <<>>
           /\ \A k \in Command : s \in With(k) => s = <<k>> /\ Tail(s) = <<>>
<1>1. ASSUME NEW k \in Command, s \in With(k) PROVE s = <<k>> /\ Tail(s) = <<>>
  <2>1. s = <<k>>
    BY <1>1 DEF Unended, With
  <2> QED BY <2>1
<1> QED BY <1>1 DEF Unended, Bare

LEMMA EndStep == IInv /\ [Next]_vars => EndInv'
<1> SUFFICES ASSUME IInv, [Next]_vars PROVE EndInv'
  OBVIOUS
<1>0. Typed /\ EndInv /\ LockInv /\ StreamInv /\ OwnInv
  BY TypedNow DEF IInv
<1>e. \A c \in Conn :
        /\ c = conn => Unended(up[c])
        /\ handler[c] \in Open => Unended(down[c])
        /\ handler[c] = "none" => c # conn /\ up[c] = <<>> /\ down[c] = <<>> /\ timers[c] = 0 /\ Spared(c)
  BY <1>0 DEF EndInv
<1>n. "none" \notin Open /\ "closed" \notin Open /\ "check" # "none"
  BY DEF Open, Reading
<1>s. ASSUME UNCHANGED <<up, down, timers, main, handler, conn>> PROVE EndInv'
  BY <1>s, <1>e DEF EndInv, Spared
<1>d. ASSUME Disconnect, UNCHANGED <<down, timers, main, handler>> PROVE EndInv'
  BY <1>d, <1>0, <1>e DEF EndInv, Disconnect, Spared, Typed
<1>1. ASSUME NEW k \in Command, Call(k) \/ DialFails(k) \/ Dropped(k) PROVE EndInv'
  BY <1>1, <1>s DEF Call, DialFails, Dropped, addonVars
<1>2. ASSUME NEW k \in Command, Acquire(k) PROVE EndInv'
  <2>1. UNCHANGED <<down, timers, main, handler>>
    BY <1>2 DEF Acquire, addonVars
  <2>2. CASE IsConnected /\ up' = [up EXCEPT ![conn] = Append(@, k)] /\ conn' = conn
    <3>1. PICK c \in Conn : c = conn
      BY <1>0, <2>2 DEF IsConnected, Typed
    <3>2. Empty(c)
      BY <1>0, <1>2, <3>1, SocketAssumption DEF Acquire, LockInv, StreamInv, OwnInv
    <3>3. up[c] = <<>>
      BY <1>e, <3>1, <3>2, UnendedIs DEF Empty
    <3>4. up'[c] = <<k>>
      BY <1>0, <2>2, <3>1, <3>3 DEF Typed
    <3> QED BY <1>0, <1>e, <2>1, <2>2, <3>1, <3>4, UnendedStreams DEF EndInv, Spared, Typed
  <2>3. CASE Disconnect
    BY <1>d, <2>1, <2>3
  <2> QED BY <1>2, <2>2, <2>3 DEF Acquire
<1>3. ASSUME NEW k \in Command, NEW c \in Conn, Dial(k, c) PROVE EndInv'
  BY <1>0, <1>e, <1>n, <1>3, UnendedStreams DEF EndInv, Dial, Spared, Typed
<1>4. ASSUME NEW k \in Command, ReadReply(k) PROVE EndInv'
  <2>1. PICK c \in Conn : c = conn
    BY <1>0, <1>4 DEF LockInv, ReadReply, Typed
  <2>2. PICK j \in Command : down[c] \in With(j)
    BY <1>0, <1>4, <2>1, AtHead DEF ReadReply, Falling
  <2>3. UNCHANGED <<up, timers, main, handler, conn>>
    BY <1>4 DEF ReadReply, addonVars
  <2>4. \A d \in Conn \ {c} : down'[d] = down[d]
    BY <1>0, <1>4, <2>1 DEF ReadReply, Typed
  <2>5. handler[c] \in Open => Unended(down'[c])
    BY <1>0, <1>4, <1>e, <2>1, <2>2, UnendedIs, UnendedStreams DEF ReadReply, Typed
  <2> QED BY <1>e, <2>1, <2>3, <2>4, <2>5 DEF EndInv, Spared
<1>5. ASSUME NEW k \in Command, ReadEof(k) \/ GivesUp(k) PROVE EndInv'
  BY <1>5, <1>d DEF ReadEof, GivesUp, addonVars
<1>6. ASSUME FinArrives PROVE EndInv'
  <2>1. PICK c \in Conn : c = conn
    BY <1>0, <1>6 DEF FinArrives, Typed
  <2>2. \A k \in Command : down[c] \notin With(k)
    BY <1>6, <2>1, Heads DEF FinArrives
  <2>3. down[c] \in Bare /\ down[c] # <<>>
    BY <1>0, <1>6, <2>1, <2>2, SocketAssumption
    DEF FinArrives, First, StreamInv, Empty, Holds, Rising, Waiting, Executed, Falling
  <2>4. down'[c] = <<>> /\ \A d \in Conn \ {c} : down'[d] = down[d]
    BY <1>0, <1>6, <2>1, <2>3, Closing DEF FinArrives, Typed
  <2>5. UNCHANGED <<up, timers, main, handler, conn>>
    BY <1>6 DEF FinArrives, addonVars
  <2> QED BY <1>e, <2>1, <2>4, <2>5, UnendedStreams DEF EndInv, Spared
<1>7. ASSUME NEW c \in Conn, LoopAgain(c) PROVE EndInv'
  <2>1. /\ UNCHANGED <<up, down, timers, main, conn>>
        /\ handler[c] \in Open /\ handler'[c] \in Open
        /\ \A d \in Conn \ {c} : handler'[d] = handler[d]
    BY <1>0, <1>7 DEF LoopAgain, clientVars, Typed, Open, Reading
  <2> QED BY <1>e, <1>n, <2>1 DEF EndInv, Spared
<1>8. ASSUME NEW c \in Conn, Receive(c) PROVE EndInv'
  <2>1. PICK k \in Command : up[c] \in With(k)
    BY <1>0, <1>8, AtHead DEF Receive, Rising
  <2>2. /\ UNCHANGED <<down, main, conn>>
        /\ handler[c] \in Open /\ handler'[c] \in Open
        /\ \A d \in Conn \ {c} : handler'[d] = handler[d] /\ up'[d] = up[d] /\ timers'[d] = timers[d]
    BY <1>0, <1>8 DEF Receive, clientVars, Typed, Open, Reading
  <2>3. c = conn => Unended(up'[c])
    BY <1>0, <1>8, <1>e, <2>1, UnendedIs, UnendedStreams DEF Receive, Typed
  <2> QED BY <1>e, <1>n, <2>2, <2>3 DEF EndInv, Spared
<1>9. ASSUME NEW c \in Conn, HandlerEnds(c) PROVE EndInv'
  <2>1. /\ UNCHANGED <<timers, main, conn>> /\ handler'[c] = "closed" /\ up'[c] = <<>>
        /\ \A d \in Conn \ {c} : handler'[d] = handler[d] /\ up'[d] = up[d] /\ down'[d] = down[d]
    BY <1>0, <1>9 DEF HandlerEnds, clientVars, Typed
  <2> QED BY <1>e, <1>n, <2>1, UnendedStreams DEF EndInv, Spared
<1>10. ASSUME NEW c \in Conn, RunTimer(c) PROVE EndInv'
  <2>1. /\ UNCHANGED <<up, down, handler, conn>>
        /\ handler[c] # "none" /\ main'.conn = c
        /\ \A d \in Conn \ {c} : timers'[d] = timers[d]
    BY <1>0, <1>e, <1>10 DEF RunTimer, clientVars, Typed
  <2> QED BY <1>e, <2>1 DEF EndInv, Spared
<1>11. ASSUME Finish PROVE EndInv'
  <2>1. PICK c \in Conn, k \in Command : c = main.conn /\ k = main.cmd /\ Executed(c, k)
    BY <1>0, <1>11, AtWork DEF Finish, Spared, IInv, TypeOK, Job
  <2>2. handler[c] # "none" /\ UNCHANGED <<up, timers, handler, conn>> /\ main' = None
    BY <1>e, <1>11, <2>1 DEF Finish, Spared, clientVars, addonVars
  <2>3. \A d \in Conn \ {c} : down'[d] = down[d]
    BY <1>0, <1>11, <2>1 DEF Finish, Typed
  <2>4. handler[c] \in Open => Unended(down'[c])
    <3>1. ASSUME handler[c] \in Open PROVE down[c] = <<>>
      BY <1>e, <2>1, <3>1, UnendedIs DEF Executed
    <3>2. ASSUME handler[c] \in Open PROVE down'[c] = <<k>>
      <4>1. Append(<<>>, k) = <<k>>
        OBVIOUS
      <4>2. down'[c] = Append(<<>>, k)
        BY <1>0, <1>11, <2>1, <3>1, <3>2 DEF Finish, Typed
      <4> QED BY <4>1, <4>2
    <3> QED BY <3>2, UnendedStreams
  <2> QED BY <1>e, <2>2, <2>3, <2>4 DEF EndInv, Spared
<1>12. ASSUME AddonStops \/ AddonStarts PROVE EndInv'
  <2>1. CASE AddonStops
    <3>1. UNCHANGED <<up, down, timers, main, conn>>
      BY <2>1 DEF AddonStops, clientVars
    <3>2. \A d \in Conn : (handler'[d] \in Open <=> handler[d] \in Open)
                       /\ (handler'[d] = "none" <=> handler[d] = "none")
      BY <1>0, <2>1 DEF AddonStops, Open, Reading, Typed
    <3> QED BY <1>e, <3>1, <3>2 DEF EndInv, Spared
  <2>2. CASE AddonStarts
    BY <1>s, <2>2 DEF AddonStarts, clientVars
  <2> QED BY <1>12, <2>1, <2>2
<1>13. ASSUME BlenderDies PROVE EndInv'
  <2>1. conn' = conn /\ main' = None /\ \A d \in Conn : timers'[d] = 0
    BY <1>13 DEF BlenderDies, clientVars
  <2>2. \A d \in Conn : /\ handler'[d] \notin Open
                        /\ handler'[d] = "none" => handler[d] = "none"
                        /\ up'[d] = up[d] \/ up'[d] = <<>>
    BY <1>n, <1>13 DEF BlenderDies
  <2>3. \A d \in Conn : handler[d] = "none" => up'[d] = up[d] /\ down'[d] = down[d]
    BY <1>n, <1>13 DEF BlenderDies
  <2> QED BY <1>e, <2>1, <2>2, <2>3, UnendedStreams DEF EndInv, Spared
<1>14. ASSUME UNCHANGED vars PROVE EndInv'
  BY <1>s, <1>14 DEF vars, clientVars, addonVars
<1> QED BY <1>1, <1>2, <1>3, <1>4, <1>5, <1>6, <1>7, <1>8, <1>9, <1>10, <1>11, <1>12, <1>13, <1>14,
           NextCases, Zenon

LEMMA InitStep == Init => IInv
<1> SUFFICES ASSUME Init PROVE IInv
  OBVIOUS
<1>0. None \notin Command /\ None \notin Conn
  BY SocketAssumption
<1>1. TypeOK
  <2>1. up \in [Conn -> Seq(Command \union {Fin})] /\ down \in [Conn -> Seq(Command \union {Fin})]
    <3>1. <<>> \in Seq(Command \union {Fin})
      OBVIOUS
    <3> QED BY <3>1 DEF Init
  <2>2. conn \in Conn \union {None} /\ server \in BOOLEAN
    BY DEF Init
  <2>3. handler \in [Conn -> Open \union {"none", "closed"}]
    BY DEF Init, Open, Reading
  <2>4. pc \in [Command -> Place] /\ lock \in Command \union {None} /\ eof \in BOOLEAN
    BY DEF Init, Place, Sent
  <2>5. /\ got \in [Command -> Command \union {None}]
        /\ bound \in [Conn -> Command \union {None}]
        /\ timers \in [Conn -> Nat] /\ main \in Job \union {None}
        /\ runs \in [Command -> Nat] /\ faults \in Nat
    BY DEF Init
  <2> QED BY <2>1, <2>2, <2>3, <2>4, <2>5 DEF TypeOK
<1>2. \A c \in Conn : Empty(c) /\ up[c] = <<>> /\ down[c] = <<>> /\ Spared(c)
  BY DEF Init, Empty, Bare, Spared
<1>3. StreamInv /\ OwnInv
  BY <1>2, OneNow DEF StreamInv, OwnInv, One
<1>4. LockInv
  BY <1>0 DEF Init, LockInv
<1>5. EndInv
  BY <1>0, <1>2, UnendedStreams DEF Init, EndInv, Open, Reading
<1>6. RunInv
  BY DEF Init, RunInv, Sent
<1> QED BY <1>1, <1>3, <1>4, <1>5, <1>6 DEF IInv

\* The invariant the properties below follow from.
THEOREM Invariance == Spec => []IInv
<1>1. Init => IInv
  BY InitStep
<1>2. IInv /\ [Next]_vars => IInv'
  BY TypeStep, TrackStep, LockStep, EndStep, RunStep DEF IInv
<1> QED BY <1>1, <1>2, PTL DEF Spec

-----------------------------------------------------------------------------
(* What send_command promises *)

\* Calls, connections, threads and timers stay within their types.
THEOREM TypeCorrect == Spec => []TypeOK
<1>1. IInv => TypeOK
  BY DEF IInv
<1> QED BY <1>1, Invariance, PTL

\* send_command returns the reply of its own command, for any number of callers
\* that share the socket and of calls abandoned on it.
THEOREM OwnReply == Spec => []ReplyMatches
<1>1. IInv => ReplyMatches
  BY DEF IInv, RunInv, ReplyMatches
<1> QED BY <1>1, Invariance, PTL

-----------------------------------------------------------------------------
(* The socket implements the command channel *)

Outcomes == [k \in Command |-> Outcome(pc[k])]

LEMMA OutcomeOf ==
    /\ Outcome("answered") = "answered"
    /\ Outcome("refused") = "refused" /\ Outcome("dropped") = "refused"
    /\ Outcome("unknown") = "lost"
    /\ \A p \in {"idle", "queued", "dialing", "reading"} : Outcome(p) = "open"
BY DEF Outcome

\* One call moves, and with it what its caller knows.
LEMMA Moves ==
    ASSUME pc \in [Command -> Place], NEW k \in Command, NEW p, pc' = [pc EXCEPT ![k] = p]
    PROVE  /\ Outcomes' = [Outcomes EXCEPT ![k] = Outcome(p)]
           /\ Outcomes[k] = Outcome(pc[k])
           /\ Outcome(p) = Outcome(pc[k]) => Outcomes' = Outcomes
<1> HIDE DEF Outcome
<1> QED BY DEF Outcomes

LEMMA ChannelStep == IInv /\ [Next]_vars => [Channel!Next]_(Channel!vars)
<1> SUFFICES ASSUME IInv, [Next]_vars PROVE [Channel!Next]_(Channel!vars)
  OBVIOUS
<1>0. Typed /\ StreamInv /\ OwnInv /\ LockInv /\ RunInv
  BY TypedNow DEF IInv
<1>p. pc \in [Command -> Place]
  BY <1>0 DEF Typed
<1> DEFINE Goal == [Channel!Next]_(Channel!vars)
<1>u. ASSUME Outcomes' = Outcomes, runs' = runs PROVE Goal
  BY <1>u DEF Channel!vars, Outcomes
<1>e. ASSUME NEW k \in Command, runs' = runs, runs[k] = 1,
             Outcomes[k] = "open", Outcomes' = [Outcomes EXCEPT ![k] = "answered"]
      PROVE  Goal
  BY <1>e DEF Channel!Next, Channel!Answer, Outcomes
<1>r. ASSUME NEW k \in Command, runs' = runs, runs[k] = 0,
             Outcomes[k] = "open", Outcomes' = [Outcomes EXCEPT ![k] = "refused"]
      PROVE  Goal
  BY <1>r DEF Channel!Next, Channel!Refuse, Outcomes
<1>l. ASSUME NEW k \in Command, runs' = runs,
             Outcomes[k] = "open", Outcomes' = [Outcomes EXCEPT ![k] = "lost"]
      PROVE  Goal
  BY <1>l DEF Channel!Next, Channel!Lose, Outcomes
<1>f. ASSUME NEW k \in Command, Outcomes' = Outcomes, runs[k] = 0,
             runs' = [runs EXCEPT ![k] = 1], Outcomes[k] \in {"open", "lost"}
      PROVE  Goal
  BY <1>f DEF Channel!Next, Channel!Effect, Outcomes
<1> HIDE DEF Goal
<1>s. ASSUME UNCHANGED <<pc, runs>> PROVE Goal
  BY <1>s, <1>u DEF Outcomes
<1>m. ASSUME NEW k \in Command, NEW p, pc' = [pc EXCEPT ![k] = p]
      PROVE  /\ Outcomes' = [Outcomes EXCEPT ![k] = Outcome(p)]
             /\ Outcomes[k] = Outcome(pc[k])
             /\ Outcome(p) = Outcome(pc[k]) => Outcomes' = Outcomes
  BY <1>p, <1>m, Moves
<1>1. ASSUME NEW k \in Command, Call(k) \/ DialFails(k) \/ Dropped(k) PROVE Goal
  <2>1. runs' = runs
    BY <1>1 DEF Call, DialFails, Dropped
  <2>2. pc[k] \in {"idle", "queued", "dialing"} /\ runs[k] = 0
    BY <1>0, <1>1 DEF Call, DialFails, Dropped, RunInv, Sent
  <2>3. Outcome(pc[k]) = "open"
    BY <2>2, OutcomeOf
  <2>4. CASE pc' = [pc EXCEPT ![k] = "queued"]
    <3>1. Outcome("queued") = Outcome(pc[k])
      BY <2>3, OutcomeOf
    <3>2. Outcomes' = Outcomes
      BY <1>m, <2>4, <3>1
    <3> QED BY <1>u, <2>1, <3>2
  <2>5. CASE pc' = [pc EXCEPT ![k] = "refused"]
    <3>1. Outcomes' = [Outcomes EXCEPT ![k] = Outcome("refused")] /\ Outcomes[k] = Outcome(pc[k])
      BY <1>m, <2>5
    <3> QED BY <1>r, <2>1, <2>2, <2>3, <3>1, OutcomeOf
  <2>6. CASE pc' = [pc EXCEPT ![k] = "dropped"]
    <3>1. Outcomes' = [Outcomes EXCEPT ![k] = Outcome("dropped")] /\ Outcomes[k] = Outcome(pc[k])
      BY <1>m, <2>6
    <3> QED BY <1>r, <2>1, <2>2, <2>3, <3>1, OutcomeOf
  <2> QED BY <1>1, <2>4, <2>5, <2>6 DEF Call, DialFails, Dropped, Ends
<1>2. ASSUME NEW k \in Command, Acquire(k) PROVE Goal
  <2>1. PICK p \in {"reading", "dialing"} : pc' = [pc EXCEPT ![k] = p]
    BY <1>2 DEF Acquire
  <2>2. pc[k] = "queued" /\ runs' = runs
    BY <1>2 DEF Acquire
  <2>3. Outcome(p) = Outcome(pc[k])
    BY <2>2, OutcomeOf
  <2>4. Outcomes' = Outcomes
    BY <1>m, <2>1, <2>3
  <2> QED BY <1>u, <2>2, <2>4
<1>3. ASSUME NEW k \in Command, NEW c \in Conn, Dial(k, c) PROVE Goal
  <2>1. pc[k] = "dialing" /\ runs' = runs /\ pc' = [pc EXCEPT ![k] = "reading"]
    BY <1>3 DEF Dial
  <2>2. Outcome("reading") = Outcome(pc[k])
    BY <2>1, OutcomeOf
  <2>3. Outcomes' = Outcomes
    BY <1>m, <2>1, <2>2
  <2> QED BY <1>u, <2>1, <2>3
<1>4. ASSUME NEW k \in Command, ReadReply(k) PROVE Goal
  <2>1. runs[k] = 1
    BY <1>0, <1>4, ReadReplyTracks
  <2>2. pc[k] = "reading" /\ runs' = runs /\ pc' = [pc EXCEPT ![k] = "answered"]
    BY <1>4 DEF ReadReply, Ends
  <2>3. Outcomes' = [Outcomes EXCEPT ![k] = Outcome("answered")] /\ Outcomes[k] = Outcome("reading")
    BY <1>m, <2>2
  <2> QED BY <1>e, <2>1, <2>2, <2>3, OutcomeOf
<1>5. ASSUME NEW k \in Command, ReadEof(k) \/ GivesUp(k) PROVE Goal
  <2>1. pc[k] = "reading" /\ runs' = runs /\ pc' = [pc EXCEPT ![k] = "unknown"]
    BY <1>5 DEF ReadEof, GivesUp, Ends
  <2>2. Outcomes' = [Outcomes EXCEPT ![k] = Outcome("unknown")] /\ Outcomes[k] = Outcome("reading")
    BY <1>m, <2>1
  <2> QED BY <1>l, <2>1, <2>2, OutcomeOf
<1>6. ASSUME NEW c \in Conn, RunTimer(c) PROVE Goal
  <2>1. PICK k \in Command : Waiting(c, k)
    BY <1>0, <1>6, AtWork DEF RunTimer
  <2>2. pc[k] \in {"reading", "unknown"} /\ runs[k] = 0
    BY <1>0, <2>1 DEF OwnInv, Holds, Waiting
  <2>3. runs' = [runs EXCEPT ![k] = @ + 1] /\ pc' = pc
    BY <1>6, <2>1 DEF RunTimer, Waiting, clientVars
  <2>4. runs' = [runs EXCEPT ![k] = 1]
    BY <2>2, <2>3
  <2>5. Outcomes' = Outcomes /\ Outcomes[k] \in {"open", "lost"}
    BY <2>2, <2>3, OutcomeOf DEF Outcomes
  <2> QED BY <1>f, <2>2, <2>4, <2>5
<1>7. ASSUME FinArrives PROVE Goal
  BY <1>7, <1>s DEF FinArrives
<1>8. ASSUME NEW c \in Conn, LoopAgain(c) PROVE Goal
  BY <1>8, <1>s DEF LoopAgain, clientVars
<1>9. ASSUME NEW c \in Conn, Receive(c) PROVE Goal
  BY <1>9, <1>s DEF Receive, clientVars
<1>10. ASSUME NEW c \in Conn, HandlerEnds(c) PROVE Goal
  BY <1>10, <1>s DEF HandlerEnds, clientVars
<1>11. ASSUME Finish PROVE Goal
  BY <1>11, <1>s DEF Finish, clientVars
<1>12. ASSUME AddonStops \/ AddonStarts PROVE Goal
  BY <1>12, <1>s DEF AddonStops, AddonStarts, clientVars
<1>13. ASSUME BlenderDies PROVE Goal
  BY <1>13, <1>s DEF BlenderDies, clientVars
<1>14. ASSUME UNCHANGED vars PROVE Goal
  BY <1>14, <1>s DEF vars, clientVars
<1>15. Goal
  BY <1>1, <1>2, <1>3, <1>4, <1>5, <1>6, <1>7, <1>8, <1>9, <1>10, <1>11, <1>12, <1>13, <1>14,
     NextCases, Zenon
<1> QED BY <1>15 DEF Goal

\* Calls, sockets, threads and timers together are a channel on which Blender
\* begins a command at most once: answered only after it did, refused only if
\* it never will, and lost when send_command cannot tell.
THEOREM IsChannel == Spec => ImplementsChannel
<1>1. Init => Channel!Init
  BY OutcomeOf DEF Init, Channel!Init
<1> QED BY <1>1, ChannelStep, Invariance, PTL DEF Spec, ImplementsChannel, Channel!Spec

-----------------------------------------------------------------------------
(* The lease over the socket *)

Busy == {"queued", "dialing", "reading"}

\* Whose call is not over has the lease; a mutation whose completion is unknown
\* has sealed it, and is the only one.
LeaseInv ==
    /\ user \in Mutation \union {None} /\ sealed \in BOOLEAN
    /\ user # None => ~sealed
    /\ \A k \in Mutation : user = k <=> pc[k] \in Busy
    /\ \A k \in Mutation : pc[k] = "unknown" => sealed
    /\ \A j, k \in Mutation : pc[j] = "unknown" /\ pc[k] = "unknown" => j = k

\* A call goes on, or ends, on its own.
LEMMA CallGoesOn ==
    ASSUME pc \in [Command -> Place], NEW k \in Command, Client(k) \/ Dropped(k)
    PROVE  /\ pc[k] \in Busy
           /\ \E p \in Place \ {"idle"} : pc' = [pc EXCEPT ![k] = p]
<1>1. CASE Acquire(k) \/ DialFails(k) \/ ReadReply(k) \/ ReadEof(k) \/ GivesUp(k) \/ Dropped(k)
  BY <1>1 DEF Acquire, DialFails, ReadReply, ReadEof, GivesUp, Dropped, Ends, Busy, Place, Sent
<1>2. CASE \E c \in Conn : Dial(k, c)
  BY <1>2 DEF Dial, Busy, Place, Sent
<1> QED BY <1>1, <1>2 DEF Client

\* Neither the network nor Blender ends a call.
LEMMA EngineKeepsCalls == EngineStep => pc' = pc
<1> SUFFICES ASSUME EngineStep PROVE pc' = pc
  OBVIOUS
<1>1. CASE FinArrives
  BY <1>1 DEF FinArrives
<1>2. CASE \E c \in Conn : Handler(c)
  BY <1>2 DEF Handler, LoopAgain, Receive, HandlerEnds, clientVars
<1>3. CASE MainThread
  BY <1>3 DEF MainThread, RunTimer, Finish, clientVars
<1>4. CASE AddonStops \/ AddonStarts
  BY <1>4 DEF AddonStops, AddonStarts, clientVars
<1>5. CASE BlenderDies
  BY <1>5 DEF BlenderDies, clientVars
<1> QED BY <1>1, <1>2, <1>3, <1>4, <1>5 DEF EngineStep

LEMMA LeaseInit == LInit => LeaseInv
<1>1. \A k \in Mutation : k # None
  BY SocketAssumption, MutationAssumption
<1> QED BY <1>1, MutationAssumption DEF LInit, Init, LeaseInv, Busy

LEMMA LeaseStep == TypeOK /\ LeaseInv /\ [LNext]_leased => LeaseInv'
<1> SUFFICES ASSUME TypeOK, LeaseInv, [LNext]_leased PROVE LeaseInv'
  OBVIOUS
<1>0. pc \in [Command -> Place] /\ None \notin Mutation /\ Mutation \subseteq Command
  BY SocketAssumption, MutationAssumption DEF TypeOK
<1>1. ASSUME NEW k \in Mutation, Mutate(k) PROVE LeaseInv'
  <2>1. pc[k] = "idle" /\ pc' = [pc EXCEPT ![k] = "queued"] /\ user = None /\ user' = k
        /\ sealed' = sealed /\ sealed = FALSE
    BY <1>1 DEF Mutate, Call, LeaseInv
  <2> QED BY <1>0, <2>1 DEF LeaseInv, Busy
<1>2. ASSUME NEW k \in Mutation, MutationStep(k) PROVE LeaseInv'
  <2>1. PICK p \in Place \ {"idle"} : pc' = [pc EXCEPT ![k] = p]
    BY <1>0, <1>2, CallGoesOn DEF MutationStep
  <2>2. pc[k] \in Busy /\ user = k /\ user # None /\ sealed = FALSE
    BY <1>0, <1>2, CallGoesOn DEF MutationStep, LeaseInv
  <2>3. pc'[k] = p /\ \A j \in Mutation \ {k} : pc'[j] = pc[j] /\ pc[j] \notin Busy \union {"unknown"}
    BY <1>0, <2>1, <2>2 DEF LeaseInv
  <2>4. CASE p \in Busy
    <3>1. user' = user /\ sealed' = sealed
      BY <1>2, <2>3, <2>4 DEF MutationStep, Follow, Busy
    <3> QED BY <2>2, <2>3, <2>4, <3>1 DEF LeaseInv, Busy
  <2>5. CASE p \notin Busy
    <3>1. user' = None /\ sealed' = (sealed \/ InDoubt(k))
      BY <1>2, <2>3, <2>5 DEF MutationStep, Follow, Busy
    <3>2. sealed' \in BOOLEAN /\ (p = "unknown" => sealed' = TRUE)
      BY <2>2, <2>3, <3>1 DEF InDoubt
    <3> QED BY <1>0, <2>2, <2>3, <2>5, <3>1, <3>2 DEF LeaseInv, Busy
  <2> QED BY <2>4, <2>5
<1>3. ASSUME UNCHANGED <<user, sealed>>, \A k \in Mutation : pc'[k] = pc[k]
      PROVE  LeaseInv'
  BY <1>3 DEF LeaseInv
<1>4. ASSUME NEW k \in Command \ Mutation, ReadStep(k) PROVE LeaseInv'
  <2>1. \A j \in Mutation : pc'[j] = pc[j]
    <3>1. \E p \in Place : pc' = [pc EXCEPT ![k] = p]
      BY <1>0, <1>4, CallGoesOn DEF ReadStep, Call, Place
    <3> QED BY <1>0, <3>1
  <2> QED BY <1>3, <1>4, <2>1 DEF ReadStep
<1>5. CASE EngineStep
  BY <1>3, <1>5, EngineKeepsCalls DEF EngineStep
<1>6. CASE UNCHANGED leased
  BY <1>3, <1>6 DEF leased, vars, clientVars
<1> QED BY <1>1, <1>2, <1>4, <1>5, <1>6 DEF LNext

LEMMA SocketStep == [LNext]_leased => [Next]_vars
BY MutationAssumption
DEF LNext, Mutate, MutationStep, ReadStep, EngineStep, Client, Next, leased

\* The composition adds the lease to the socket and changes nothing of it.
THEOREM IsSocket == LSpec => Spec
<1>1. LInit => Init
  BY DEF LInit
<1> QED BY <1>1, SocketStep, PTL DEF LSpec, Spec

THEOREM LeaseInvariance == LSpec => [](IInv /\ LeaseInv)
<1>1. IInv => TypeOK
  BY DEF IInv
<1> QED BY <1>1, IsSocket, Invariance, LeaseInit, LeaseStep, PTL DEF LSpec

\* What is alive has been called, and its caller waits or was left in doubt.
LEMMA AliveIs ==
    ASSUME IInv, NEW k \in Command, Alive(k)
    PROVE  pc[k] \in Busy \union {"unknown"}
<1>1. CASE \E c \in Conn : timers[c] > 0 /\ bound[c] = k
  <2>1. PICK c \in Conn : Waiting(c, k)
    BY <1>1, AtWork DEF IInv
  <2> QED BY <2>1 DEF IInv, OwnInv, Holds, Busy
<1>2. CASE \E c \in Conn : \E i \in 1..Len(up[c]) : up[c][i] = k
  <2>1. PICK c \in Conn : \E i \in 1..Len(up[c]) : up[c][i] = k
    BY <1>2
  <2>2. up[c] \notin Bare
    BY <2>1, SocketAssumption DEF Bare
  <2>3. PICK j \in Command : Rising(c, j)
    BY <2>2 DEF IInv, StreamInv, Empty, Holds, Waiting, Executed, Falling
  <2>4. j = k
    BY <2>1, <2>3, SocketAssumption DEF Rising, With
  <2> QED BY <2>3, <2>4 DEF IInv, OwnInv, Holds, Busy
<1>3. CASE main # None /\ main.cmd = k
  <2>1. PICK c \in Conn : Executed(c, k)
    BY <1>3, AtWork DEF IInv, TypeOK, Job, Spared
  <2> QED BY <2>1 DEF IInv, OwnInv, Holds, Busy
<1> QED BY <1>1, <1>2, <1>3 DEF Alive, Busy

LEMMA OneNowAlive == IInv /\ LeaseInv => OneMutationAlive
<1> SUFFICES ASSUME IInv, LeaseInv, NEW j \in Mutation, NEW k \in Mutation, Alive(j), Alive(k)
             PROVE  j = k
  BY DEF OneMutationAlive
<1>1. pc[j] \in Busy \union {"unknown"} /\ pc[k] \in Busy \union {"unknown"}
  BY AliveIs, MutationAssumption
<1>2. j # None /\ k # None
  BY SocketAssumption, MutationAssumption
<1> QED BY <1>1, <1>2 DEF LeaseInv

\* Whatever was abandoned, lost or restarted, at most one mutation is under way
\* between the lease, the streams, the timers and Blender's main thread.
THEOREM OneMutation == LSpec => []OneMutationAlive
BY OneNowAlive, LeaseInvariance, PTL

-----------------------------------------------------------------------------
(* The lease keeps Blender *)

\* What Alive says of the network and of Blender.
Carried(c, k) == \E i \in 1..Len(up[c]) : up[c][i] = k
Timed(c, k) == timers[c] > 0 /\ bound[c] = k
Worked(k) == main # None /\ main.cmd = k
Engaged(k) == (\E c \in Conn : Timed(c, k) \/ Carried(c, k)) \/ Worked(k)

Parted == \A k \in Command : Alive(k) <=> pc[k] \in Busy \/ Engaged(k)

LEMMA AliveParts == Parted
BY Zenon DEF Parted, Alive, Busy, Engaged, Carried, Timed, Worked

LEMMA AlivePartsNext == Parted'
BY AliveParts, PTL

\* What a stream carries after something was written to it or read from it.
LEMMA Carries ==
    ASSUME NEW s \in Seq(Command \union {Fin}), NEW k \in Command
    PROVE  /\ \A x \in (Command \union {Fin}) \ {k} : \A i \in 1..Len(Append(s, x)) :
                 Append(s, x)[i] = k => \E n \in 1..Len(s) : s[n] = k
           /\ \A i \in 1..Len(Tail(s)) : s # <<>> /\ Tail(s)[i] = k => \E n \in 1..Len(s) : s[n] = k
           /\ s # <<>> /\ Head(s) = k => \E n \in 1..Len(s) : s[n] = k
<1>1. ASSUME NEW x \in (Command \union {Fin}) \ {k}, NEW i \in 1..Len(Append(s, x)), Append(s, x)[i] = k
      PROVE  \E n \in 1..Len(s) : s[n] = k
  <2>1. i \in 1..Len(s) /\ s[i] = k
    BY <1>1
  <2> QED BY <2>1
<1>2. ASSUME s # <<>>, NEW i \in 1..Len(Tail(s)), Tail(s)[i] = k
      PROVE  \E n \in 1..Len(s) : s[n] = k
  <2>1. i + 1 \in 1..Len(s) /\ s[i + 1] = k
    BY <1>2
  <2> QED BY <2>1
<1>3. ASSUME s # <<>>, Head(s) = k PROVE \E n \in 1..Len(s) : s[n] = k
  <2>1. 1 \in 1..Len(s) /\ s[1] = k
    BY <1>3
  <2> QED BY <2>1
<1> QED BY <1>1, <1>2, <1>3

\* Only the caller that writes a command engages the network and Blender with it.
LEMMA EngagedByWrite ==
    ASSUME TypeOK, [Next]_vars, NEW k \in Command, Engaged(k)'
    PROVE  Engaged(k) \/ pc'[k] = "reading"
<1> DEFINE Goal == Engaged(k) \/ pc'[k] = "reading"
<1>0. Typed /\ Fin # k /\ \A c \in Conn : up[c] \in Seq(Command \union {Fin})
  BY TypedNow, SocketAssumption DEF Typed
<1>g. ASSUME \A c \in Conn : Carried(c, k)' => Goal,
             \A c \in Conn : Timed(c, k)' => Goal,
             Worked(k)' => Goal
      PROVE  Goal
  BY <1>g, Zenon DEF Engaged
<1>t. ASSUME UNCHANGED <<timers, bound>> PROVE \A c \in Conn : Timed(c, k)' => Goal
  BY <1>t DEF Timed, Engaged
<1>w. ASSUME main' = main PROVE Worked(k)' => Goal
  BY <1>w DEF Worked, Engaged
<1>c. ASSUME NEW c \in Conn, up'[c] = up[c] PROVE Carried(c, k)' => Goal
  BY <1>c DEF Carried, Engaged
<1>n. ASSUME NEW c \in Conn, up'[c] = <<>> PROVE Carried(c, k)' => Goal
  BY <1>n DEF Carried
<1>a. ASSUME NEW c \in Conn, NEW x \in (Command \union {Fin}) \ {k}, up'[c] = Append(up[c], x)
      PROVE  Carried(c, k)' => Goal
  BY <1>0, <1>a, Carries DEF Carried, Engaged
<1>s. ASSUME UNCHANGED <<up, timers, bound, main>> PROVE Goal
  BY <1>s, <1>g, <1>t, <1>w, <1>c
<1>d. ASSUME Disconnect, UNCHANGED <<timers, bound, main>> PROVE Goal
  <2>1. \A c \in Conn : up'[c] = up[c] \/ up'[c] = Append(up[c], Fin)
    BY <1>d DEF Disconnect
  <2>2. ASSUME NEW c \in Conn PROVE Carried(c, k)' => Goal
    BY <1>0, <1>a, <1>c, <2>1
  <2> QED BY <1>d, <1>g, <1>t, <1>w, <2>2
<1>1. ASSUME NEW j \in Command, Call(j) \/ DialFails(j) \/ Dropped(j) PROVE Goal
  BY <1>1, <1>s DEF Call, DialFails, Dropped, addonVars
<1>2. ASSUME NEW j \in Command, Acquire(j) PROVE Goal
  <2>1. UNCHANGED <<timers, bound, main>>
    BY <1>2 DEF Acquire, addonVars
  <2>2. CASE IsConnected /\ pc' = [pc EXCEPT ![j] = "reading"] /\ up' = [up EXCEPT ![conn] = Append(@, j)]
    <3>1. CASE j = k
      BY <1>0, <2>2, <3>1 DEF Typed
    <3>2. CASE j # k
      <4>1. \A c \in Conn : up'[c] = up[c] \/ up'[c] = Append(up[c], j)
        BY <1>0, <2>2 DEF Typed
      <4>2. ASSUME NEW c \in Conn PROVE Carried(c, k)' => Goal
        BY <1>a, <1>c, <3>2, <4>1
      <4> QED BY <1>g, <1>t, <1>w, <2>1, <4>2
    <3> QED BY <3>1, <3>2
  <2>3. CASE Disconnect
    BY <1>d, <2>1, <2>3
  <2> QED BY <1>2, <2>2, <2>3 DEF Acquire
<1>3. ASSUME NEW j \in Command, NEW d \in Conn, Dial(j, d) PROVE Goal
  <2>1. UNCHANGED <<timers, bound, main>> /\ pc'[j] = "reading"
    BY <1>0, <1>3 DEF Dial, Typed
  <2>2. CASE j # k
    <3>1. up'[d] = <<j>> /\ \A c \in Conn \ {d} : up'[c] = up[c]
      BY <1>0, <1>3 DEF Dial, Typed
    <3>2. ~Carried(d, k)'
      BY <2>2, <3>1 DEF Carried
    <3>3. ASSUME NEW c \in Conn PROVE Carried(c, k)' => Goal
      BY <1>c, <3>1, <3>2
    <3> QED BY <1>g, <1>t, <1>w, <2>1, <3>3
  <2> QED BY <2>1, <2>2
<1>4. ASSUME NEW j \in Command, ReadReply(j) PROVE Goal
  BY <1>4, <1>s DEF ReadReply, addonVars
<1>5. ASSUME NEW j \in Command, ReadEof(j) \/ GivesUp(j) PROVE Goal
  BY <1>5, <1>d DEF ReadEof, GivesUp, addonVars
<1>6. ASSUME FinArrives PROVE Goal
  BY <1>6, <1>s DEF FinArrives, addonVars
<1>7. ASSUME NEW d \in Conn, LoopAgain(d) PROVE Goal
  BY <1>7, <1>s DEF LoopAgain
<1>8. ASSUME NEW d \in Conn, Receive(d) PROVE Goal
  <2>1. up[d] # <<>> /\ Head(up[d]) \in Command
    BY <1>8, SocketAssumption DEF Receive, First
  <2>2. /\ up'[d] = Tail(up[d]) /\ bound'[d] = Head(up[d]) /\ main' = main
        /\ \A c \in Conn \ {d} : up'[c] = up[c] /\ timers'[c] = timers[c] /\ bound'[c] = bound[c]
    BY <1>0, <1>8 DEF Receive, Typed
  <2>3. Carried(d, k)' => Carried(d, k)
    BY <1>0, <2>1, <2>2, Carries DEF Carried
  <2>4. Timed(d, k)' => Carried(d, k)
    BY <1>0, <2>1, <2>2, Carries DEF Timed, Carried
  <2>5. ASSUME NEW c \in Conn PROVE Carried(c, k)' => Goal
    BY <1>c, <2>2, <2>3 DEF Engaged
  <2>6. ASSUME NEW c \in Conn PROVE Timed(c, k)' => Goal
    BY <2>2, <2>4 DEF Timed, Engaged
  <2> QED BY <1>g, <1>w, <2>2, <2>5, <2>6
<1>9. ASSUME NEW d \in Conn, HandlerEnds(d) PROVE Goal
  <2>1. /\ up'[d] = <<>> /\ UNCHANGED <<timers, bound, main>>
        /\ \A c \in Conn \ {d} : up'[c] = up[c]
    BY <1>0, <1>9 DEF HandlerEnds, Typed
  <2>2. ASSUME NEW c \in Conn PROVE Carried(c, k)' => Goal
    BY <1>c, <1>n, <2>1
  <2> QED BY <1>g, <1>t, <1>w, <2>1, <2>2
<1>10. ASSUME NEW d \in Conn, RunTimer(d) PROVE Goal
  <2>1. /\ timers[d] > 0 /\ main' = [conn |-> d, cmd |-> bound[d]] /\ UNCHANGED <<up, bound>>
        /\ \A c \in Conn : timers'[c] > 0 => timers[c] > 0
    BY <1>0, <1>10 DEF RunTimer, Typed
  <2>2. Worked(k)' => Timed(d, k)
    BY <2>1 DEF Worked, Timed
  <2>3. ASSUME NEW c \in Conn PROVE Timed(c, k)' => Timed(c, k)
    BY <2>1 DEF Timed
  <2> QED BY <1>g, <1>c, <2>1, <2>2, <2>3 DEF Engaged
<1>11. ASSUME Finish PROVE Goal
  <2>1. main' = None /\ UNCHANGED <<up, timers, bound>>
    BY <1>11 DEF Finish, addonVars
  <2> QED BY <1>g, <1>t, <1>c, <2>1 DEF Worked
<1>12. ASSUME AddonStops \/ AddonStarts PROVE Goal
  BY <1>12, <1>s DEF AddonStops, AddonStarts
<1>13. ASSUME BlenderDies PROVE Goal
  <2>1. main' = None /\ \A c \in Conn : timers'[c] = 0 /\ (up'[c] = <<>> \/ up'[c] = up[c])
    BY <1>13 DEF BlenderDies
  <2>2. ASSUME NEW c \in Conn PROVE Carried(c, k)' => Goal
    BY <1>c, <1>n, <2>1
  <2>3. ASSUME NEW c \in Conn PROVE ~Timed(c, k)'
    BY <2>1 DEF Timed
  <2> QED BY <1>g, <2>1, <2>2, <2>3 DEF Worked
<1>14. ASSUME UNCHANGED vars PROVE Goal
  BY <1>14, <1>s DEF vars, addonVars
<1> HIDE DEF Goal
<1>15. Goal
  BY <1>1, <1>2, <1>3, <1>4, <1>5, <1>6, <1>7, <1>8, <1>9, <1>10, <1>11, <1>12, <1>13, <1>14,
     NextCases, Zenon
<1> QED BY <1>15 DEF Goal

\* A command whose call does not go on in this step is not revived by it.
LEMMA NotRevived ==
    ASSUME TypeOK, [Next]_vars, NEW k \in Command, pc'[k] = pc[k], Alive(k)'
    PROVE  Alive(k)
<1>1. pc'[k] \in Busy \/ Engaged(k)'
  BY AlivePartsNext DEF Parted
<1>2. pc[k] \in Busy \/ Engaged(k)
  BY <1>1, EngagedByWrite DEF Busy
<1> QED BY <1>2, AliveParts DEF Parted

\* While at most one mutation is alive, it is the occupant.
Occupied ==
    /\ (\A k \in Mutation : ~Alive(k)) => Occupant = None
    /\ \A k \in Mutation : OneMutationAlive /\ Alive(k) => Occupant = k

LEMMA OccupantIs == Occupied
<1> HIDE DEF Alive
<1> SUFFICES ASSUME NEW k \in Mutation, OneMutationAlive, Alive(k) PROVE Occupant = k
  BY DEF Occupied, Occupant
<1>1. \A j \in Mutation : Alive(j) => j = k
  BY DEF OneMutationAlive
<1> QED BY <1>1 DEF Occupant

LEMMA OccupantNext == Occupied'
BY OccupantIs, PTL

\* Each step leaves the occupant in place, lets it go, or lets in the next one
\* when nothing is alive and nothing was left in doubt.
LEMMA OccupantStep ==
    ASSUME IInv, LeaseInv, OneMutationAlive, OneMutationAlive', [LNext]_leased, [Next]_vars
    PROVE  [Engine!Next]_(Engine!vars)
<1>0. pc \in [Command -> Place] /\ None \notin Mutation /\ Mutation \subseteq Command /\ TypeOK
  BY SocketAssumption, MutationAssumption DEF IInv, TypeOK
<1>n. (\A k \in Mutation : ~Alive(k)') => Occupant' = None
  BY OccupantNext DEF Occupied
<1>o. \A k \in Mutation : Alive(k)' => Occupant' = k
  BY OccupantNext DEF Occupied
<1>p. /\ (\A k \in Mutation : ~Alive(k)) => Occupant = None
      /\ \A k \in Mutation : Alive(k) => Occupant = k
  BY OccupantIs DEF Occupied
<1> HIDE DEF Alive, Occupant, OneMutationAlive
<1>1. ASSUME NEW k \in Mutation, Mutate(k) PROVE Engine!Enter(k)
  <2>1. /\ user = None /\ sealed = FALSE /\ sealed' = sealed
        /\ pc'[k] = "queued"
    BY <1>0, <1>1 DEF Mutate, Call, LeaseInv
  <2>2. \A j \in Mutation : ~Alive(j)
    BY <1>0, <2>1, AliveIs DEF LeaseInv
  <2>3. Alive(k)'
    BY <1>0, <2>1 DEF Alive
  <2> QED BY <1>o, <1>p, <2>1, <2>2, <2>3 DEF Engine!Enter
<1>2. ASSUME NEW k \in Mutation, MutationStep(k) PROVE [Engine!Next]_(Engine!vars)
  <2>1. pc[k] \in Busy /\ \A j \in Mutation \ {k} : pc'[j] = pc[j]
    BY <1>0, <1>2, CallGoesOn DEF MutationStep
  <2>2. Alive(k) /\ sealed = FALSE /\ user # None
    BY <1>0, <2>1 DEF Alive, Busy, LeaseInv
  <2>3. sealed' \in BOOLEAN
    BY <1>2, <2>2 DEF MutationStep, Follow, InDoubt
  <2>4. CASE Alive(k)'
    <3>1. Occupant = k /\ Occupant' = k
      BY <1>o, <1>p, <2>2, <2>4
    <3> QED BY <2>2, <2>3, <3>1 DEF Engine!vars, Engine!Next, Engine!Seal
  <2>5. CASE ~Alive(k)'
    <3>1. \A j \in Mutation \ {k} : ~Alive(j)
      BY <2>2 DEF OneMutationAlive
    <3>2. \A j \in Mutation : ~Alive(j)'
      BY <1>0, <2>1, <2>5, <3>1, NotRevived
    <3>3. Occupant = k /\ Occupant' = None
      BY <1>n, <1>p, <2>2, <3>2
    <3> QED BY <2>2, <2>3, <3>3 DEF Engine!Next, Engine!Leave
  <2> QED BY <2>4, <2>5
<1>3. ASSUME sealed' = sealed, \A k \in Mutation : pc'[k] = pc[k]
      PROVE  [Engine!Next]_(Engine!vars)
  <2>1. \A k \in Mutation : Alive(k)' => Alive(k)
    BY <1>0, <1>3, NotRevived
  <2>2. CASE \A k \in Mutation : ~Alive(k)
    BY <1>3, <1>n, <1>p, <2>1, <2>2 DEF Engine!vars
  <2>3. CASE \E k \in Mutation : Alive(k)
    <3>1. PICK k \in Mutation : Alive(k)
      BY <2>3
    <3>2. Occupant = k /\ \A j \in Mutation \ {k} : ~Alive(j)'
      BY <1>p, <2>1, <3>1 DEF OneMutationAlive
    <3>3. Occupant' \in {k, None}
      BY <1>n, <1>o, <3>2
    <3> QED BY <1>3, <3>1, <3>2, <3>3 DEF Engine!vars, Engine!Next, Engine!Leave
  <2> QED BY <2>2, <2>3
<1>4. ASSUME NEW k \in Command \ Mutation, ReadStep(k) PROVE [Engine!Next]_(Engine!vars)
  <2>1. PICK p \in Place : pc' = [pc EXCEPT ![k] = p]
    BY <1>0, <1>4, CallGoesOn DEF ReadStep, Call, Place
  <2> QED BY <1>0, <1>3, <1>4, <2>1 DEF ReadStep
<1>5. CASE EngineStep
  BY <1>3, <1>5, EngineKeepsCalls DEF EngineStep
<1>6. CASE UNCHANGED leased
  BY <1>3, <1>6 DEF leased, vars, clientVars
<1> QED BY <1>1, <1>2, <1>4, <1>5, <1>6 DEF LNext, Engine!Next

\* Blender itself, its streams and its timers included, has one mutation at a
\* time, from its call until its end; a mutation left in doubt keeps its place
\* until it has ended, and no other is let in after it.
THEOREM KeepsEngine == LSpec => EngineIsKept
<1>1. LInit => Engine!Init
  <2> SUFFICES ASSUME LInit PROVE Engine!Init
    OBVIOUS
  <2>1. \A k \in Mutation : ~Alive(k)
    BY MutationAssumption DEF LInit, Init, Alive
  <2> QED BY <2>1, OccupantIs DEF Occupied, LInit, Engine!Init
<1>2. [LNext]_leased => [Next]_vars
  BY SocketStep
<1>3. IInv /\ LeaseInv /\ (IInv /\ LeaseInv)' /\ [LNext]_leased => [Engine!Next]_(Engine!vars)
  <2>1. IInv /\ LeaseInv => OneMutationAlive
    BY OneNowAlive
  <2>2. (IInv /\ LeaseInv)' => OneMutationAlive'
    BY <2>1, PTL
  <2> QED BY <1>2, <2>1, <2>2, OccupantStep
<1> QED BY <1>1, <1>3, LeaseInvariance, PTL DEF LSpec, EngineIsKept, Engine!Spec
=============================================================================
