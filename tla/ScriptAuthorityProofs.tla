------------------------- MODULE ScriptAuthorityProofs -------------------------
(***************************************************************************)
(* Proofs about ScriptAuthority for every set of tasks, contexts and       *)
(* programs, and any number of scopes.                                     *)
(***************************************************************************)
EXTENDS ScriptAuthority, SequenceTheorems, TLAPS

\* A permit t has no claim to: none at all, or another task's.
Foreign(t, p) == p = 0 \/ permits[p].owner # t

\* An open scope's permit is live, its task's, and no other scope's.
OpenInv ==
    \A t \in Task : \A i \in 1..Len(scopes[t]) :
        /\ permits[scopes[t][i].permit].active
        /\ permits[scopes[t][i].permit].owner = t
        /\ \A j \in 1..Len(scopes[t]) :
               scopes[t][i].permit = scopes[t][j].permit => i = j

\* A live permit has its scope open.
LiveInv ==
    \A p \in 1..Len(permits) : permits[p].active =>
        \E i \in 1..Len(scopes[permits[p].owner]) : scopes[permits[p].owner][i].permit = p

\* Scopes nest: each one remembers the one it was entered in, the first what
\* the task was started with, which is never its own.
NestInv ==
    \A t \in Task : \A i \in 1..Len(scopes[t]) :
        IF i = 1 THEN Foreign(t, scopes[t][i].before)
                 ELSE scopes[t][i].before = scopes[t][i - 1].permit

\* A running task's context holds the permit of its innermost scope.
ContextInv ==
    \A t \in started :
        IF Len(scopes[t]) = 0 THEN Foreign(t, permit[t])
                              ELSE permit[t] = scopes[t][Len(scopes[t])].permit

\* Only a task that runs has made permits.
StartedInv ==
    /\ \A p \in 1..Len(permits) : permits[p].owner \in started
    /\ \A t \in Task : Len(scopes[t]) # 0 => t \in started

AuthorityIInv == AuthorityTypeOK /\ OpenInv /\ LiveInv /\ NestInv /\ ContextInv /\ StartedInv

-----------------------------------------------------------------------------
\* What entering a scope makes of the permits and of the task's scopes.
LEMMA Entered ==
    ASSUME AuthorityTypeOK, NEW t \in Task, Enter(t)
    PROVE  /\ t \in started /\ started' = started
           /\ Len(permits') = Len(permits) + 1 /\ Len(permits') <= MaxPermits
           /\ permits' \in Seq(Permit)
           /\ permits'[Len(permits) + 1].active
           /\ permits'[Len(permits) + 1].owner = t
           /\ \A p \in 1..Len(permits) : permits'[p] = permits[p]
           /\ Len(scopes'[t]) = Len(scopes[t]) + 1
           /\ \A i \in 1..Len(scopes[t]) : scopes'[t][i] = scopes[t][i]
           /\ scopes'[t][Len(scopes[t]) + 1].permit = Len(permits) + 1
           /\ scopes'[t][Len(scopes[t]) + 1].before = permit[t]
           /\ \A u \in Task : u # t => scopes'[u] = scopes[u] /\ permit'[u] = permit[u]
           /\ permit'[t] = Len(permits) + 1
<1>1. PICK c \in Code :
        permits' = Append(permits, [code |-> c, owner |-> t, active |-> TRUE])
  BY DEF Enter
<1>2. [code |-> c, owner |-> t, active |-> TRUE] \in Permit
  BY DEF Permit
<1>3. permits \in Seq(Permit) /\ Len(permits) \in Nat
  BY DEF AuthorityTypeOK
<1>4. /\ Len(permits') = Len(permits) + 1
      /\ permits' \in Seq(Permit)
      /\ permits'[Len(permits) + 1] = [code |-> c, owner |-> t, active |-> TRUE]
      /\ \A p \in 1..Len(permits) : permits'[p] = permits[p]
  BY <1>1, <1>2, <1>3, AppendProperties
<1> DEFINE e == [permit |-> Len(permits) + 1, before |-> permit[t]]
<1>5. scopes'[t] = Append(scopes[t], e)
  BY DEF Enter, AuthorityTypeOK
<1>6. scopes[t] \in Seq([permit : 1..Len(permits) + 1, before : 0..Len(permits) + 1])
  <2>1. [permit : 1..Len(permits), before : 0..Len(permits)]
            \subseteq [permit : 1..Len(permits) + 1, before : 0..Len(permits) + 1]
    BY <1>3
  <2>2. scopes[t] \in Seq([permit : 1..Len(permits), before : 0..Len(permits)])
    BY DEF AuthorityTypeOK
  <2> QED
    BY <2>1, <2>2, SeqMonotonic
<1>7. e \in [permit : 1..Len(permits) + 1, before : 0..Len(permits) + 1]
  BY <1>3 DEF AuthorityTypeOK
<1>8. /\ Len(scopes'[t]) = Len(scopes[t]) + 1
      /\ \A i \in 1..Len(scopes[t]) : scopes'[t][i] = scopes[t][i]
      /\ scopes'[t][Len(scopes[t]) + 1].permit = Len(permits) + 1
      /\ scopes'[t][Len(scopes[t]) + 1].before = permit[t]
  BY <1>5, <1>6, <1>7, AppendProperties
<1>9. /\ \A u \in Task : u # t => scopes'[u] = scopes[u] /\ permit'[u] = permit[u]
      /\ permit'[t] = Len(permits) + 1
      /\ t \in started /\ started' = started
      /\ Len(permits) < MaxPermits
  BY DEF Enter, AuthorityTypeOK
<1> QED
  BY <1>3, <1>4, <1>8, <1>9, AuthorityAssumption

\* What leaving one makes of them.
LEMMA Left ==
    ASSUME AuthorityTypeOK, NEW t \in Task, Leave(t)
    PROVE  LET n == Len(scopes[t]) last == scopes[t][n] IN
           /\ n \in Nat \ {0} /\ started' = started
           /\ last.permit \in 1..Len(permits)
           /\ Len(permits') = Len(permits) /\ permits' \in Seq(Permit)
           /\ ~permits'[last.permit].active
           /\ \A p \in 1..Len(permits) : permits'[p].owner = permits[p].owner
           /\ \A p \in 1..Len(permits) : p # last.permit => permits'[p] = permits[p]
           /\ Len(scopes'[t]) = n - 1
           /\ \A i \in 1..n - 1 : scopes'[t][i] = scopes[t][i]
           /\ \A u \in Task : u # t => scopes'[u] = scopes[u] /\ permit'[u] = permit[u]
           /\ permit'[t] = last.before
<1> DEFINE R == [permit : 1..Len(permits), before : 0..Len(permits)]
           n == Len(scopes[t])
           last == scopes[t][n]
<1>1. scopes[t] \in Seq(R) /\ n \in Nat /\ n # 0
  BY EmptySeq, LenProperties DEF AuthorityTypeOK, Leave
<1> HIDE DEF R
<1>2. last \in R /\ last.permit \in 1..Len(permits)
  <2>1. n \in 1..Len(scopes[t])
    BY <1>1
  <2>2. last \in R
    BY <1>1, <2>1, ElementOfSeq
  <2> QED
    BY <2>2 DEF R
<1>3. permits \in Seq(Permit) /\ Len(permits) \in Nat
  BY DEF AuthorityTypeOK
<1> DEFINE closed == [permits[last.permit] EXCEPT !.active = FALSE]
<1>4. permits' = [permits EXCEPT ![last.permit] = closed]
  BY DEF Leave
<1>5. permits[last.permit] \in Permit
  BY <1>2, <1>3, ElementOfSeq
<1>6. closed \in Permit /\ ~closed.active /\ closed.owner = permits[last.permit].owner
  BY <1>5 DEF Permit
<1> HIDE DEF closed, last
<1>7. /\ permits' \in Seq(Permit) /\ Len(permits') = Len(permits)
      /\ \A p \in 1..Len(permits) : permits'[p] = IF p = last.permit THEN closed ELSE permits[p]
  BY <1>2, <1>3, <1>4, <1>6, ExceptSeq
<1>8. /\ \A p \in 1..Len(permits) : p # last.permit => permits'[p] = permits[p]
      /\ ~permits'[last.permit].active
      /\ \A p \in 1..Len(permits) : permits'[p].owner = permits[p].owner
  BY <1>2, <1>6, <1>7
<1> USE DEF last
<1>9. scopes'[t] = SubSeq(scopes[t], 1, n - 1)
  BY DEF Leave, AuthorityTypeOK
<1>10. Len(scopes'[t]) = n - 1 /\ \A i \in 1..n - 1 : scopes'[t][i] = scopes[t][i]
  <2>1. \A i \in 1..n - 1 : scopes[t][i] \in R
    BY <1>1, ElementOfSeq
  <2> QED
    BY <1>1, <1>9, <2>1, SubSeqProperties
<1>11. /\ \A u \in Task : u # t => scopes'[u] = scopes[u] /\ permit'[u] = permit[u]
       /\ permit'[t] = last.before /\ started' = started
  BY DEF Leave, AuthorityTypeOK
<1> QED
  BY <1>1, <1>2, <1>7, <1>8, <1>10, <1>11

-----------------------------------------------------------------------------
LEMMA AuthorityStart == AuthorityInit => AuthorityIInv
<1> SUFFICES ASSUME AuthorityInit PROVE AuthorityIInv
  OBVIOUS
<1>1. permits = <<>> /\ Len(permits) = 0 /\ permits \in Seq(Permit)
  BY EmptySeq DEF AuthorityInit
<1>2. \A t \in Task : Len(scopes[t]) = 0
  BY EmptySeq DEF AuthorityInit
<1>3. AuthorityTypeOK
  <2>1. scopes \in [Task -> Seq([permit : 1..Len(permits), before : 0..Len(permits)])]
    BY EmptySeq DEF AuthorityInit
  <2> QED
    BY <1>1, <2>1, AuthorityAssumption DEF AuthorityInit, AuthorityTypeOK
<1>4. ContextInv
  BY <1>2, <1>3 DEF AuthorityInit, AuthorityTypeOK, ContextInv, Foreign
<1> QED
  BY <1>1, <1>2, <1>3, <1>4 DEF AuthorityIInv, OpenInv, LiveInv, NestInv, StartedInv

LEMMA EnterInv == ASSUME AuthorityIInv, NEW t \in Task, Enter(t) PROVE AuthorityIInv'
<1> DEFINE n == Len(scopes[t])
           m == Len(permits)
           R == [permit : 1..m, before : 0..m]
           R1 == [permit : 1..m + 1, before : 0..m + 1]
<1>1. AuthorityTypeOK
  BY DEF AuthorityIInv
<1>s. \A u \in Task : scopes[u] \in Seq(R)
  BY <1>1 DEF AuthorityTypeOK
<1>2. \A u \in Task : Len(scopes[u]) \in Nat
  BY <1>s, LenProperties
<1>3. m \in Nat
  BY <1>1, LenProperties DEF AuthorityTypeOK
<1>4. \A u \in Task : \A i \in 1..Len(scopes[u]) :
          scopes[u][i].permit \in 1..m /\ scopes[u][i].before \in 0..m
  <2> TAKE u \in Task
  <2> TAKE i \in 1..Len(scopes[u])
  <2>1. scopes[u][i] \in R
    BY <1>s, ElementOfSeq
  <2> QED
    BY <2>1
<1>5. permit \in [Task \union Copy -> 0..m]
  BY <1>1 DEF AuthorityTypeOK
<1>e. /\ t \in started /\ started' = started
      /\ Len(permits') = m + 1 /\ Len(permits') <= MaxPermits
      /\ permits' \in Seq(Permit)
      /\ permits'[m + 1].active /\ permits'[m + 1].owner = t
      /\ \A p \in 1..m : permits'[p] = permits[p]
      /\ Len(scopes'[t]) = n + 1
      /\ \A i \in 1..n : scopes'[t][i] = scopes[t][i]
      /\ scopes'[t][n + 1].permit = m + 1
      /\ scopes'[t][n + 1].before = permit[t]
      /\ \A u \in Task : u # t => scopes'[u] = scopes[u] /\ permit'[u] = permit[u]
      /\ permit'[t] = m + 1
  BY <1>1, Entered
<1>6. AuthorityTypeOK'
  <2>1. permit' \in [Task \union Copy -> 0..Len(permits')]
    BY <1>3, <1>5, <1>e DEF Enter
  <2>2. \A u \in Task : scopes[u] \in Seq(R1)
    <3>1. R \subseteq R1
      BY <1>3
    <3> HIDE DEF R, R1
    <3> QED
      BY <1>s, <3>1, SeqMonotonic
  <2>3. [permit |-> m + 1, before |-> permit[t]] \in R1
    BY <1>3, <1>5
  <2>4. Append(scopes[t], [permit |-> m + 1, before |-> permit[t]]) \in Seq(R1)
    BY <2>2, <2>3, AppendProperties
  <2>5. scopes' \in [Task -> Seq(R1)]
    BY <1>1, <2>2, <2>4 DEF Enter, AuthorityTypeOK
  <2>6. Len(permits') = m + 1 /\ permits' \in Seq(Permit) /\ Len(permits') <= MaxPermits
    BY <1>1, Entered
  <2> QED
    BY <1>1, <2>1, <2>5, <2>6 DEF AuthorityTypeOK, Enter
<1>f. /\ \A u \in Task : \A i \in 1..Len(scopes[u]) :
             i \in 1..Len(scopes'[u]) /\ scopes'[u][i] = scopes[u][i]
      /\ \A u \in Task : \A i \in 1..Len(scopes'[u]) :
             i \in 1..Len(scopes[u]) \/ (u = t /\ i = n + 1)
  <2> SUFFICES ASSUME NEW u \in Task
               PROVE  /\ \A i \in 1..Len(scopes[u]) :
                             i \in 1..Len(scopes'[u]) /\ scopes'[u][i] = scopes[u][i]
                      /\ \A i \in 1..Len(scopes'[u]) :
                             i \in 1..Len(scopes[u]) \/ (u = t /\ i = n + 1)
    BY Zenon
  <2>1. CASE u = t
    BY <2>1, <1>2, <1>e
  <2>2. CASE u # t
    BY <2>2, <1>e
  <2> QED
    BY <2>1, <2>2
<1>g. \A p \in 1..Len(permits') : p \in 1..m \/ p = m + 1
  BY <1>3, <1>e
<1> HIDE DEF m, n, R, R1
<1>7. OpenInv'
  <2> SUFFICES ASSUME NEW u \in Task, NEW i \in 1..Len(scopes'[u])
               PROVE  /\ permits'[scopes'[u][i].permit].active
                      /\ permits'[scopes'[u][i].permit].owner = u
                      /\ \A j \in 1..Len(scopes'[u]) :
                             scopes'[u][i].permit = scopes'[u][j].permit => i = j
    BY DEF OpenInv
  <2>1. CASE i \in 1..Len(scopes[u])
    <3>1. /\ scopes'[u][i] = scopes[u][i] /\ scopes[u][i].permit \in 1..m
          /\ permits'[scopes[u][i].permit] = permits[scopes[u][i].permit]
      BY <2>1, <1>4, <1>e, <1>f
    <3>2. ASSUME NEW j \in 1..Len(scopes'[u]), scopes'[u][i].permit = scopes'[u][j].permit
          PROVE  i = j
      <4>1. ~(u = t /\ j = n + 1)
        BY <3>1, <3>2, <1>3, <1>e
      <4>2. j \in 1..Len(scopes[u]) /\ scopes'[u][j] = scopes[u][j]
        BY <4>1, <1>f
      <4> QED
        BY <2>1, <3>1, <3>2, <4>2 DEF AuthorityIInv, OpenInv
    <3> QED
      BY <2>1, <3>1, <3>2 DEF AuthorityIInv, OpenInv
  <2>2. CASE u = t /\ i = n + 1
    <3>1. ASSUME NEW j \in 1..Len(scopes'[u]), scopes'[u][i].permit = scopes'[u][j].permit
          PROVE  i = j
      <4>1. ~(j \in 1..Len(scopes[u]))
        <5>1. SUFFICES ASSUME j \in 1..Len(scopes[u]) PROVE FALSE
          OBVIOUS
        <5>2. scopes[u][j].permit \in 1..m /\ scopes[u][j].permit = m + 1
          BY <2>2, <3>1, <5>1, <1>4, <1>e, <1>f
        <5> QED
          BY <5>2, <1>3
      <4> QED
        BY <2>2, <4>1, <1>f
    <3> QED
      BY <2>2, <3>1, <1>e
  <2> QED
    BY <2>1, <2>2, <1>f
<1>8. LiveInv'
  <2> SUFFICES ASSUME NEW p \in 1..Len(permits'), permits'[p].active
               PROVE  \E i \in 1..Len(scopes'[permits'[p].owner]) :
                          scopes'[permits'[p].owner][i].permit = p
    BY DEF LiveInv
  <2>1. CASE p = m + 1
    <3>1. n + 1 \in 1..Len(scopes'[t])
      BY <1>2, <1>e DEF n
    <3> QED
      BY <2>1, <3>1, <1>e
  <2>2. CASE p \in 1..m
    <3>1. permits[p] \in Permit
      BY <1>1, <2>2, ElementOfSeq DEF AuthorityTypeOK, m
    <3>2. permits[p].owner \in Task /\ permits'[p] = permits[p]
      BY <1>e, <2>2, <3>1 DEF Permit
    <3>3. PICK i \in 1..Len(scopes[permits[p].owner]) : scopes[permits[p].owner][i].permit = p
      BY <2>2, <3>2 DEF AuthorityIInv, LiveInv, m
    <3>4. i \in 1..Len(scopes'[permits'[p].owner]) /\ scopes'[permits'[p].owner][i].permit = p
      BY <3>2, <3>3, <1>f
    <3> QED
      BY <3>4
  <2> QED
    BY <2>1, <2>2, <1>g
<1>9. NestInv'
  <2> SUFFICES ASSUME NEW u \in Task, NEW i \in 1..Len(scopes'[u])
               PROVE  IF i = 1 THEN \/ scopes'[u][i].before = 0
                                    \/ permits'[scopes'[u][i].before].owner # u
                               ELSE scopes'[u][i].before = scopes'[u][i - 1].permit
    BY DEF NestInv, Foreign
  <2>1. CASE i \in 1..Len(scopes[u])
    <3>1. scopes'[u][i] = scopes[u][i]
      BY <2>1, <1>f
    <3>2. CASE i = 1
      <4>1. scopes[u][i].before = 0 \/ permits[scopes[u][i].before].owner # u
        BY <2>1, <3>2 DEF AuthorityIInv, NestInv, Foreign
      <4>2. scopes[u][i].before \in 0..m
        BY <2>1, <1>4
      <4>3. \/ scopes[u][i].before = 0
            \/ permits'[scopes[u][i].before] = permits[scopes[u][i].before]
        BY <4>2, <1>3, <1>e
      <4> QED
        BY <3>1, <3>2, <4>1, <4>3
    <3>3. CASE i # 1
      <4>1. i - 1 \in 1..Len(scopes[u]) /\ scopes[u][i].before = scopes[u][i - 1].permit
        BY <2>1, <3>3, <1>2 DEF AuthorityIInv, NestInv
      <4> QED
        BY <3>1, <3>3, <4>1, <1>f
    <3> QED
      BY <3>2, <3>3
  <2>2. CASE u = t /\ i = n + 1
    <3>1. CASE n = 0
      <4>1. permit[t] = 0 \/ permits[permit[t]].owner # t
        BY <3>1, <1>e DEF AuthorityIInv, ContextInv, Foreign, n
      <4>2. permit[t] = 0 \/ permits'[permit[t]] = permits[permit[t]]
        BY <1>3, <1>5, <1>e
      <4> QED
        BY <2>2, <3>1, <4>1, <4>2, <1>e
    <3>2. CASE n # 0
      <4>1. n \in 1..Len(scopes[t]) /\ n + 1 # 1 /\ (n + 1) - 1 = n
        BY <3>2, <1>2 DEF n
      <4>2. permit[t] = scopes[t][n].permit
        BY <3>2, <1>e DEF AuthorityIInv, ContextInv, n
      <4>3. scopes'[t][n] = scopes[t][n]
        BY <4>1, <1>f
      <4> QED
        BY <2>2, <4>1, <4>2, <4>3, <1>e
    <3> QED
      BY <3>1, <3>2
  <2> QED
    BY <2>1, <2>2, <1>f
<1>10. ContextInv'
  <2> SUFFICES ASSUME NEW u \in started
               PROVE  IF Len(scopes'[u]) = 0
                          THEN permit'[u] = 0 \/ permits'[permit'[u]].owner # u
                          ELSE permit'[u] = scopes'[u][Len(scopes'[u])].permit
    BY <1>e DEF ContextInv, Foreign
  <2>1. u \in Task
    BY <1>1 DEF AuthorityTypeOK
  <2>2. CASE u # t
    <3>1. scopes'[u] = scopes[u] /\ permit'[u] = permit[u]
      BY <2>1, <2>2, <1>e
    <3>2. permit[u] = 0 \/ permits'[permit[u]] = permits[permit[u]]
      BY <2>1, <1>3, <1>5, <1>e
    <3> QED
      BY <3>1, <3>2 DEF AuthorityIInv, ContextInv, Foreign
  <2>3. CASE u = t
    BY <2>3, <1>2, <1>e DEF n
  <2> QED
    BY <2>2, <2>3
<1>11. StartedInv'
  <2>1. \A p \in 1..Len(permits') : permits'[p].owner \in started'
    BY <1>e, <1>g DEF AuthorityIInv, StartedInv, m
  <2>2. \A u \in Task : Len(scopes'[u]) # 0 => u \in started'
    BY <1>e DEF AuthorityIInv, StartedInv
  <2> QED
    BY <2>1, <2>2 DEF StartedInv
<1> QED
  BY <1>6, <1>7, <1>8, <1>9, <1>10, <1>11 DEF AuthorityIInv

LEMMA LeaveInv == ASSUME AuthorityIInv, NEW t \in Task, Leave(t) PROVE AuthorityIInv'
<1> DEFINE n == Len(scopes[t])
           m == Len(permits)
           R == [permit : 1..m, before : 0..m]
           last == scopes[t][n]
<1>1. AuthorityTypeOK
  BY DEF AuthorityIInv
<1>s. \A u \in Task : scopes[u] \in Seq(R)
  BY <1>1 DEF AuthorityTypeOK
<1>2. \A u \in Task : Len(scopes[u]) \in Nat
  BY <1>s, LenProperties
<1>3. m \in Nat
  BY <1>1, LenProperties DEF AuthorityTypeOK
<1>4. \A u \in Task : \A i \in 1..Len(scopes[u]) :
          scopes[u][i].permit \in 1..m /\ scopes[u][i].before \in 0..m
  <2> TAKE u \in Task
  <2> TAKE i \in 1..Len(scopes[u])
  <2>1. scopes[u][i] \in R
    BY <1>s, ElementOfSeq
  <2> QED
    BY <2>1
<1>e. /\ n \in Nat \ {0} /\ started' = started
      /\ last.permit \in 1..m
      /\ Len(permits') = m /\ permits' \in Seq(Permit)
      /\ ~permits'[last.permit].active
      /\ \A p \in 1..m : permits'[p].owner = permits[p].owner
      /\ \A p \in 1..m : p # last.permit => permits'[p] = permits[p]
      /\ Len(scopes'[t]) = n - 1
      /\ \A i \in 1..n - 1 : scopes'[t][i] = scopes[t][i]
      /\ \A u \in Task : u # t => scopes'[u] = scopes[u] /\ permit'[u] = permit[u]
      /\ permit'[t] = last.before
  BY <1>1, Left
<1>5. permit \in [Task \union Copy -> 0..m] /\ last.before \in 0..m /\ n \in 1..n
  BY <1>1, <1>4, <1>e DEF AuthorityTypeOK
<1>6. AuthorityTypeOK'
  <2>1. permit' \in [Task \union Copy -> 0..Len(permits')]
    BY <1>5, <1>e DEF Leave
  <2>2. SubSeq(scopes[t], 1, n - 1) \in Seq(R)
    <3>1. \A i \in 1..n - 1 : i \in 1..Len(scopes[t])
      BY <1>e
    <3> HIDE DEF R
    <3>2. \A i \in 1..n - 1 : scopes[t][i] \in R
      BY <1>s, <3>1, ElementOfSeq
    <3> QED
      BY <1>e, <3>2, SubSeqProperties
  <2>3. scopes' \in [Task -> Seq(R)]
    BY <1>1, <2>2 DEF Leave, AuthorityTypeOK
  <2> QED
    BY <1>1, <1>e, <2>1, <2>3 DEF AuthorityTypeOK
<1>f. /\ \A u \in Task : \A i \in 1..Len(scopes'[u]) :
             i \in 1..Len(scopes[u]) /\ scopes'[u][i] = scopes[u][i] /\ ~(u = t /\ i = n)
      /\ \A u \in Task : \A i \in 1..Len(scopes[u]) :
             i \in 1..Len(scopes'[u]) \/ (u = t /\ i = n)
  <2> SUFFICES ASSUME NEW u \in Task
               PROVE  /\ \A i \in 1..Len(scopes'[u]) :
                             i \in 1..Len(scopes[u]) /\ scopes'[u][i] = scopes[u][i] /\ ~(u = t /\ i = n)
                      /\ \A i \in 1..Len(scopes[u]) :
                             i \in 1..Len(scopes'[u]) \/ (u = t /\ i = n)
    BY Zenon
  <2>1. CASE u = t
    BY <2>1, <1>2, <1>e
  <2>2. CASE u # t
    BY <2>2, <1>e
  <2> QED
    BY <2>1, <2>2
<1> HIDE DEF m, n, R, last
\* The permit of a scope that stays open is not the one that ends.
<1>g. \A u \in Task : \A i \in 1..Len(scopes'[u]) : scopes[u][i].permit # last.permit
  <2> SUFFICES ASSUME NEW u \in Task, NEW i \in 1..Len(scopes'[u]),
                      scopes[u][i].permit = last.permit
               PROVE  FALSE
    BY Zenon
  <2>1. i \in 1..Len(scopes[u]) /\ ~(u = t /\ i = n)
    BY <1>f
  <2>2. n \in 1..Len(scopes[t])
    BY <1>5 DEF n
  <2>3. /\ permits[last.permit].owner = t
        /\ \A j \in 1..Len(scopes[t]) : last.permit = scopes[t][j].permit => n = j
    BY <2>2 DEF AuthorityIInv, OpenInv, last
  <2>4. permits[last.permit].owner = u
    BY <2>1 DEF AuthorityIInv, OpenInv
  <2>5. CASE u = t
    BY <2>1, <2>3, <2>5
  <2>6. CASE u # t
    BY <2>3, <2>4, <2>6
  <2> QED
    BY <2>5, <2>6
<1>7. OpenInv'
  <2> SUFFICES ASSUME NEW u \in Task, NEW i \in 1..Len(scopes'[u])
               PROVE  /\ permits'[scopes'[u][i].permit].active
                      /\ permits'[scopes'[u][i].permit].owner = u
                      /\ \A j \in 1..Len(scopes'[u]) :
                             scopes'[u][i].permit = scopes'[u][j].permit => i = j
    BY DEF OpenInv
  <2>1. /\ i \in 1..Len(scopes[u]) /\ scopes'[u][i] = scopes[u][i]
        /\ permits'[scopes[u][i].permit] = permits[scopes[u][i].permit]
    BY <1>4, <1>e, <1>f, <1>g
  <2> QED
    BY <2>1, <1>f DEF AuthorityIInv, OpenInv
<1>8. LiveInv'
  <2> SUFFICES ASSUME NEW p \in 1..Len(permits'), permits'[p].active
               PROVE  \E i \in 1..Len(scopes'[permits'[p].owner]) :
                          scopes'[permits'[p].owner][i].permit = p
    BY DEF LiveInv
  <2>1. p \in 1..m /\ p # last.permit /\ permits'[p] = permits[p]
    BY <1>e
  <2>2. permits[p] \in Permit
    BY <1>1, <2>1, ElementOfSeq DEF AuthorityTypeOK, m
  <2>3. PICK i \in 1..Len(scopes[permits[p].owner]) : scopes[permits[p].owner][i].permit = p
    BY <2>1 DEF AuthorityIInv, LiveInv, m
  <2>4. permits[p].owner \in Task /\ ~(permits[p].owner = t /\ i = n)
    BY <2>1, <2>2, <2>3 DEF Permit, last
  <2> QED
    BY <2>1, <2>3, <2>4, <1>f
<1>9. NestInv'
  <2> SUFFICES ASSUME NEW u \in Task, NEW i \in 1..Len(scopes'[u])
               PROVE  IF i = 1 THEN \/ scopes'[u][i].before = 0
                                    \/ permits'[scopes'[u][i].before].owner # u
                               ELSE scopes'[u][i].before = scopes'[u][i - 1].permit
    BY DEF NestInv, Foreign
  <2>1. i \in 1..Len(scopes[u]) /\ scopes'[u][i] = scopes[u][i]
    BY <1>f
  <2>2. CASE i = 1
    <3>1. scopes[u][i].before = 0 \/ permits[scopes[u][i].before].owner # u
      BY <2>1, <2>2 DEF AuthorityIInv, NestInv, Foreign
    <3>2. \/ scopes[u][i].before = 0
          \/ permits'[scopes[u][i].before].owner = permits[scopes[u][i].before].owner
      BY <2>1, <1>3, <1>4, <1>e
    <3> QED
      BY <2>1, <2>2, <3>1, <3>2
  <2>3. CASE i # 1
    <3>1. i - 1 \in 1..Len(scopes'[u])
      <4>1. Len(scopes'[u]) \in Nat /\ i \in Nat /\ i >= 1 /\ i <= Len(scopes'[u])
        BY <1>2, <1>e DEF n
      <4> QED
        BY <2>3, <4>1
    <3> QED
      BY <2>1, <2>3, <3>1, <1>f DEF AuthorityIInv, NestInv
  <2> QED
    BY <2>2, <2>3
<1>10. ContextInv'
  <2> SUFFICES ASSUME NEW u \in started
               PROVE  IF Len(scopes'[u]) = 0
                          THEN permit'[u] = 0 \/ permits'[permit'[u]].owner # u
                          ELSE permit'[u] = scopes'[u][Len(scopes'[u])].permit
    BY <1>e DEF ContextInv, Foreign
  <2>1. u \in Task
    BY <1>1 DEF AuthorityTypeOK
  <2>2. CASE u # t
    <3>1. scopes'[u] = scopes[u] /\ permit'[u] = permit[u]
      BY <2>1, <2>2, <1>e
    <3>2. permit[u] = 0 \/ permits'[permit[u]].owner = permits[permit[u]].owner
      BY <2>1, <1>3, <1>5, <1>e
    <3> QED
      BY <3>1, <3>2 DEF AuthorityIInv, ContextInv, Foreign
  <2>3. CASE u = t /\ n = 1
    <3>1. last.before = 0 \/ permits[last.before].owner # t
      BY <2>3, <1>5 DEF AuthorityIInv, NestInv, Foreign, last, n
    <3>2. last.before = 0 \/ permits'[last.before].owner = permits[last.before].owner
      BY <1>3, <1>5, <1>e
    <3> QED
      BY <2>3, <3>1, <3>2, <1>e
  <2>4. CASE u = t /\ n # 1
    <3>1. last.before = scopes[t][n - 1].permit
      BY <2>4, <1>5 DEF AuthorityIInv, NestInv, last, n
    <3>2. n - 1 # 0 /\ n - 1 \in 1..n - 1
      BY <2>4, <1>e
    <3> QED
      BY <2>4, <3>1, <3>2, <1>e
  <2> QED
    BY <2>2, <2>3, <2>4
<1>11. StartedInv'
  <2>1. \A p \in 1..Len(permits') : permits'[p].owner \in started'
    BY <1>e DEF AuthorityIInv, StartedInv, m
  <2>2. \A u \in Task : Len(scopes'[u]) # 0 => u \in started'
    <3> SUFFICES ASSUME NEW u \in Task, Len(scopes'[u]) # 0 PROVE u \in started
      BY <1>e
    <3>1. CASE u = t
      BY <3>1, <1>e DEF AuthorityIInv, StartedInv, n
    <3>2. CASE u # t
      BY <3>2, <1>e DEF AuthorityIInv, StartedInv
    <3> QED
      BY <3>1, <3>2
  <2> QED
    BY <2>1, <2>2 DEF StartedInv
<1> QED
  BY <1>6, <1>7, <1>8, <1>9, <1>10, <1>11 DEF AuthorityIInv

\* A step that leaves permits and scopes alone keeps the three parts about them.
LEMMA SameScopes ==
    ASSUME AuthorityIInv, permits' = permits, scopes' = scopes
    PROVE  OpenInv' /\ LiveInv' /\ NestInv'
<1>1. OpenInv'
  BY DEF AuthorityIInv, OpenInv
<1>2. LiveInv'
  BY DEF AuthorityIInv, LiveInv
<1>3. NestInv'
  BY DEF AuthorityIInv, NestInv, Foreign
<1> QED
  BY <1>1, <1>2, <1>3

\* A child is given its parent's permit before it has one of its own.
LEMMA SpawnInv == ASSUME AuthorityIInv, NEW t \in Task, NEW child \in Task, Spawn(t, child) PROVE AuthorityIInv'
<1>1. /\ t \in started /\ child \notin started /\ started' = started \union {child}
      /\ permits' = permits /\ scopes' = scopes
      /\ permit'[child] = permit[t]
      /\ \A u \in Task : u # child => permit'[u] = permit[u]
  BY DEF Spawn, AuthorityIInv, AuthorityTypeOK
<1>2. AuthorityTypeOK'
  BY <1>1 DEF Spawn, AuthorityIInv, AuthorityTypeOK
<1>3. OpenInv' /\ LiveInv' /\ NestInv'
  BY <1>1, SameScopes
<1>4. StartedInv'
  BY <1>1 DEF AuthorityIInv, StartedInv
<1>5. ContextInv'
  <2> SUFFICES ASSUME NEW u \in started \union {child}
               PROVE  IF Len(scopes[u]) = 0
                          THEN permit'[u] = 0 \/ permits[permit'[u]].owner # u
                          ELSE permit'[u] = scopes[u][Len(scopes[u])].permit
    BY <1>1 DEF ContextInv, Foreign
  <2>1. CASE u = child
    <3>1. Len(scopes[u]) = 0
      BY <1>1, <2>1 DEF AuthorityIInv, StartedInv
    <3>2. permit[t] \in 0..Len(permits) /\ Len(permits) \in Nat
      BY LenProperties DEF AuthorityIInv, AuthorityTypeOK
    <3>3. permit[t] # 0 => permits[permit[t]].owner \in started
      BY <3>2 DEF AuthorityIInv, StartedInv
    <3> QED
      BY <1>1, <2>1, <3>1, <3>3
  <2>2. CASE u # child
    BY <1>1, <2>2 DEF AuthorityIInv, ContextInv, Foreign, AuthorityTypeOK
  <2> QED
    BY <2>1, <2>2
<1> QED
  BY <1>2, <1>3, <1>4, <1>5 DEF AuthorityIInv

\* A saved context is no task's own.
LEMMA SaveInv == ASSUME AuthorityIInv, NEW t \in Task, NEW k \in Copy, Save(t, k) PROVE AuthorityIInv'
<1>1. /\ started' = started /\ permits' = permits /\ scopes' = scopes
      /\ \A u \in Task : permit'[u] = permit[u]
  BY AuthorityAssumption DEF Save, AuthorityIInv, AuthorityTypeOK
<1>2. AuthorityTypeOK'
  BY <1>1 DEF Save, AuthorityIInv, AuthorityTypeOK
<1>3. OpenInv' /\ LiveInv' /\ NestInv'
  BY <1>1, SameScopes
<1>4. StartedInv' /\ ContextInv'
  BY <1>1 DEF AuthorityIInv, AuthorityTypeOK, StartedInv, ContextInv, Foreign
<1> QED
  BY <1>2, <1>3, <1>4 DEF AuthorityIInv

\* The invariant the properties below follow from.
THEOREM AuthorityInvariance == AuthoritySpec => []AuthorityIInv
<1>1. AuthorityInit => AuthorityIInv
  BY AuthorityStart
<1>2. AuthorityIInv /\ [AuthorityNext]_authorityVars => AuthorityIInv'
  <2> SUFFICES ASSUME AuthorityIInv, [AuthorityNext]_authorityVars PROVE AuthorityIInv'
    OBVIOUS
  <2>1. ASSUME NEW t \in Task, Enter(t) PROVE AuthorityIInv'
    BY <2>1, EnterInv
  <2>2. ASSUME NEW t \in Task, Leave(t) PROVE AuthorityIInv'
    BY <2>2, LeaveInv
  <2>3. ASSUME NEW t \in Task, NEW child \in Task, Spawn(t, child) PROVE AuthorityIInv'
    BY <2>3, SpawnInv
  <2>4. ASSUME NEW t \in Task, NEW k \in Copy, Save(t, k) PROVE AuthorityIInv'
    BY <2>4, SaveInv
  <2>5. CASE UNCHANGED authorityVars
    <3>1. permits' = permits /\ permit' = permit /\ scopes' = scopes /\ started' = started
      BY <2>5 DEF authorityVars
    <3>2. AuthorityTypeOK'
      BY <3>1 DEF AuthorityIInv, AuthorityTypeOK
    <3>3. OpenInv' /\ LiveInv' /\ NestInv'
      BY <3>1, SameScopes
    <3>4. ContextInv' /\ StartedInv'
      BY <3>1 DEF AuthorityIInv, ContextInv, StartedInv, Foreign
    <3> QED
      BY <3>2, <3>3, <3>4 DEF AuthorityIInv
  <2> QED
    BY <2>1, <2>2, <2>3, <2>4, <2>5 DEF AuthorityNext
<1> QED
  BY <1>1, <1>2, PTL DEF AuthoritySpec

\* The state of request_script_authority.py keeps its types: a context only
\* ever names a permit that was made, a task's scopes likewise.
THEOREM AuthorityTypes == AuthoritySpec => []AuthorityTypeOK
<1>1. AuthorityIInv => AuthorityTypeOK
  BY DEF AuthorityIInv
<1> QED
  BY <1>1, AuthorityInvariance, PTL

\* "Context inheritance is not authorization" (request_script_authority.py:5):
\* whatever is spawned, copied and nested, timeout_for grants a task the
\* programs of its own open scopes only, and a thread none.
THEOREM Scoped == AuthoritySpec => []PermitIsScoped
<1>1. ASSUME AuthorityIInv PROVE PermitIsScoped
  <2> USE <1>1
  <2>s. permits \in Seq(Permit) /\ Len(permits) \in Nat
    BY LenProperties DEF AuthorityIInv, AuthorityTypeOK
  <2>1. \A k \in Task \union Copy : permit[k] # 0 =>
            permit[k] \in 1..Len(permits) /\ permits[permit[k]].owner \in Task
    <3> SUFFICES ASSUME NEW k \in Task \union Copy, permit[k] # 0
                 PROVE  permit[k] \in 1..Len(permits) /\ permits[permit[k]].owner \in Task
      BY Zenon
    <3>1. permit[k] \in 1..Len(permits)
      BY <2>s DEF AuthorityIInv, AuthorityTypeOK
    <3>2. permits[permit[k]] \in Permit
      BY <2>s, <3>1, ElementOfSeq
    <3> QED
      BY <3>1, <3>2 DEF Permit
  <2> SUFFICES ASSUME NEW c \in Code, NEW k \in Task \union Copy
               PROVE  /\ ~Granted(None, k, c)
                      /\ \A t \in started :
                           /\ Granted(t, t, c) <=>
                                  /\ scopes[t] # <<>>
                                  /\ permits[scopes[t][Len(scopes[t])].permit].code = c
                           /\ Granted(t, k, c) =>
                                  \E i \in DOMAIN scopes[t] : permits[scopes[t][i].permit].code = c
    BY Zenon DEF PermitIsScoped
  <2>2. ~Granted(None, k, c)
    BY <2>1, AuthorityAssumption DEF Granted
  <2>3. ASSUME NEW t \in started
        PROVE  /\ Granted(t, t, c) <=>
                      /\ scopes[t] # <<>>
                      /\ permits[scopes[t][Len(scopes[t])].permit].code = c
               /\ Granted(t, k, c) =>
                      \E i \in DOMAIN scopes[t] : permits[scopes[t][i].permit].code = c
    <3>1. t \in Task
      BY DEF AuthorityIInv, AuthorityTypeOK
    <3>2. /\ Len(scopes[t]) \in Nat /\ (scopes[t] # <<>> <=> Len(scopes[t]) # 0)
          /\ DOMAIN scopes[t] = 1..Len(scopes[t])
      BY <3>1, LenProperties, EmptySeq DEF AuthorityIInv, AuthorityTypeOK
    <3>3. CASE Len(scopes[t]) = 0
      <4>1. ~Granted(t, t, c)
        BY <3>3 DEF AuthorityIInv, ContextInv, Foreign, Granted
      <4>2. ~Granted(t, k, c)
        BY <3>3, <2>1 DEF Granted, AuthorityIInv, LiveInv
      <4> QED
        BY <3>2, <3>3, <4>1, <4>2
    <3>4. CASE Len(scopes[t]) # 0
      <4> DEFINE last == scopes[t][Len(scopes[t])].permit
      <4>1. Len(scopes[t]) \in 1..Len(scopes[t])
        BY <3>2, <3>4
      <4>2. permit[t] = last /\ permits[last].active /\ permits[last].owner = t
        BY <3>1, <3>4, <4>1 DEF AuthorityIInv, OpenInv, ContextInv
      <4>3. last # 0
        <5>1. scopes[t] \in Seq([permit : 1..Len(permits), before : 0..Len(permits)])
          BY <3>1 DEF AuthorityIInv, AuthorityTypeOK
        <5>2. scopes[t][Len(scopes[t])] \in [permit : 1..Len(permits), before : 0..Len(permits)]
          BY <4>1, <5>1, ElementOfSeq
        <5> QED
          BY <5>2
      <4>4. Granted(t, t, c) <=> permits[last].code = c
        BY <4>2, <4>3 DEF Granted
      <4>5. Granted(t, k, c) =>
                \E i \in 1..Len(scopes[t]) : permits[scopes[t][i].permit].code = c
        <5> SUFFICES ASSUME Granted(t, k, c)
                     PROVE  \E i \in 1..Len(scopes[t]) : permits[scopes[t][i].permit].code = c
          OBVIOUS
        <5>1. /\ permit[k] \in 1..Len(permits) /\ permits[permit[k]].active
              /\ permits[permit[k]].owner = t /\ permits[permit[k]].code = c
          BY <2>1 DEF Granted
        <5> QED
          BY <5>1 DEF AuthorityIInv, LiveInv
      <4> QED
        BY <3>2, <3>4, <4>4, <4>5
    <3> QED
      BY <3>3, <3>4
  <2> QED
    BY <2>2, <2>3
<1> QED
  BY <1>1, AuthorityInvariance, PTL

=============================================================================
