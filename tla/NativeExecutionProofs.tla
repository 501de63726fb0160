------------------------- MODULE NativeExecutionProofs -------------------------
(***************************************************************************)
(* Theorems of NativeExecution for every set of revisions and every bound. *)
(***************************************************************************)
EXTENDS NativeExecution, TLAPS

-----------------------------------------------------------------------------
(* The inductive invariant *)

Inside == {"building"} \union Started
Before == {"idle", "queued", "building"}

\* The lease's holder is inside it; a run leaves no trace before it reserves,
\* and once it has, it is listed; a server that is down remembers nothing.
PhaseInv ==
    /\ \A r \in Run : pc[r] \in Inside <=> holder = r
    /\ \A r \in Run : pc[r] \in Before => files[r] = {} /\ terminal[r] = "none" /\ cb[r] = "none"
    /\ \A r \in Run : pc[r] = "sending" => cb[r] = "none" /\ terminal[r] = "none"
    /\ \A r \in Run : pc[r] \in Started => r \in unresolved /\ "pending" \in files[r]
    /\ ~serving => /\ holder = None /\ ticket = NoTicket /\ owned = NoTicket
                   /\ \A r \in Run : pc[r] \in {"idle", "gone"}

\* The runner owns the lease's ticket, or none; inside the lease only a polling
\* run's own ticket can be set.
TicketInv ==
    /\ owned \in {NoTicket, ticket}
    /\ ticket = Foreign => owned = NoTicket
    /\ ticket # NoTicket /\ holder # None =>
          /\ owned = ticket
          /\ \E r \in Run : holder = r /\ pc[r] = "polling"

\* What the receipts say of the callback.
EvidenceInv ==
    \A r \in Run :
        /\ cb[r] \in Alive => terminal[r] = "none"
        /\ cb[r] = "running" => "started" \in files[r]
        /\ terminal[r] = "completed" => cb[r] = "ended" /\ "started" \in files[r]
        /\ cb[r] # "none" => "pending" \in files[r]
        /\ "reset" \in files[r] => terminal[r] = "unrestored"

\* A callback that has proven nothing is listed, and it is the holder's, or the
\* lease is sealed and empty.
ProofInv ==
    serving => \A r \in Run : cb[r] # "none" /\ ~Proven(r) =>
        /\ r \in unresolved
        /\ Attended(r) \/ (ticket # NoTicket /\ holder = None)

IInv ==
    /\ TypeOK /\ PhaseInv /\ TicketInv /\ EvidenceInv /\ ProofInv
    /\ CancelledNeverDispatched /\ ResultIsProven

-----------------------------------------------------------------------------
\* The case split of every inductive step below.
LEMMA NextCases ==
    ASSUME [Next]_vars, NEW P,
           ASSUME NEW r \in Run, Execute(r) \/ Enter(r) PROVE P,
           ASSUME NEW r \in Run, Reserve(r) PROVE P,
           ASSUME NEW r \in Run, ReserveFails(r) \/ WorkCancelled(r) PROVE P,
           ASSUME NEW r \in Run, NotSent(r) \/ Blocked(r) PROVE P,
           ASSUME NEW r \in Run, NotSentNorSaid(r) PROVE P,
           ASSUME NEW r \in Run, Send(r) PROVE P,
           ASSUME NEW r \in Run, Answered(r) \/ Unobserved(r) PROVE P,
           ASSUME NEW r \in Run, Accept(r) PROVE P,
           ASSUME NEW r \in Run, GiveUp(r) PROVE P,
           ASSUME NEW r \in Run, Cancel(r) \/ Cancelled(r) PROVE P,
           ASSUME NEW r \in Run, StartCallback(r) \/ FinishCallback(r) PROVE P,
           ASSUME NEW r \in Run, Alter(r) \/ Reset(r) PROVE P,
           ASSUME BlenderDies PROVE P,
           ASSUME Others PROVE P,
           ASSUME Crash PROVE P,
           ASSUME Restart PROVE P,
           ASSUME Reconcile PROVE P,
           ASSUME UNCHANGED vars PROVE P
    PROVE  P
BY Zenon DEF Next, Work, Observe, Poll, Callback

\* Tickets are tickets, and the ones of the runner are nobody else's.
LEMMA Tickets ==
    /\ NoTicket \in Ticket /\ Foreign \in Ticket /\ Foreign # NoTicket
    /\ \A r \in Run : Uuid(r) \in Ticket /\ Uuid(r) \notin {NoTicket, Foreign}
    /\ \A runs \in SUBSET Run : Digest(runs) \in Ticket /\ Digest(runs) \notin {NoTicket, Foreign}
<1>1. NoTicket \in Ticket /\ Foreign \in Ticket /\ Foreign # NoTicket
  BY DEF NoTicket, Foreign, Ticket
<1>2. \A r \in Run : Uuid(r) \in Ticket /\ Uuid(r) \notin {NoTicket, Foreign}
  BY DEF NoTicket, Foreign, Ticket, Uuid
<1>3. \A runs \in SUBSET Run : Digest(runs) \in Ticket /\ Digest(runs) \notin {NoTicket, Foreign}
  BY DEF NoTicket, Foreign, Ticket, Digest
<1> QED BY <1>1, <1>2, <1>3

\* A scan only adds acknowledgements of restored runs, and lists every unproven one.
LEMMA ScanFacts ==
    ASSUME TypeOK, NEW failing \in Failing, Scan(failing)
    PROVE  /\ files' \in [Run -> SUBSET Receipt]
           /\ unresolved' \in SUBSET Run
           /\ \A r \in Run : Unproven(r) => r \in unresolved'
           /\ \A r \in Run : \A x \in Receipt \ {"ack"} : x \in files'[r] <=> x \in files[r]
           /\ \A r \in Run : files[r] \subseteq files'[r]
           /\ \A r \in Run : files'[r] # files[r] => "pending" \in files[r]
<1>1. failing \subseteq Run
  BY DEF Failing
<1>2. files' \in [Run -> SUBSET Receipt]
  BY DEF Scan, TypeOK, Receipt
<1>3. \A r \in Run : files'[r] = files[r] \/ (files'[r] = files[r] \union {"ack"} /\ "pending" \in files[r])
  BY DEF Scan, TypeOK, Acknowledgeable
<1>4. unresolved' \in SUBSET Run /\ \A r \in Run : Unproven(r) => r \in unresolved'
  BY <1>1 DEF Scan
<1> QED BY <1>2, <1>3, <1>4

\* Settling keeps the two copies of the ticket together, and opens Blender only
\* when nothing is unresolved.
LEMMA SettleFacts ==
    ASSUME TypeOK, TicketInv, Settle, unresolved' \in SUBSET Run
    PROVE  /\ ticket' \in Ticket /\ owned' \in Ticket
           /\ owned' \in {NoTicket, ticket'}
           /\ ticket' = Foreign => owned' = NoTicket
           /\ ticket = Foreign => ticket' = Foreign
           /\ ticket' = NoTicket => unresolved' = {} \/ (Refused /\ ticket = NoTicket)
           /\ ticket' # ticket => unresolved' = {} \/ ~Busy
<1> USE Tickets
<1>1. CASE unresolved' = {}
  BY <1>1 DEF Settle, TypeOK, TicketInv
<1>2. CASE unresolved' # {} /\ (owned # NoTicket \/ Refused)
  <2>1. ticket' = ticket /\ owned' = owned
    BY <1>2 DEF Settle
  <2> QED BY <1>2, <2>1 DEF TypeOK, TicketInv
<1>3. CASE unresolved' # {} /\ owned = NoTicket /\ ~Refused
  <2>1. ticket' = Digest(unresolved') /\ owned' = ticket'
    BY <1>3 DEF Settle
  <2>2. ~Busy /\ ticket \in {NoTicket, Digest(unresolved')}
    BY <1>3 DEF Refused
  <2> QED BY <1>3, <2>1, <2>2
<1> QED BY <1>1, <1>2, <1>3

-----------------------------------------------------------------------------
LEMMA TypeStep == TypeOK /\ TicketInv /\ [Next]_vars => TypeOK'
<1> SUFFICES ASSUME TypeOK, TicketInv, [Next]_vars PROVE TypeOK'
  OBVIOUS
<1> USE DEF TypeOK, disk, blender, lease, runner, Go, Add, Leave, LeaveInDoubt, Seal, NoFault, Fault,
            Active, Started, Ended, Alive, Terminal
<1>1. ASSUME NEW r \in Run, Execute(r) \/ Enter(r) PROVE TypeOK'
  BY <1>1 DEF Execute, Enter
<1>2. ASSUME NEW r \in Run, Reserve(r) PROVE TypeOK'
  BY <1>2 DEF Reserve, Receipt
<1>3. ASSUME NEW r \in Run, ReserveFails(r) \/ WorkCancelled(r) PROVE TypeOK'
  BY <1>3 DEF ReserveFails, WorkCancelled, Receipt
<1>4. ASSUME NEW r \in Run, NotSent(r) \/ Blocked(r) PROVE TypeOK'
  BY <1>4 DEF NotSent, Blocked
<1>5. ASSUME NEW r \in Run, NotSentNorSaid(r) PROVE TypeOK'
  BY <1>5 DEF NotSentNorSaid
<1>6. ASSUME NEW r \in Run, Send(r) PROVE TypeOK'
  BY <1>6 DEF Send
<1>7. ASSUME NEW r \in Run, Answered(r) \/ Unobserved(r) PROVE TypeOK'
  BY <1>7, Tickets DEF Answered, Unobserved
<1>8. ASSUME NEW r \in Run, Accept(r) PROVE TypeOK'
  BY <1>8, Tickets DEF Accept, Receipt
<1>9. ASSUME NEW r \in Run, GiveUp(r) PROVE TypeOK'
  BY <1>9, Tickets DEF GiveUp, Receipt
<1>10. ASSUME NEW r \in Run, Cancel(r) \/ Cancelled(r) PROVE TypeOK'
  BY <1>10 DEF Cancel, Cancelled
<1>11. ASSUME NEW r \in Run, StartCallback(r) \/ FinishCallback(r) PROVE TypeOK'
  BY <1>11 DEF StartCallback, FinishCallback, Receipt
<1>12. ASSUME NEW r \in Run, Alter(r) \/ Reset(r) PROVE TypeOK'
  BY <1>12 DEF Alter, Reset, Receipt
<1>13. ASSUME BlenderDies PROVE TypeOK'
  BY <1>13 DEF BlenderDies
<1>14. ASSUME Others PROVE TypeOK'
  BY <1>14, Tickets DEF Others, OtherEnters, OtherSends, OtherEnds, OtherLeaves
<1>15. ASSUME Crash PROVE TypeOK'
  <2>1. files' \in [Run -> SUBSET Receipt]
    <3>1. CASE UNCHANGED files
      BY <3>1
    <3>2. ASSUME NEW r \in Run, NEW torn \in TornReserve(r), Add(r, torn)
          PROVE  files' \in [Run -> SUBSET Receipt]
      BY <3>2 DEF TornReserve, Receipt
    <3> QED BY <1>15, <3>1, <3>2 DEF Crash
  <2>2. /\ pc' \in [Run -> {"idle", "gone"} \union Active \union Ended]
        /\ cancel' \in [Run -> {"none", "requested", "inner", "drain"}]
    BY <1>15 DEF Crash
  <2>3. /\ UNCHANGED <<terminal, altered, doubted, cb, other, faults>>
        /\ serving' = FALSE /\ crashes' = crashes + 1 /\ holder' = None
        /\ ticket' = NoTicket /\ owned' = NoTicket /\ unresolved' = {}
    BY <1>15 DEF Crash
  <2>4. ticket' \in Ticket /\ owned' \in Ticket /\ crashes' \in Nat /\ unresolved' \subseteq Run
    BY <2>3, Tickets
  <2> QED BY <2>1, <2>2, <2>3, <2>4
<1>16. ASSUME Restart PROVE TypeOK'
  <2>1. files' \in [Run -> SUBSET Receipt] /\ unresolved' \in SUBSET Run
    BY <1>16, ScanFacts DEF Restart
  <2>2. ticket' \in Ticket /\ owned' \in Ticket
    BY <1>16, <2>1, SettleFacts DEF Restart
  <2> QED BY <1>16, <2>1, <2>2 DEF Restart
<1>17. ASSUME Reconcile PROVE TypeOK'
  <2>1. files' \in [Run -> SUBSET Receipt] /\ unresolved' \in SUBSET Run
    BY <1>17, ScanFacts DEF Reconcile
  <2>2. ticket' \in Ticket /\ owned' \in Ticket
    BY <1>17, <2>1, SettleFacts DEF Reconcile
  <2> QED BY <1>17, <2>1, <2>2 DEF Reconcile
<1>18. ASSUME UNCHANGED vars PROVE TypeOK'
  BY <1>18 DEF vars
<1> HIDE DEF TypeOK
<1> QED BY <1>1, <1>2, <1>3, <1>4, <1>5, <1>6, <1>7, <1>8, <1>9, <1>10, <1>11, <1>12, <1>13, <1>14, <1>15,
           <1>16, <1>17, <1>18, NextCases, Zenon

-----------------------------------------------------------------------------
\* Whoever is inside the lease holds it, and nothing is on disk before a reservation.
LEMMA PhaseStep == TypeOK /\ PhaseInv /\ TicketInv /\ [Next]_vars => PhaseInv'
<1> SUFFICES ASSUME TypeOK, PhaseInv, TicketInv, [Next]_vars PROVE PhaseInv'
  OBVIOUS
<1> USE NativeAssumption DEF TypeOK, PhaseInv, Inside, Before, Active, Started, Ended, disk, blender, lease, runner, Go, Add, Leave, LeaveInDoubt, Seal, NoFault, Fault
<1>1. ASSUME NEW r \in Run, Execute(r) \/ Enter(r) PROVE PhaseInv'
  BY <1>1 DEF Execute, Enter
<1>2. ASSUME NEW r \in Run, Reserve(r) PROVE PhaseInv'
  BY <1>2 DEF Reserve
<1>3. ASSUME NEW r \in Run, ReserveFails(r) \/ WorkCancelled(r) PROVE PhaseInv'
  BY <1>3 DEF ReserveFails, WorkCancelled
<1>4. ASSUME NEW r \in Run, NotSent(r) \/ Blocked(r) PROVE PhaseInv'
  BY <1>4 DEF NotSent, Blocked
<1>5. ASSUME NEW r \in Run, NotSentNorSaid(r) PROVE PhaseInv'
  BY <1>5 DEF NotSentNorSaid
<1>6. ASSUME NEW r \in Run, Send(r) PROVE PhaseInv'
  BY <1>6 DEF Send
<1>7. ASSUME NEW r \in Run, Answered(r) \/ Unobserved(r) PROVE PhaseInv'
  BY <1>7 DEF Answered, Unobserved
<1>8. ASSUME NEW r \in Run, Accept(r) PROVE PhaseInv'
  BY <1>8 DEF Accept
<1>9. ASSUME NEW r \in Run, GiveUp(r) PROVE PhaseInv'
  BY <1>9 DEF GiveUp
<1>10. ASSUME NEW r \in Run, Cancel(r) \/ Cancelled(r) PROVE PhaseInv'
  BY <1>10 DEF Cancel, Cancelled
<1>11. ASSUME NEW r \in Run, StartCallback(r) \/ FinishCallback(r) PROVE PhaseInv'
  BY <1>11 DEF StartCallback, FinishCallback
<1>12. ASSUME NEW r \in Run, Alter(r) \/ Reset(r) PROVE PhaseInv'
  BY <1>12 DEF Alter, Reset
<1>13. ASSUME BlenderDies PROVE PhaseInv'
  <2>1. \A r \in Run : cb[r] = "none" => cb'[r] = "none"
    BY <1>13 DEF BlenderDies, Alive
  <2> QED BY <1>13, <2>1 DEF BlenderDies
<1>14. ASSUME Others PROVE PhaseInv'
  BY <1>14 DEF Others, OtherEnters, OtherSends, OtherEnds, OtherLeaves
<1>15. ASSUME Crash PROVE PhaseInv'
  BY <1>15 DEF Crash
<1>16. ASSUME Restart PROVE PhaseInv'
  <2>1. /\ \A r \in Run : files'[r] # files[r] => "pending" \in files[r]
        /\ unresolved' \in SUBSET Run
    BY <1>16, ScanFacts DEF Restart
  <2> QED BY <1>16, <2>1 DEF Restart
<1>17. ASSUME Reconcile PROVE PhaseInv'
  <2>1. \A r \in Run : files'[r] # files[r] => "pending" \in files[r]
    BY <1>17, ScanFacts DEF Reconcile
  <2> QED BY <1>17, <2>1 DEF Reconcile
<1>18. ASSUME UNCHANGED vars PROVE PhaseInv'
  BY <1>18 DEF vars
<1> HIDE DEF PhaseInv
<1> QED BY <1>1, <1>2, <1>3, <1>4, <1>5, <1>6, <1>7, <1>8, <1>9, <1>10, <1>11, <1>12, <1>13, <1>14, <1>15, 
           <1>16, <1>17, <1>18, NextCases, Zenon

-----------------------------------------------------------------------------
\* The runner's copy of the ticket is the lease's.
LEMMA TicketStep == TypeOK /\ PhaseInv /\ TicketInv /\ [Next]_vars => TicketInv'
<1> SUFFICES ASSUME TypeOK, PhaseInv, TicketInv, [Next]_vars PROVE TicketInv'
  OBVIOUS
<1> USE NativeAssumption, Tickets DEF TypeOK, TicketInv, Inside, Active, Started, disk, blender, lease, runner, Go, Add, Leave, LeaveInDoubt, Seal, NoFault, Fault
<1>1. ASSUME NEW r \in Run, Execute(r) \/ Enter(r) PROVE TicketInv'
  BY <1>1 DEF Execute, Enter
<1>2. ASSUME NEW r \in Run, Reserve(r) PROVE TicketInv'
  BY <1>2 DEF Reserve
<1>3. ASSUME NEW r \in Run, ReserveFails(r) \/ WorkCancelled(r) PROVE TicketInv'
  BY <1>3 DEF ReserveFails, WorkCancelled
<1>4. ASSUME NEW r \in Run, NotSent(r) \/ Blocked(r) PROVE TicketInv'
  BY <1>4 DEF NotSent, Blocked
<1>5. ASSUME NEW r \in Run, NotSentNorSaid(r) PROVE TicketInv'
  BY <1>5 DEF NotSentNorSaid
<1>6. ASSUME NEW r \in Run, Send(r) PROVE TicketInv'
  BY <1>6 DEF Send
<1>7. ASSUME NEW r \in Run, Answered(r) \/ Unobserved(r) PROVE TicketInv'
  <2>1. pc[r] = "waiting" /\ holder' = holder /\ pc' = [pc EXCEPT ![r] = "polling"]
    BY <1>7 DEF Answered, Unobserved
  <2>2. holder = r /\ holder # None
    BY <2>1 DEF PhaseInv
  <2>3. ticket = NoTicket /\ owned = NoTicket
    BY <2>1, <2>2
  <2>4. owned' = ticket' /\ ticket' # Foreign
    BY <1>7, <2>3 DEF Answered, Unobserved
  <2>5. pc'[r] = "polling"
    BY <2>1
  <2> QED BY <2>1, <2>2, <2>4, <2>5
<1>8. ASSUME NEW r \in Run, Accept(r) PROVE TicketInv'
  BY <1>8 DEF Accept
<1>9. ASSUME NEW r \in Run, GiveUp(r) PROVE TicketInv'
  <2>1. pc[r] = "polling" /\ owned' = ticket' /\ ticket' = IF ticket = NoTicket THEN Uuid(r) ELSE ticket
    BY <1>9 DEF GiveUp
  <2>2. holder = r /\ holder # None /\ holder' = None
    BY <1>9, <2>1 DEF GiveUp, PhaseInv
  <2>3. ticket # Foreign
    BY <2>2
  <2> QED BY <2>1, <2>2, <2>3
<1>10. ASSUME NEW r \in Run, Cancel(r) \/ Cancelled(r) PROVE TicketInv'
  BY <1>10 DEF Cancel, Cancelled
<1>11. ASSUME NEW r \in Run, StartCallback(r) \/ FinishCallback(r) PROVE TicketInv'
  BY <1>11 DEF StartCallback, FinishCallback
<1>12. ASSUME NEW r \in Run, Alter(r) \/ Reset(r) PROVE TicketInv'
  BY <1>12 DEF Alter, Reset
<1>13. ASSUME BlenderDies PROVE TicketInv'
  BY <1>13 DEF BlenderDies
<1>14. ASSUME Others PROVE TicketInv'
  BY <1>14 DEF Others, OtherEnters, OtherSends, OtherEnds, OtherLeaves
<1>15. ASSUME Crash PROVE TicketInv'
  BY <1>15 DEF Crash
<1>16. ASSUME Restart PROVE TicketInv'
  <2>1. unresolved' \in SUBSET Run
    BY <1>16, ScanFacts DEF Restart
  <2>2. owned' \in {NoTicket, ticket'} /\ (ticket' = Foreign => owned' = NoTicket)
    BY <1>16, <2>1, SettleFacts DEF Restart
  <2>3. holder' = None
    BY <1>16 DEF Restart, PhaseInv
  <2> QED BY <2>2, <2>3
<1>17. ASSUME Reconcile PROVE TicketInv'
  <2>1. unresolved' \in SUBSET Run
    BY <1>17, ScanFacts DEF Reconcile
  <2>2. /\ owned' \in {NoTicket, ticket'} /\ (ticket' = Foreign => owned' = NoTicket)
        /\ ticket' # NoTicket => ticket' = ticket \/ ~Busy
    BY <1>17, <2>1, SettleFacts DEF Reconcile, Settle
  <2>3. holder' = holder /\ \A r \in Run : pc[r] # "polling"
    BY <1>17 DEF Reconcile
  <2> QED BY <2>2, <2>3 DEF Busy
<1>18. ASSUME UNCHANGED vars PROVE TicketInv'
  BY <1>18 DEF vars
<1> HIDE DEF TicketInv
<1> QED BY <1>1, <1>2, <1>3, <1>4, <1>5, <1>6, <1>7, <1>8, <1>9, <1>10, <1>11, <1>12, <1>13, <1>14, <1>15, 
           <1>16, <1>17, <1>18, NextCases, Zenon

-----------------------------------------------------------------------------
\* The receipts say what the callback did.
LEMMA EvidenceStep == TypeOK /\ PhaseInv /\ EvidenceInv /\ [Next]_vars => EvidenceInv'
<1> SUFFICES ASSUME TypeOK, PhaseInv, EvidenceInv, [Next]_vars PROVE EvidenceInv'
  OBVIOUS
<1> USE DEF TypeOK, EvidenceInv, Alive, Terminal, Receipt, disk, blender, lease, runner, Go, Add, Leave, LeaveInDoubt, Seal, NoFault, Fault
<1>1. ASSUME NEW r \in Run, Execute(r) \/ Enter(r) PROVE EvidenceInv'
  BY <1>1 DEF Execute, Enter
<1>2. ASSUME NEW r \in Run, Reserve(r) PROVE EvidenceInv'
  BY <1>2 DEF Reserve, PhaseInv, Before, Started
<1>3. ASSUME NEW r \in Run, ReserveFails(r) \/ WorkCancelled(r) PROVE EvidenceInv'
  BY <1>3 DEF ReserveFails, WorkCancelled, PhaseInv, Before, Started
<1>4. ASSUME NEW r \in Run, NotSent(r) \/ Blocked(r) PROVE EvidenceInv'
  BY <1>4 DEF NotSent, Blocked, PhaseInv, Before, Started
<1>5. ASSUME NEW r \in Run, NotSentNorSaid(r) PROVE EvidenceInv'
  BY <1>5 DEF NotSentNorSaid, PhaseInv, Before, Started
<1>6. ASSUME NEW r \in Run, Send(r) PROVE EvidenceInv'
  BY <1>6 DEF Send, PhaseInv, Before, Started
<1>7. ASSUME NEW r \in Run, Answered(r) \/ Unobserved(r) PROVE EvidenceInv'
  BY <1>7 DEF Answered, Unobserved
<1>8. ASSUME NEW r \in Run, Accept(r) PROVE EvidenceInv'
  BY <1>8 DEF Accept
<1>9. ASSUME NEW r \in Run, GiveUp(r) PROVE EvidenceInv'
  BY <1>9 DEF GiveUp
<1>10. ASSUME NEW r \in Run, Cancel(r) \/ Cancelled(r) PROVE EvidenceInv'
  BY <1>10 DEF Cancel, Cancelled
<1>11. ASSUME NEW r \in Run, StartCallback(r) \/ FinishCallback(r) PROVE EvidenceInv'
  BY <1>11 DEF StartCallback, FinishCallback
<1>12. ASSUME NEW r \in Run, Alter(r) \/ Reset(r) PROVE EvidenceInv'
  BY <1>12 DEF Alter, Reset
<1>13. ASSUME BlenderDies PROVE EvidenceInv'
  BY <1>13 DEF BlenderDies
<1>14. ASSUME Others PROVE EvidenceInv'
  BY <1>14 DEF Others, OtherEnters, OtherSends, OtherEnds, OtherLeaves
<1>15. ASSUME Crash PROVE EvidenceInv'
  <2>1. UNCHANGED <<cb, terminal>>
    BY <1>15 DEF Crash
  <2>2. CASE UNCHANGED files
    BY <2>1, <2>2
  <2>3. ASSUME NEW r \in Run, pc[r] = "building", NEW torn \in TornReserve(r), Add(r, torn)
        PROVE  EvidenceInv'
    <3>1. files[r] = {} /\ cb[r] = "none" /\ terminal[r] = "none"
      BY <2>3 DEF PhaseInv, Before
    <3>2. "reset" \notin files'[r] /\ \A q \in Run \ {r} : files'[q] = files[q]
      BY <2>3, <3>1 DEF TornReserve
    <3> QED BY <2>1, <3>1, <3>2
  <2> QED BY <1>15, <2>2, <2>3 DEF Crash
<1>16. ASSUME Restart PROVE EvidenceInv'
  <2>1. \A r \in Run : \A x \in Receipt \ {"ack"} : x \in files'[r] <=> x \in files[r]
    BY <1>16, ScanFacts DEF Restart
  <2> QED BY <1>16, <2>1 DEF Restart
<1>17. ASSUME Reconcile PROVE EvidenceInv'
  <2>1. \A r \in Run : \A x \in Receipt \ {"ack"} : x \in files'[r] <=> x \in files[r]
    BY <1>17, ScanFacts DEF Reconcile
  <2> QED BY <1>17, <2>1 DEF Reconcile
<1>18. ASSUME UNCHANGED vars PROVE EvidenceInv'
  BY <1>18 DEF vars
<1> HIDE DEF EvidenceInv
<1> QED BY <1>1, <1>2, <1>3, <1>4, <1>5, <1>6, <1>7, <1>8, <1>9, <1>10, <1>11, <1>12, <1>13, <1>14, <1>15, 
           <1>16, <1>17, <1>18, NextCases, Zenon

-----------------------------------------------------------------------------
\* While a run or another task is inside the lease, every other callback is proven.
LEMMA HolderAlone ==
    ASSUME TypeOK, PhaseInv, ProofInv, NEW r \in Run, pc[r] \in Inside
    PROVE  serving /\ holder = r /\ \A q \in Run \ {r} : cb[q] = "none" \/ Proven(q)
<1>1. holder = r /\ serving
  BY DEF PhaseInv, Inside, Started
<1>2. holder # None
  BY <1>1, NativeAssumption
<1> QED BY <1>1, <1>2 DEF ProofInv, Attended

\* A step that leaves lease, runner and workers alone only has to send nothing and
\* take no proof back.
LEMMA ProofKept ==
    ASSUME ProofInv, UNCHANGED <<ticket, unresolved, serving, holder, pc>>,
           \A r \in Run : cb'[r] # "none" => cb[r] # "none",
           \A r \in Run : Proven(r) => Proven(r)'
    PROVE  ProofInv'
BY DEF ProofInv, Attended

\* A callback that has proven nothing is attended or sealed off.
LEMMA ProofStep == TypeOK /\ PhaseInv /\ TicketInv /\ EvidenceInv /\ ProofInv /\ [Next]_vars => ProofInv'
<1> SUFFICES ASSUME TypeOK, PhaseInv, TicketInv, EvidenceInv, ProofInv, [Next]_vars PROVE ProofInv'
  OBVIOUS
<1> USE NativeAssumption DEF TypeOK, ProofInv, Proven, Attended, Active, Started, Inside, disk, blender, lease, runner, Go, Add, Leave, LeaveInDoubt, Seal, NoFault, Fault
<1>1. ASSUME NEW r \in Run, Execute(r) \/ Enter(r) PROVE ProofInv'
  <2>1. UNCHANGED <<cb, terminal, files, ticket, unresolved, serving>>
    BY <1>1 DEF Execute, Enter
  <2>2. CASE Execute(r)
    <3>1. holder' = holder /\ pc[r] = "idle" /\ \A q \in Run \ {r} : pc'[q] = pc[q]
      BY <2>2 DEF Execute
    <3> QED BY <2>1, <3>1
  <2>3. CASE Enter(r)
    <3>1. holder = None /\ (ticket # NoTicket => holder' = None)
      BY <2>3 DEF Enter
    <3> QED BY <2>1, <3>1
  <2> QED BY <1>1, <2>2, <2>3
<1>2. ASSUME NEW r \in Run, Reserve(r) PROVE ProofInv'
  <2>1. UNCHANGED <<cb, terminal, ticket, holder, serving>> /\ pc[r] = "building"
    BY <1>2 DEF Reserve
  <2>2. /\ \A q \in Run \ {r} : pc'[q] = pc[q] /\ files'[q] = files[q]
        /\ unresolved \subseteq unresolved'
    BY <1>2 DEF Reserve
  <2>3. cb[r] = "none"
    BY <2>1 DEF PhaseInv, Before
  <2> QED BY <2>1, <2>2, <2>3
<1>3. ASSUME NEW r \in Run, ReserveFails(r) \/ WorkCancelled(r) PROVE ProofInv'
  <2>1. UNCHANGED <<cb, terminal, ticket, unresolved, serving>> /\ cb[r] = "none"
    BY <1>3 DEF ReserveFails, WorkCancelled, PhaseInv, Before
  <2>2. /\ \A q \in Run \ {r} : pc'[q] = pc[q] /\ files'[q] = files[q]
        /\ holder' = IF holder = r THEN None ELSE holder
    BY <1>3 DEF ReserveFails, WorkCancelled
  <2> QED BY <2>1, <2>2
<1>4. ASSUME NEW r \in Run, NotSent(r) \/ Blocked(r) PROVE ProofInv'
  <2>1. UNCHANGED <<cb, files, ticket, unresolved, serving, holder>> /\ cb[r] = "none"
    BY <1>4 DEF NotSent, Blocked, PhaseInv
  <2>2. \A q \in Run \ {r} : pc'[q] = pc[q] /\ terminal'[q] = terminal[q]
    BY <1>4 DEF NotSent, Blocked
  <2> QED BY <2>1, <2>2
<1>5. ASSUME NEW r \in Run, NotSentNorSaid(r) PROVE ProofInv'
  <2>1. UNCHANGED <<cb, files, ticket, unresolved, serving>> /\ pc[r] = "sending"
    BY <1>5 DEF NotSentNorSaid
  <2>2. cb[r] = "none"
    BY <2>1 DEF PhaseInv
  <2>3. /\ \A q \in Run \ {r} : pc'[q] = pc[q] /\ terminal'[q] = terminal[q]
        /\ holder' = IF holder = r THEN None ELSE holder
    BY <1>5 DEF NotSentNorSaid
  <2> QED BY <2>1, <2>2, <2>3
<1>6. ASSUME NEW r \in Run, Send(r) PROVE ProofInv'
  <2>1. UNCHANGED <<files, terminal, ticket, unresolved, serving, holder>> /\ pc[r] = "sending"
    BY <1>6 DEF Send
  <2>2. r \in unresolved /\ holder = r /\ pc'[r] = "waiting"
    BY <1>6, <2>1 DEF Send, PhaseInv
  <2>3. \A q \in Run \ {r} : pc'[q] = pc[q] /\ cb'[q] = cb[q]
    BY <1>6 DEF Send
  <2> QED BY <2>1, <2>2, <2>3
<1>7. ASSUME NEW r \in Run, Answered(r) \/ Unobserved(r) PROVE ProofInv'
  <2>1. UNCHANGED <<cb, files, terminal, unresolved, serving, holder>>
    BY <1>7 DEF Answered, Unobserved
  <2>2. pc[r] = "waiting" /\ pc' = [pc EXCEPT ![r] = "polling"]
    BY <1>7 DEF Answered, Unobserved
  <2>3. serving /\ holder = r /\ \A q \in Run \ {r} : cb[q] = "none" \/ Proven(q)
    BY <2>2, HolderAlone
  <2> QED BY <2>1, <2>2, <2>3
<1>8. ASSUME NEW r \in Run, Accept(r) PROVE ProofInv'
  <2>1. UNCHANGED <<cb, terminal, serving>> /\ pc[r] = "polling"
    BY <1>8 DEF Accept
  <2>2. serving /\ holder = r /\ \A q \in Run \ {r} : cb[q] = "none" \/ Proven(q)
    BY <2>1, HolderAlone
  <2>3. holder' = None /\ \A q \in Run \ {r} : files'[q] = files[q]
    BY <1>8, <2>2 DEF Accept
  <2>4. Proven(r)'
    BY <1>8 DEF Accept, Restored
  <2> QED BY <2>1, <2>2, <2>3, <2>4
<1>9. ASSUME NEW r \in Run, GiveUp(r) PROVE ProofInv'
  <2>1. UNCHANGED <<cb, terminal, serving>> /\ pc[r] = "polling"
    BY <1>9 DEF GiveUp
  <2>2. serving /\ holder = r /\ \A q \in Run \ {r} : cb[q] = "none" \/ Proven(q)
    BY <2>1, HolderAlone
  <2>3. holder' = None /\ \A q \in Run \ {r} : files'[q] = files[q]
    BY <1>9, <2>2 DEF GiveUp
  <2>4. ~Proven(r)' => r \in unresolved' /\ ticket' # NoTicket
    BY <1>9, Tickets DEF GiveUp, PhaseInv
  <2> QED BY <2>1, <2>2, <2>3, <2>4
<1>10. ASSUME NEW r \in Run, Cancel(r) \/ Cancelled(r) PROVE ProofInv'
  <2>1. UNCHANGED <<cb, terminal, files, ticket, unresolved, serving, holder, pc>>
    BY <1>10 DEF Cancel, Cancelled
  <2> QED BY <2>1, ProofKept
<1>11. ASSUME NEW r \in Run, StartCallback(r) \/ FinishCallback(r) PROVE ProofInv'
  <2>1. UNCHANGED <<ticket, unresolved, serving, holder, pc>> /\ cb[r] # "none" /\ terminal[r] = "none"
    BY <1>11 DEF StartCallback, FinishCallback, EvidenceInv, Alive
  <2>2. /\ \A q \in Run \ {r} : cb'[q] = cb[q] /\ terminal'[q] = terminal[q] /\ files'[q] = files[q]
        /\ files[r] \subseteq files'[r]
    BY <1>11 DEF StartCallback, FinishCallback
  <2> QED BY <2>1, <2>2, ProofKept
<1>12. ASSUME NEW r \in Run, Alter(r) \/ Reset(r) PROVE ProofInv'
  <2>1. UNCHANGED <<cb, terminal, ticket, unresolved, serving, holder, pc>>
    BY <1>12 DEF Alter, Reset
  <2>2. \A q \in Run : files[q] \subseteq files'[q]
    BY <1>12 DEF Alter, Reset
  <2> QED BY <2>1, <2>2, ProofKept
<1>13. ASSUME BlenderDies PROVE ProofInv'
  <2>1. UNCHANGED <<terminal, files, ticket, unresolved, serving, holder, pc>>
    BY <1>13 DEF BlenderDies
  <2>2. \A q \in Run : cb'[q] # "none" => cb[q] # "none"
    BY <1>13 DEF BlenderDies, Alive
  <2> QED BY <2>1, <2>2, ProofKept
<1>14. ASSUME Others PROVE ProofInv'
  <2>1. UNCHANGED <<cb, terminal, files, unresolved, serving, pc>>
    BY <1>14 DEF Others, OtherEnters, OtherSends, OtherEnds, OtherLeaves
  <2>2. \/ UNCHANGED <<ticket, holder>>
        \/ holder = None /\ ticket = NoTicket
        \/ holder = Other
    BY <1>14 DEF Others, OtherEnters, OtherSends, OtherEnds, OtherLeaves
  <2> QED BY <2>1, <2>2
<1>15. ASSUME Crash PROVE ProofInv'
  BY <1>15 DEF Crash
<1>16. ASSUME Restart PROVE ProofInv'
  <2>1. /\ \A r \in Run : Unproven(r) => r \in unresolved'
        /\ \A r \in Run : \A x \in Receipt \ {"ack"} : x \in files'[r] <=> x \in files[r]
        /\ unresolved' \in SUBSET Run
    BY <1>16, ScanFacts DEF Restart
  <2>2. ticket' = NoTicket => unresolved' = {}
    <3>1. ~Busy /\ ticket = NoTicket
      BY <1>16 DEF Restart, PhaseInv, Busy
    <3> QED BY <1>16, <2>1, <3>1, SettleFacts DEF Restart, Refused
  <2>3. UNCHANGED <<cb, terminal>> /\ holder' = None
    BY <1>16 DEF Restart, PhaseInv
  <2>4. ASSUME NEW r \in Run, cb[r] # "none", ~Proven(r)' PROVE r \in unresolved'
    <3>1. "pending" \in files[r] /\ "reset" \notin files[r] /\ ~Restored(r)
      BY <2>1, <2>3, <2>4 DEF EvidenceInv, Restored, Receipt
    <3> QED BY <2>1, <3>1 DEF Unproven
  <2> QED BY <2>2, <2>3, <2>4
<1>17. ASSUME Reconcile PROVE ProofInv'
  <2>1. /\ \A r \in Run : Unproven(r) => r \in unresolved'
        /\ \A r \in Run : \A x \in Receipt \ {"ack"} : x \in files'[r] <=> x \in files[r]
        /\ unresolved' \in SUBSET Run
    BY <1>17, ScanFacts DEF Reconcile
  <2>2. ticket' = NoTicket => unresolved' = {} \/ ticket = NoTicket
    BY <1>17, <2>1, SettleFacts DEF Reconcile
  <2>3. UNCHANGED <<cb, terminal, holder>> /\ serving /\ \A r \in Run : ~Attended(r)
    BY <1>17 DEF Reconcile
  <2>4. ASSUME NEW r \in Run, cb[r] # "none", ~Proven(r)' PROVE r \in unresolved' /\ ~Proven(r)
    <3>1. "pending" \in files[r] /\ "reset" \notin files[r] /\ ~Restored(r)
      BY <2>1, <2>3, <2>4 DEF EvidenceInv, Restored, Receipt
    <3> QED BY <2>1, <2>3, <2>4, <3>1 DEF Unproven
  <2> QED BY <2>2, <2>3, <2>4
<1>18. ASSUME UNCHANGED vars PROVE ProofInv'
  BY <1>18 DEF vars
<1> HIDE DEF ProofInv
<1> QED BY <1>1, <1>2, <1>3, <1>4, <1>5, <1>6, <1>7, <1>8, <1>9, <1>10, <1>11, <1>12, <1>13, <1>14, <1>15, 
           <1>16, <1>17, <1>18, NextCases, Zenon

-----------------------------------------------------------------------------
\* Work cancelled before it started never reserves.
LEMMA CancelStep == TypeOK /\ PhaseInv /\ EvidenceInv /\ CancelledNeverDispatched /\ [Next]_vars => CancelledNeverDispatched'
<1> SUFFICES ASSUME TypeOK, PhaseInv, EvidenceInv, CancelledNeverDispatched, [Next]_vars PROVE CancelledNeverDispatched'
  OBVIOUS
<1> USE DEF TypeOK, CancelledNeverDispatched, PhaseInv, Before, Active, Started, Alive, disk, blender, lease, runner, Go, Add, Leave, LeaveInDoubt, Seal, NoFault, Fault
<1>1. ASSUME NEW r \in Run, Execute(r) \/ Enter(r) PROVE CancelledNeverDispatched'
  BY <1>1 DEF Execute, Enter
<1>2. ASSUME NEW r \in Run, Reserve(r) PROVE CancelledNeverDispatched'
  BY <1>2 DEF Reserve
<1>3. ASSUME NEW r \in Run, ReserveFails(r) \/ WorkCancelled(r) PROVE CancelledNeverDispatched'
  BY <1>3 DEF ReserveFails, WorkCancelled
<1>4. ASSUME NEW r \in Run, NotSent(r) \/ Blocked(r) PROVE CancelledNeverDispatched'
  BY <1>4 DEF NotSent, Blocked
<1>5. ASSUME NEW r \in Run, NotSentNorSaid(r) PROVE CancelledNeverDispatched'
  BY <1>5 DEF NotSentNorSaid
<1>6. ASSUME NEW r \in Run, Send(r) PROVE CancelledNeverDispatched'
  BY <1>6 DEF Send
<1>7. ASSUME NEW r \in Run, Answered(r) \/ Unobserved(r) PROVE CancelledNeverDispatched'
  BY <1>7 DEF Answered, Unobserved
<1>8. ASSUME NEW r \in Run, Accept(r) PROVE CancelledNeverDispatched'
  BY <1>8 DEF Accept
<1>9. ASSUME NEW r \in Run, GiveUp(r) PROVE CancelledNeverDispatched'
  BY <1>9 DEF GiveUp
<1>10. ASSUME NEW r \in Run, Cancel(r) \/ Cancelled(r) PROVE CancelledNeverDispatched'
  BY <1>10 DEF Cancel, Cancelled
<1>11. ASSUME NEW r \in Run, StartCallback(r) \/ FinishCallback(r) PROVE CancelledNeverDispatched'
  BY <1>11 DEF StartCallback, FinishCallback
<1>12. ASSUME NEW r \in Run, Alter(r) \/ Reset(r) PROVE CancelledNeverDispatched'
  BY <1>12 DEF Alter, Reset
<1>13. ASSUME BlenderDies PROVE CancelledNeverDispatched'
  BY <1>13 DEF BlenderDies
<1>14. ASSUME Others PROVE CancelledNeverDispatched'
  BY <1>14 DEF Others, OtherEnters, OtherSends, OtherEnds, OtherLeaves
<1>15. ASSUME Crash PROVE CancelledNeverDispatched'
  BY <1>15 DEF Crash
<1>16. ASSUME Restart PROVE CancelledNeverDispatched'
  <2>1. \A r \in Run : files'[r] # files[r] => "pending" \in files[r]
    BY <1>16, ScanFacts DEF Restart
  <2> QED BY <1>16, <2>1 DEF Restart
<1>17. ASSUME Reconcile PROVE CancelledNeverDispatched'
  <2>1. \A r \in Run : files'[r] # files[r] => "pending" \in files[r]
    BY <1>17, ScanFacts DEF Reconcile
  <2> QED BY <1>17, <2>1 DEF Reconcile
<1>18. ASSUME UNCHANGED vars PROVE CancelledNeverDispatched'
  BY <1>18 DEF vars
<1> HIDE DEF CancelledNeverDispatched
<1> QED BY <1>1, <1>2, <1>3, <1>4, <1>5, <1>6, <1>7, <1>8, <1>9, <1>10, <1>11, <1>12, <1>13, <1>14, <1>15, 
           <1>16, <1>17, <1>18, NextCases, Zenon

-----------------------------------------------------------------------------
\* A result stands over its proof.
LEMMA ResultStep == TypeOK /\ PhaseInv /\ EvidenceInv /\ ResultIsProven /\ [Next]_vars => ResultIsProven'
<1> SUFFICES ASSUME TypeOK, PhaseInv, EvidenceInv, ResultIsProven, [Next]_vars PROVE ResultIsProven'
  OBVIOUS
<1> USE DEF TypeOK, ResultIsProven, Active, Started, Alive, Receipt, disk, blender, lease, runner, Go, Add, Leave, LeaveInDoubt, Seal, NoFault, Fault
<1>1. ASSUME NEW r \in Run, Execute(r) \/ Enter(r) PROVE ResultIsProven'
  BY <1>1 DEF Execute, Enter
<1>2. ASSUME NEW r \in Run, Reserve(r) PROVE ResultIsProven'
  BY <1>2 DEF Reserve
<1>3. ASSUME NEW r \in Run, ReserveFails(r) \/ WorkCancelled(r) PROVE ResultIsProven'
  BY <1>3 DEF ReserveFails, WorkCancelled
<1>4. ASSUME NEW r \in Run, NotSent(r) \/ Blocked(r) PROVE ResultIsProven'
  BY <1>4 DEF NotSent, Blocked, PhaseInv
<1>5. ASSUME NEW r \in Run, NotSentNorSaid(r) PROVE ResultIsProven'
  BY <1>5 DEF NotSentNorSaid, PhaseInv
<1>6. ASSUME NEW r \in Run, Send(r) PROVE ResultIsProven'
  BY <1>6 DEF Send
<1>7. ASSUME NEW r \in Run, Answered(r) \/ Unobserved(r) PROVE ResultIsProven'
  BY <1>7 DEF Answered, Unobserved
<1>8. ASSUME NEW r \in Run, Accept(r) PROVE ResultIsProven'
  BY <1>8 DEF Accept, EvidenceInv, Restored
<1>9. ASSUME NEW r \in Run, GiveUp(r) PROVE ResultIsProven'
  BY <1>9 DEF GiveUp
<1>10. ASSUME NEW r \in Run, Cancel(r) \/ Cancelled(r) PROVE ResultIsProven'
  BY <1>10 DEF Cancel, Cancelled
<1>11. ASSUME NEW r \in Run, StartCallback(r) \/ FinishCallback(r) PROVE ResultIsProven'
  BY <1>11 DEF StartCallback, FinishCallback, EvidenceInv
<1>12. ASSUME NEW r \in Run, Alter(r) \/ Reset(r) PROVE ResultIsProven'
  BY <1>12 DEF Alter, Reset
<1>13. ASSUME BlenderDies PROVE ResultIsProven'
  BY <1>13 DEF BlenderDies
<1>14. ASSUME Others PROVE ResultIsProven'
  BY <1>14 DEF Others, OtherEnters, OtherSends, OtherEnds, OtherLeaves
<1>15. ASSUME Crash PROVE ResultIsProven'
  BY <1>15 DEF Crash
<1>16. ASSUME Restart PROVE ResultIsProven'
  <2>1. \A r \in Run : files[r] \subseteq files'[r]
    BY <1>16, ScanFacts DEF Restart
  <2> QED BY <1>16, <2>1 DEF Restart
<1>17. ASSUME Reconcile PROVE ResultIsProven'
  <2>1. \A r \in Run : files[r] \subseteq files'[r]
    BY <1>17, ScanFacts DEF Reconcile
  <2> QED BY <1>17, <2>1 DEF Reconcile
<1>18. ASSUME UNCHANGED vars PROVE ResultIsProven'
  BY <1>18 DEF vars
<1> HIDE DEF ResultIsProven
<1> QED BY <1>1, <1>2, <1>3, <1>4, <1>5, <1>6, <1>7, <1>8, <1>9, <1>10, <1>11, <1>12, <1>13, <1>14, <1>15, 
           <1>16, <1>17, <1>18, NextCases, Zenon

-----------------------------------------------------------------------------
THEOREM Invariance == Spec => []IInv
<1>1. Init => IInv
  <2> SUFFICES ASSUME Init PROVE IInv
    OBVIOUS
  <2> USE NativeAssumption DEF Init
  <2>1. TypeOK
    BY Tickets DEF TypeOK
  <2>2. PhaseInv
    BY DEF PhaseInv, Inside, Before, Started
  <2>3. TicketInv /\ EvidenceInv /\ ProofInv
    BY Tickets DEF TicketInv, EvidenceInv, ProofInv, Alive
  <2>4. CancelledNeverDispatched /\ ResultIsProven
    BY DEF CancelledNeverDispatched, ResultIsProven
  <2> QED BY <2>1, <2>2, <2>3, <2>4 DEF IInv
<1>2. IInv /\ [Next]_vars => IInv'
  BY TypeStep, PhaseStep, TicketStep, EvidenceStep, ProofStep, CancelStep, ResultStep DEF IInv
<1> QED BY <1>1, <1>2, PTL DEF Spec

\* Type correctness of receipts, callbacks, lease and runner.
THEOREM TypeCorrect == Spec => []TypeOK
BY Invariance, PTL DEF IInv

\* Blender is open only when every callback has proven restoration, or is attended.
THEOREM SealHolds == Spec => []SealedUntilProven
<1>1. IInv => SealedUntilProven
  BY DEF IInv, ProofInv, SealedUntilProven
<1> QED BY <1>1, Invariance, PTL

\* A callback that may run keeps its job from a verdict.
THEOREM LiveIsListed == Spec => []LiveIsUnresolved
<1>1. IInv => LiveIsUnresolved
  BY DEF IInv, ProofInv, EvidenceInv, LiveIsUnresolved, Proven, Alive
<1> QED BY <1>1, Invariance, PTL

\* The runner's ticket is the lease's.
THEOREM TicketOwned == Spec => []OwnedIsTicket
<1>1. IInv => OwnedIsTicket
  BY DEF IInv, TicketInv, OwnedIsTicket
<1> QED BY <1>1, Invariance, PTL

\* A result is returned only over a restored, acknowledged callback.
THEOREM ResultProven == Spec => []ResultIsProven
BY Invariance, PTL DEF IInv

\* Cancellation before the start prevents the reservation and the dispatch.
THEOREM CancelPrevents == Spec => []CancelledNeverDispatched
BY Invariance, PTL DEF IInv

\* Nothing is sent to Blender while it may be executing a native callback.
THEOREM Alone == Spec => NativeAlone
<1> DEFINE Quiet == (other' /\ ~other) \/ (\E r \in Run : cb[r] # "sent" /\ cb'[r] = "sent")
                      => \A r \in Run : cb[r] \notin Alive
<1>1. IInv /\ [Next]_vars => [Quiet]_vars
  <2> SUFFICES ASSUME IInv, [Next]_vars PROVE Quiet
    OBVIOUS
  <2>i. TypeOK /\ PhaseInv /\ TicketInv /\ EvidenceInv /\ ProofInv
    BY DEF IInv
  <2>a. ASSUME NEW r \in Run, cb[r] \in Alive PROVE cb[r] # "none" /\ ~Proven(r)
    BY <2>i, <2>a DEF EvidenceInv, Alive, Proven
  <2>s. ASSUME other' = other \/ other' = FALSE,
               \A r \in Run : cb'[r] = "sent" => cb[r] = "sent"
        PROVE  Quiet
    BY <2>s
  <2>c. ASSUME UNCHANGED blender PROVE Quiet
    BY <2>c DEF blender
  <2>6. ASSUME NEW r \in Run, Send(r) PROVE Quiet
    <3>1. pc[r] = "sending" /\ cb[r] = "none"
      BY <2>i, <2>6 DEF Send, PhaseInv
    <3>2. \A q \in Run \ {r} : cb[q] = "none" \/ Proven(q)
      BY <2>i, <3>1, HolderAlone DEF Inside, Started
    <3> QED BY <2>a, <3>1, <3>2 DEF Alive
  <2>14. ASSUME Others PROVE Quiet
    <3>1. CASE OtherSends
      <4>1. holder = Other /\ Other \notin Run /\ Other # None
        BY <2>i, <3>1, NativeAssumption DEF OtherSends
      <4>2. serving
        BY <2>i, <4>1 DEF PhaseInv
      <4> QED BY <2>i, <2>a, <4>1, <4>2 DEF ProofInv, Attended
    <3>2. CASE ~OtherSends
      BY <2>14, <2>s, <3>2 DEF Others, OtherEnters, OtherEnds, OtherLeaves, blender
    <3> QED BY <3>1, <3>2
  <2>11. ASSUME NEW r \in Run, StartCallback(r) \/ FinishCallback(r) PROVE Quiet
    BY <2>i, <2>11, <2>s DEF StartCallback, FinishCallback, TypeOK
  <2>13. ASSUME BlenderDies PROVE Quiet
    BY <2>13, <2>s DEF BlenderDies, Alive
  <2> HIDE DEF Quiet
  <2>1. ASSUME NEW r \in Run, Execute(r) \/ Enter(r) PROVE Quiet
    BY <2>1, <2>c DEF Execute, Enter
  <2>2. ASSUME NEW r \in Run, Reserve(r) PROVE Quiet
    BY <2>2, <2>c DEF Reserve
  <2>3. ASSUME NEW r \in Run, ReserveFails(r) \/ WorkCancelled(r) PROVE Quiet
    BY <2>3, <2>c DEF ReserveFails, WorkCancelled
  <2>4. ASSUME NEW r \in Run, NotSent(r) \/ Blocked(r) PROVE Quiet
    BY <2>4, <2>c DEF NotSent, Blocked
  <2>5. ASSUME NEW r \in Run, NotSentNorSaid(r) PROVE Quiet
    BY <2>5, <2>c DEF NotSentNorSaid
  <2>7. ASSUME NEW r \in Run, Answered(r) \/ Unobserved(r) PROVE Quiet
    BY <2>7, <2>c DEF Answered, Unobserved
  <2>8. ASSUME NEW r \in Run, Accept(r) PROVE Quiet
    BY <2>8, <2>c DEF Accept
  <2>9. ASSUME NEW r \in Run, GiveUp(r) PROVE Quiet
    BY <2>9, <2>c DEF GiveUp
  <2>10. ASSUME NEW r \in Run, Cancel(r) \/ Cancelled(r) PROVE Quiet
    BY <2>10, <2>c DEF Cancel, Cancelled
  <2>12. ASSUME NEW r \in Run, Alter(r) \/ Reset(r) PROVE Quiet
    BY <2>12, <2>c DEF Alter, Reset
  <2>15. ASSUME Crash \/ Restart \/ Reconcile PROVE Quiet
    BY <2>15, <2>c DEF Crash, Restart, Reconcile
  <2>16. ASSUME UNCHANGED vars PROVE Quiet
    BY <2>16, <2>c DEF vars
  <2> QED BY <2>1, <2>2, <2>3, <2>4, <2>5, <2>6, <2>7, <2>8, <2>9, <2>10, <2>11, <2>12, <2>13, <2>14,
             <2>15, <2>16, NextCases, Zenon
<1> QED BY <1>1, Invariance, PTL DEF Spec, NativeAlone

\* The runner never lifts a seal it does not own.
THEOREM ForeignKept == Spec => ForeignSealStays
<1> DEFINE Stays == serving /\ serving' /\ ticket = Foreign => ticket' = Foreign
<1>1. IInv /\ [Next]_vars => [Stays]_vars
  <2> SUFFICES ASSUME IInv, [Next]_vars PROVE Stays
    OBVIOUS
  <2>i. TypeOK /\ PhaseInv /\ TicketInv
    BY DEF IInv
  <2>c. ASSUME UNCHANGED ticket PROVE Stays
    BY <2>c
  <2>f. ASSUME ticket = NoTicket \/ ~serving \/ ~serving' PROVE Stays
    BY <2>f, Tickets
  <2>8. ASSUME NEW r \in Run, Accept(r) PROVE Stays
    BY <2>i, <2>8 DEF Accept, TicketInv
  <2>7. ASSUME NEW r \in Run, Answered(r) \/ Unobserved(r) PROVE Stays
    BY <2>7, Tickets DEF Answered, Unobserved, Seal, lease
  <2>9. ASSUME NEW r \in Run, GiveUp(r) PROVE Stays
    BY <2>9, Tickets DEF GiveUp, Seal
  <2>14. ASSUME Others PROVE Stays
    BY <2>14, Tickets DEF Others, OtherEnters, OtherSends, OtherEnds, OtherLeaves, lease
  <2>17. ASSUME Reconcile PROVE Stays
    <3>1. unresolved' \in SUBSET Run
      BY <2>i, <2>17, ScanFacts DEF Reconcile
    <3> QED BY <2>i, <2>17, <3>1, SettleFacts DEF Reconcile
  <2> HIDE DEF Stays
  <2>1. ASSUME NEW r \in Run, Execute(r) \/ Enter(r) PROVE Stays
    BY <2>1, <2>c DEF Execute, Enter, lease
  <2>2. ASSUME NEW r \in Run, Reserve(r) PROVE Stays
    BY <2>2, <2>c DEF Reserve, lease
  <2>3. ASSUME NEW r \in Run, ReserveFails(r) \/ WorkCancelled(r) PROVE Stays
    BY <2>3, <2>c DEF ReserveFails, WorkCancelled
  <2>4. ASSUME NEW r \in Run, NotSent(r) \/ Blocked(r) PROVE Stays
    BY <2>4, <2>c DEF NotSent, Blocked, lease
  <2>5. ASSUME NEW r \in Run, NotSentNorSaid(r) PROVE Stays
    BY <2>5, <2>c DEF NotSentNorSaid
  <2>6. ASSUME NEW r \in Run, Send(r) PROVE Stays
    BY <2>6, <2>c DEF Send, lease
  <2>10. ASSUME NEW r \in Run, Cancel(r) \/ Cancelled(r) PROVE Stays
    BY <2>10, <2>c DEF Cancel, Cancelled, lease
  <2>11. ASSUME NEW r \in Run, StartCallback(r) \/ FinishCallback(r) PROVE Stays
    BY <2>11, <2>c DEF StartCallback, FinishCallback, lease
  <2>12. ASSUME NEW r \in Run, Alter(r) \/ Reset(r) PROVE Stays
    BY <2>12, <2>c DEF Alter, Reset, lease
  <2>13. ASSUME BlenderDies PROVE Stays
    BY <2>13, <2>c DEF BlenderDies, lease
  <2>15. ASSUME Crash PROVE Stays
    BY <2>15, <2>f DEF Crash
  <2>16. ASSUME Restart PROVE Stays
    BY <2>16, <2>f DEF Restart
  <2>18. ASSUME UNCHANGED vars PROVE Stays
    BY <2>18, <2>c DEF vars, lease
  <2> QED BY <2>1, <2>2, <2>3, <2>4, <2>5, <2>6, <2>7, <2>8, <2>9, <2>10, <2>11, <2>12, <2>13, <2>14,
             <2>15, <2>16, <2>17, <2>18, NextCases, Zenon
<1> QED BY <1>1, Invariance, PTL DEF Spec, ForeignSealStays

\* A server starts with a free lease, and whatever the runner and the others do
\* with holder and ticket afterwards is a step of EngineOwnership.
THEOREM LeaseUsed == Spec => UsesLease
<1> DEFINE Owns == serving' => IF serving THEN [Lease!Next]_(Lease!vars) ELSE (Lease!Init)'
<1>1. IInv /\ [Next]_vars => [Owns]_vars
  <2> SUFFICES ASSUME IInv, [Next]_vars PROVE Owns
    OBVIOUS
  <2>i. TypeOK /\ PhaseInv /\ TicketInv
    BY DEF IInv
  <2>h. \A r \in Run : pc[r] \in {"building", "sending", "waiting", "polling"} => holder = r /\ serving
    BY <2>i, NativeAssumption DEF PhaseInv, Inside, Started
  <2>n. \A r \in Run : r # None /\ r # Other
    BY NativeAssumption
  <2>s. ASSUME UNCHANGED <<holder, ticket, serving>> PROVE Owns
    BY <2>s, <2>i DEF Lease!vars, PhaseInv
  <2>d. ASSUME NEW t \in Run \union {Other},
               serving,
               Lease!Enter(t) \/ Lease!Leave(t) \/ Lease!Seal(t) \/ Lease!LeaveProven(t)
        PROVE  Owns
    BY <2>d DEF Lease!Next
  <2>1. ASSUME NEW r \in Run, Execute(r) \/ Enter(r) PROVE Owns
    <3>1. CASE holder' = r /\ holder = None /\ ticket = NoTicket /\ UNCHANGED <<ticket, serving>>
      <4>1. Lease!Enter(r)
        BY <3>1 DEF Lease!Enter
      <4> QED BY <2>i, <3>1, <4>1, <2>d DEF Lease!Init, PhaseInv
    <3>2. CASE UNCHANGED <<holder, ticket, serving>>
      BY <3>2, <2>s
    <3> QED BY <2>1, <2>n, <3>1, <3>2 DEF Execute, Enter, Leave, lease
  <2>2. ASSUME NEW r \in Run, Reserve(r) PROVE Owns
    BY <2>2, <2>s DEF Reserve, lease
  \* The ways out of the lease.
  <2>l. ASSUME NEW r \in Run, pc[r] \in {"building", "sending", "waiting", "polling"},
               holder' = None, ticket' = ticket \/ ticket' # NoTicket
        PROVE  Owns
    <3>1. holder = r /\ serving
      BY <2>h, <2>l
    <3>2. Lease!Leave(r)
      BY <2>l, <3>1 DEF Lease!Leave
    <3> QED BY <3>1, <3>2, <2>d
  <2>3. ASSUME NEW r \in Run, ReserveFails(r) \/ WorkCancelled(r) PROVE Owns
    <3>1. UNCHANGED <<ticket, serving>> /\ pc[r] \in {"queued", "building"}
          /\ holder' = IF holder = r THEN None ELSE holder
      BY <2>3 DEF ReserveFails, WorkCancelled, Leave
    <3>2. CASE holder = r
      <4>1. serving /\ Lease!Leave(r)
        BY <2>i, <2>n, <3>1, <3>2 DEF Lease!Leave, PhaseInv
      <4> QED BY <4>1, <2>d
    <3>3. CASE holder # r
      BY <3>1, <3>3, <2>s
    <3> QED BY <3>2, <3>3
  <2>4. ASSUME NEW r \in Run, NotSent(r) \/ Blocked(r) PROVE Owns
    BY <2>4, <2>s DEF NotSent, Blocked, lease
  <2>5. ASSUME NEW r \in Run, NotSentNorSaid(r) PROVE Owns
    BY <2>5, <2>h, <2>l DEF NotSentNorSaid, LeaveInDoubt, Leave
  <2>6. ASSUME NEW r \in Run, Send(r) PROVE Owns
    BY <2>6, <2>s DEF Send, lease
  <2>7. ASSUME NEW r \in Run, Answered(r) \/ Unobserved(r) PROVE Owns
    <3>1. CASE Answered(r)
      BY <3>1, <2>s DEF Answered, lease
    <3>2. CASE Unobserved(r)
      <4>1. holder = r /\ serving /\ holder' = holder /\ ticket' # NoTicket
        BY <2>h, <3>2, Tickets DEF Unobserved, Seal
      <4>2. Lease!Seal(r)
        BY <4>1 DEF Lease!Seal
      <4> QED BY <4>1, <4>2, <2>d
    <3> QED BY <2>7, <3>1, <3>2
  <2>8. ASSUME NEW r \in Run, Accept(r) PROVE Owns
    <3>1. /\ holder = r /\ serving /\ holder' = None /\ pc[r] = "polling"
          /\ ticket' = ticket \/ ticket' = NoTicket
      BY <2>h, <2>8 DEF Accept, Leave
    <3>2. CASE ticket' = ticket
      BY <3>1, <3>2, <2>l
    <3>3. CASE ticket' = NoTicket /\ ticket # NoTicket
      <4>1. Lease!LeaveProven(r)
        BY <3>1, <3>3 DEF Lease!LeaveProven
      <4> QED BY <3>1, <4>1, <2>d
    <3> QED BY <3>1, <3>2, <3>3
  <2>9. ASSUME NEW r \in Run, GiveUp(r) PROVE Owns
    <3>1. pc[r] = "polling" /\ holder' = None /\ ticket' # NoTicket
      BY <2>h, <2>9, Tickets DEF GiveUp, Seal, LeaveInDoubt, Leave
    <3> QED BY <3>1, <2>l
  <2>10. ASSUME NEW r \in Run, Cancel(r) \/ Cancelled(r) PROVE Owns
    BY <2>10, <2>s DEF Cancel, Cancelled, lease
  <2>11. ASSUME NEW r \in Run, StartCallback(r) \/ FinishCallback(r) PROVE Owns
    BY <2>11, <2>s DEF StartCallback, FinishCallback, lease
  <2>12. ASSUME NEW r \in Run, Alter(r) \/ Reset(r) PROVE Owns
    BY <2>12, <2>s DEF Alter, Reset, lease
  <2>13. ASSUME BlenderDies PROVE Owns
    BY <2>13, <2>s DEF BlenderDies, lease
  <2>14. ASSUME Others PROVE Owns
    <3>1. CASE OtherEnters
      <4>1. Lease!Enter(Other) /\ serving
        BY <3>1 DEF OtherEnters, Lease!Enter
      <4> QED BY <4>1, <2>d
    <3>2. CASE OtherLeaves
      <4>1. Lease!Leave(Other)
        BY <3>2, Tickets DEF OtherLeaves, Lease!Leave
      <4>2. serving
        BY <2>i, <3>2, NativeAssumption DEF OtherLeaves, PhaseInv
      <4> QED BY <4>1, <4>2, <2>d
    <3>3. CASE OtherSends \/ OtherEnds
      BY <3>3, <2>s DEF OtherSends, OtherEnds, lease
    <3> QED BY <2>14, <3>1, <3>2, <3>3 DEF Others
  <2>15. ASSUME Crash PROVE Owns
    BY <2>15 DEF Crash
  <2>16. ASSUME Restart PROVE Owns
    BY <2>i, <2>16 DEF Restart, PhaseInv, Lease!Init
  <2>17. ASSUME Reconcile PROVE Owns
    <3>1. unresolved' \in SUBSET Run
      BY <2>i, <2>17, ScanFacts DEF Reconcile
    <3>2. /\ serving /\ holder' = holder
          /\ ticket' # ticket => ticket' = NoTicket \/ ~Busy
      BY <2>i, <2>17, <3>1, SettleFacts DEF Reconcile, Settle
    <3>3. CASE ticket' = NoTicket /\ ticket # NoTicket
      BY <3>2, <3>3 DEF Lease!Unseal, Lease!Next
    <3>4. CASE ticket' # NoTicket /\ ticket' # ticket
      BY <3>2, <3>4 DEF Busy, Lease!Restore, Lease!Next
    <3>5. CASE ticket' = ticket
      BY <3>2, <3>5 DEF Lease!vars
    <3> QED BY <3>3, <3>4, <3>5
  <2>18. ASSUME UNCHANGED vars PROVE Owns
    BY <2>18, <2>s DEF vars, lease
  <2> HIDE DEF Owns
  <2> QED BY <2>1, <2>2, <2>3, <2>4, <2>5, <2>6, <2>7, <2>8, <2>9, <2>10, <2>11, <2>12, <2>13, <2>14,
             <2>15, <2>16, <2>17, <2>18, NextCases, Zenon
<1> QED BY <1>1, Invariance, PTL DEF Spec, UsesLease
-----------------------------------------------------------------------------
(* The journal *)

\* A seal the runner does not own was made by another task; only a proof can be
\* spoiled, only a callback fails to restore; what is acknowledged is not waited for.
ReceiptInv ==
    /\ owned = NoTicket => ticket \in {NoTicket, Foreign}
    /\ \A r \in altered : terminal[r] = "completed"
    /\ \A r \in Run : terminal[r] = "unrestored" => cb[r] # "none"
    /\ \A r \in Run : pc[r] \in Started => "ack" \notin files[r]

LEMMA ReceiptStep == IInv /\ ReceiptInv /\ [Next]_vars => ReceiptInv'
<1> SUFFICES ASSUME IInv, ReceiptInv, [Next]_vars PROVE ReceiptInv'
  OBVIOUS
<1>t. TypeOK /\ PhaseInv /\ TicketInv /\ EvidenceInv
  BY DEF IInv
<1>f. \A r \in Run : pc[r] \in Before => files[r] = {}
  BY <1>t DEF PhaseInv
<1>n. \A r \in Run : pc[r] = "sending" \/ cb[r] = "running" => r \notin altered
  BY <1>t DEF PhaseInv, EvidenceInv, ReceiptInv, Alive
<1> USE <1>t DEF TypeOK, ReceiptInv, Active, Started, disk, blender, lease, runner, Go, Add, Leave, LeaveInDoubt, Seal, NoFault, Fault
<1>1. ASSUME NEW r \in Run, Execute(r) \/ Enter(r) PROVE ReceiptInv'
  BY <1>1 DEF Execute, Enter
<1>2. ASSUME NEW r \in Run, Reserve(r) PROVE ReceiptInv'
  BY <1>2, <1>f DEF Reserve, Before
<1>3. ASSUME NEW r \in Run, ReserveFails(r) \/ WorkCancelled(r) PROVE ReceiptInv'
  BY <1>3 DEF ReserveFails, WorkCancelled
<1>4. ASSUME NEW r \in Run, NotSent(r) \/ Blocked(r) PROVE ReceiptInv'
  BY <1>4, <1>n DEF NotSent, Blocked
<1>5. ASSUME NEW r \in Run, NotSentNorSaid(r) PROVE ReceiptInv'
  BY <1>5, <1>n DEF NotSentNorSaid
<1>6. ASSUME NEW r \in Run, Send(r) PROVE ReceiptInv'
  BY <1>6 DEF Send
<1>7. ASSUME NEW r \in Run, Answered(r) \/ Unobserved(r) PROVE ReceiptInv'
  BY <1>7, Tickets DEF Answered, Unobserved
<1>8. ASSUME NEW r \in Run, Accept(r) PROVE ReceiptInv'
  BY <1>8 DEF Accept
<1>9. ASSUME NEW r \in Run, GiveUp(r) PROVE ReceiptInv'
  BY <1>9, Tickets DEF GiveUp
<1>10. ASSUME NEW r \in Run, Cancel(r) \/ Cancelled(r) PROVE ReceiptInv'
  BY <1>10 DEF Cancel, Cancelled
<1>11. ASSUME NEW r \in Run, StartCallback(r) \/ FinishCallback(r) PROVE ReceiptInv'
  BY <1>11, <1>n DEF StartCallback, FinishCallback
<1>12. ASSUME NEW r \in Run, Alter(r) \/ Reset(r) PROVE ReceiptInv'
  BY <1>12 DEF Alter, Reset
<1>13. ASSUME BlenderDies PROVE ReceiptInv'
  BY <1>13 DEF BlenderDies, Alive
<1>14. ASSUME Others PROVE ReceiptInv'
  BY <1>14, Tickets, NativeAssumption DEF Others, OtherEnters, OtherSends, OtherEnds, OtherLeaves, TicketInv
<1>15. ASSUME Crash PROVE ReceiptInv'
  BY <1>15 DEF Crash
<1>16. ASSUME Restart PROVE ReceiptInv'
  <2>1. owned' = NoTicket => ticket' \in {NoTicket, Foreign}
    <3>1. unresolved' \in SUBSET Run
      BY <1>16, ScanFacts DEF Restart
    <3> QED BY <1>16, <3>1, Tickets DEF Restart, Settle, TicketInv
  <2>2. \A r \in Run : pc'[r] \notin Started
    BY <1>16 DEF Restart, PhaseInv
  <2> QED BY <1>16, <2>1, <2>2 DEF Restart
<1>17. ASSUME Reconcile PROVE ReceiptInv'
  <2>1. owned' = NoTicket => ticket' \in {NoTicket, Foreign}
    <3>1. unresolved' \in SUBSET Run
      BY <1>17, ScanFacts DEF Reconcile
    <3> QED BY <1>17, <3>1, Tickets DEF Reconcile, Settle, TicketInv
  <2>2. \A r \in Run : pc'[r] \notin Started
    BY <1>17 DEF Reconcile
  <2> QED BY <1>17, <2>1, <2>2 DEF Reconcile
<1>18. ASSUME UNCHANGED vars PROVE ReceiptInv'
  BY <1>18 DEF vars
<1> HIDE DEF ReceiptInv
<1> QED BY <1>1, <1>2, <1>3, <1>4, <1>5, <1>6, <1>7, <1>8, <1>9, <1>10, <1>11, <1>12, <1>13, <1>14, <1>15,
           <1>16, <1>17, <1>18, NextCases, Zenon

LEMMA ReceiptInvariance == Spec => []ReceiptInv
<1>1. Init => ReceiptInv
  BY DEF Init, ReceiptInv, Started
<1> QED BY <1>1, ReceiptStep, Invariance, PTL DEF Spec

\* A step that leaves what a run's evidence is made of leaves the evidence.
LEMMA EvidenceKept ==
    ASSUME NEW q \in Run, files'[q] = files[q], terminal'[q] = terminal[q],
           q \in altered' <=> q \in altered, cb'[q] = "none" <=> cb[q] = "none",
           pc'[q] \in Started <=> pc[q] \in Started
    PROVE  Evidence(q)' = Evidence(q)
BY DEF Evidence, Restored, Started

LEMMA AllKept ==
    /\ (\A q \in Run : Evidence(q)' = Evidence(q)) => Evidences' = Evidences
    /\ (\A q \in Run : Place(q)' = Place(q)) => Places' = Places
    /\ pc' = pc => Places' = Places
BY DEF Evidences, Places, Place

LEMMA OneMoves ==
    ASSUME NEW r \in Run, NEW s
    PROVE  /\ Evidence(r)' = s /\ (\A q \in Run \ {r} : Evidence(q)' = Evidence(q))
                => Evidences' = [Evidences EXCEPT ![r] = s]
           /\ Place(r)' = s /\ (\A q \in Run \ {r} : pc'[q] = pc[q])
                => Places' = [Places EXCEPT ![r] = s]
BY DEF Evidences, Places, Place

\* Every step of the runner, its callbacks and everybody around them is a step of
\* the journal, or leaves it as it is.
LEMMA JournalStep == IInv /\ ReceiptInv /\ [Next]_vars => [Journal!Next]_(Journal!vars)
<1> SUFFICES ASSUME IInv, ReceiptInv, [Next]_vars PROVE Journal!Next \/ UNCHANGED Journal!vars
  OBVIOUS
<1> DEFINE Ok == Journal!Next \/ UNCHANGED Journal!vars
<1>t. TypeOK /\ PhaseInv /\ TicketInv /\ EvidenceInv
  BY DEF IInv
<1>a. \A r \in Run : Places[r] = Place(r) /\ Evidences[r] = Evidence(r)
  BY DEF Places, Evidences
<1>s. ASSUME UNCHANGED <<Places, Evidences, SealedBy, serving, unresolved>> PROVE Ok
  BY <1>s DEF Journal!vars
\* The lease's holder is the only one inside; it is served, and nobody else sealed Blender.
<1>h. ASSUME NEW r \in Run, pc[r] \in Inside
      PROVE  /\ serving /\ holder = r /\ r # None /\ \A q \in Run \ {r} : Place(q) = "out"
             /\ ticket # NoTicket => owned = ticket /\ pc[r] = "polling"
  BY <1>t, <1>h, NativeAssumption DEF PhaseInv, TicketInv, Inside, Place, Started
\* What a dispatched run's evidence is.
<1>d. ASSUME NEW r \in Run, pc[r] \in Started
      PROVE  /\ Place(r) = "dispatched" /\ "pending" \in files[r] /\ "ack" \notin files[r]
             /\ Evidence(r) = IF "reset" \in files[r] THEN "settled" ELSE IF Restored(r) THEN "terminal"
                              ELSE IF r \in altered THEN "spoiled" ELSE "pending"
  BY <1>t, <1>d DEF PhaseInv, ReceiptInv, Place, Evidence, Started
<1>1. ASSUME NEW r \in Run, Execute(r) \/ Enter(r) PROVE Ok
  <2>1. /\ UNCHANGED <<files, terminal, altered, cb, ticket, owned, serving, unresolved>>
        /\ pc[r] \in {"idle", "queued"} /\ pc'[r] \notin Started
        /\ \A q \in Run \ {r} : pc'[q] = pc[q]
        /\ pc'[r] # "building" \/ (holder = None /\ ticket = NoTicket /\ serving)
    BY <1>1, <1>t DEF Execute, Enter, Leave, Go, disk, blender, lease, runner, Started, TypeOK, PhaseInv
  <2>2. UNCHANGED <<Evidences, SealedBy>>
    BY <2>1, EvidenceKept, AllKept, Zenon DEF SealedBy, Started
  <2>3. CASE pc'[r] # "building"
    <3>1. \A q \in Run : Place(q)' = Place(q)
      BY <2>1, <2>3 DEF Place, Started
    <3> QED BY <2>1, <2>2, <3>1, AllKept, <1>s
  <2>4. CASE holder = None /\ ticket = NoTicket /\ serving /\ pc'[r] = "building"
    <3>1. Place(r)' = "preparing"
      BY <2>4 DEF Place
    <3>2. \A q \in Run : Places[q] = "out"
      BY <1>a, <1>t, <2>4, NativeAssumption DEF PhaseInv, Inside, Place, Started
    <3>3. Journal!Enter(r)
      BY <2>1, <2>2, <2>4, <3>1, <3>2, OneMoves
      DEF Journal!Enter, Journal!AllOut, Journal!Inside, Journal!Go, SealedBy
    <3> QED BY <3>3 DEF Journal!Next
  <2> QED BY <2>1, <2>3, <2>4
<1>2. ASSUME NEW r \in Run, Reserve(r) PROVE Ok
  <2>1. /\ UNCHANGED <<terminal, altered, cb, ticket, owned, serving>>
        /\ pc[r] = "building" /\ pc'[r] = "sending" /\ unresolved' = unresolved \union {r}
        /\ \A q \in Run \ {r} : pc'[q] = pc[q] /\ files'[q] = files[q]
        /\ files'[r] = files[r] \union {"dir", "pending"}
    BY <1>2, <1>t DEF Reserve, Go, Add, disk, blender, lease, TypeOK
  <2>2. files[r] = {} /\ terminal[r] = "none" /\ r \notin altered
    BY <1>t, <2>1 DEF PhaseInv, Before, ReceiptInv
  <2>3. Place(r) = "preparing" /\ Place(r)' = "dispatched" /\ Evidence(r) = "clear"
    BY <2>1, <2>2 DEF Place, Started, Evidence
  <2>4. Evidence(r)' = "pending"
    BY <2>1, <2>2 DEF Evidence, Started, Restored
  <2>5. \A q \in Run \ {r} : Evidence(q)' = Evidence(q)
    BY <2>1, EvidenceKept
  <2>6. Journal!Dispatch(r)
    BY <1>a, <2>1, <2>3, <2>4, <2>5, OneMoves DEF Journal!Dispatch, Journal!Go, Journal!Become, SealedBy
  <2> QED BY <2>6 DEF Journal!Next
<1>3. ASSUME NEW r \in Run, ReserveFails(r) \/ WorkCancelled(r) PROVE Ok
  <2>1. /\ UNCHANGED <<terminal, altered, cb, ticket, owned, serving, unresolved>>
        /\ pc[r] \in {"queued", "building"} /\ pc'[r] \in {"failed", "cancelled"}
        /\ \A q \in Run \ {r} : pc'[q] = pc[q] /\ files'[q] = files[q]
        /\ \/ files'[r] = files[r]
           \/ pc[r] = "building" /\ files'[r] \in {files[r] \union {"dir"}, files[r] \union {"dir", "pending"}}
    <3>1. CASE ReserveFails(r)
      <4>1. CASE UNCHANGED files
        BY <3>1, <4>1, <1>t DEF ReserveFails, Leave, Go, Fault, NoFault, blender, runner, TypeOK
      <4>2. ASSUME NEW done \in {{"dir"}, {"dir", "pending"}}, Add(r, done)
            PROVE  /\ \A q \in Run \ {r} : files'[q] = files[q]
                   /\ files'[r] \in {files[r] \union {"dir"}, files[r] \union {"dir", "pending"}}
        BY <4>2, <1>t DEF Add, TypeOK
      <4>3. UNCHANGED files \/ \E done \in {{"dir"}, {"dir", "pending"}} : Add(r, done)
        BY <3>1 DEF ReserveFails
      <4>4. /\ UNCHANGED <<terminal, altered, cb, ticket, owned, serving, unresolved>>
            /\ pc[r] = "building" /\ pc'[r] \in {"failed", "cancelled"}
            /\ \A q \in Run \ {r} : pc'[q] = pc[q]
        BY <3>1, <1>t DEF ReserveFails, Leave, Go, blender, runner, TypeOK
      <4> QED BY <4>1, <4>2, <4>3, <4>4
    <3>2. CASE WorkCancelled(r)
      BY <3>2, <1>t DEF WorkCancelled, Leave, Go, disk, blender, runner, TypeOK
    <3> QED BY <1>3, <3>1, <3>2
  <2>2. files[r] = {} /\ terminal[r] = "none" /\ cb[r] = "none" /\ r \notin altered
    BY <1>t, <2>1 DEF PhaseInv, Before, ReceiptInv
  <2>3. \A q \in Run \ {r} : Evidence(q)' = Evidence(q)
    BY <2>1, EvidenceKept
  <2>4. Place(r)' = "out"
    BY <2>1 DEF Place, Started
  <2>5. CASE pc[r] = "queued"
    <3>1. files'[r] = files[r] /\ Place(r) = "out"
      BY <2>1, <2>5 DEF Place, Started
    <3>2. Evidence(r)' = Evidence(r)
      BY <2>1, <2>5, <3>1, EvidenceKept DEF Started
    <3>3. \A q \in Run : Place(q)' = Place(q) /\ Evidence(q)' = Evidence(q)
      BY <2>1, <2>3, <2>4, <3>1, <3>2 DEF Place
    <3> QED BY <2>1, <3>3, AllKept, <1>s DEF SealedBy
  <2>6. CASE pc[r] = "building"
    <3>1. Places[r] = "preparing" /\ Evidence(r) = "clear"
      BY <1>a, <2>2, <2>6 DEF Place, Evidence
    <3>2. Evidence(r)' \in {"clear", "partial"}
      BY <2>1, <2>2 DEF Evidence, Restored, Started
    <3>3. Evidences' = Evidences \/ Evidences' = [Evidences EXCEPT ![r] = "partial"]
      BY <2>3, <3>1, <3>2, AllKept, OneMoves
    <3>4. Journal!Refuse(r)
      BY <2>1, <2>4, <3>1, <3>3, OneMoves DEF Journal!Refuse, Journal!Go, Journal!Become, SealedBy
    <3> QED BY <3>4 DEF Journal!Next
  <2> QED BY <2>1, <2>5, <2>6
<1>4. ASSUME NEW r \in Run, NotSent(r) \/ Blocked(r) PROVE Ok
  <2>1. /\ UNCHANGED <<files, altered, cb, ticket, owned, serving, unresolved>>
        /\ pc[r] = "sending" /\ pc'[r] = "polling"
        /\ \A q \in Run \ {r} : pc'[q] = pc[q] /\ terminal'[q] = terminal[q]
        /\ terminal'[r] \in {terminal[r], "failed"}
    BY <1>4, <1>t DEF NotSent, Blocked, Go, disk, blender, lease, runner, TypeOK
  <2>2. cb[r] = "none" /\ terminal[r] = "none" /\ r \notin altered /\ "reset" \notin files[r]
    BY <1>t, <2>1 DEF PhaseInv, EvidenceInv, ReceiptInv
  <2>3. \A q \in Run : Place(q)' = Place(q)
    BY <2>1 DEF Place, Started
  <2>4. \A q \in Run \ {r} : Evidence(q)' = Evidence(q)
    BY <2>1, EvidenceKept
  <2>5. "pending" \in files[r] /\ "ack" \notin files[r] /\ Evidence(r) = "pending"
    BY <1>d, <2>1, <2>2 DEF Started, Restored
  <2>6. Evidence(r)' \in {"pending", "terminal"}
    BY <2>1, <2>2, <2>5 DEF Evidence, Started, Restored
  <2>7. CASE Evidence(r)' = "pending"
    BY <2>1, <2>3, <2>4, <2>5, <2>7, AllKept, <1>s DEF SealedBy
  <2>8. CASE Evidence(r)' = "terminal"
    <3>1. Journal!Prove(r)
      BY <1>a, <2>1, <2>3, <2>4, <2>5, <2>8, AllKept, OneMoves DEF Journal!Prove, Journal!Become, SealedBy
    <3> QED BY <3>1 DEF Journal!Next
  <2> QED BY <2>6, <2>7, <2>8
<1>5. ASSUME NEW r \in Run, NotSentNorSaid(r) PROVE Ok
  <2>1. /\ UNCHANGED <<files, altered, cb, ticket, owned, serving, unresolved>>
        /\ pc[r] = "sending" /\ pc'[r] \in {"doubt", "cancelled"}
        /\ \A q \in Run \ {r} : pc'[q] = pc[q] /\ terminal'[q] = terminal[q]
        /\ terminal'[r] \in {terminal[r], "failed"}
    BY <1>5, <1>t DEF NotSentNorSaid, LeaveInDoubt, Leave, Go, blender, runner, TypeOK
  <2>2. cb[r] = "none" /\ terminal[r] = "none" /\ r \notin altered /\ "reset" \notin files[r]
    BY <1>t, <2>1 DEF PhaseInv, EvidenceInv, ReceiptInv
  <2>3. Place(r)' = "out" /\ Places[r] = "dispatched"
    BY <1>a, <2>1 DEF Place, Started
  <2>4. \A q \in Run \ {r} : Evidence(q)' = Evidence(q)
    BY <2>1, EvidenceKept
  <2>5. "pending" \in files[r] /\ "ack" \notin files[r] /\ Evidences[r] = "pending"
    BY <1>a, <1>d, <2>1, <2>2 DEF Started, Restored
  <2>6. Evidence(r)' \in {"partial", "terminal"}
    BY <2>1, <2>2, <2>5 DEF Evidence, Started, Restored
  <2>7. Journal!Unsent(r)
    BY <2>1, <2>3, <2>4, <2>5, <2>6, OneMoves DEF Journal!Unsent, Journal!Go, Journal!Become, SealedBy
  <2> QED BY <2>7 DEF Journal!Next
<1>6. ASSUME NEW r \in Run, Send(r) PROVE Ok
  <2>1. /\ UNCHANGED <<files, terminal, altered, ticket, owned, serving, unresolved>>
        /\ pc[r] = "sending" /\ pc'[r] = "waiting" /\ cb'[r] = "sent"
        /\ \A q \in Run \ {r} : pc'[q] = pc[q] /\ cb'[q] = cb[q]
    BY <1>6, <1>t DEF Send, Go, disk, lease, runner, TypeOK
  <2>2. \A q \in Run : Place(q)' = Place(q)
    BY <2>1 DEF Place, Started
  <2>3. \A q \in Run \ {r} : Evidence(q)' = Evidence(q)
    BY <2>1, EvidenceKept
  <2>4. Evidence(r)' = Evidence(r)
    BY <2>1 DEF Evidence, Started, Restored
  <2> QED BY <2>1, <2>2, <2>3, <2>4, AllKept, <1>s DEF SealedBy
<1>7. ASSUME NEW r \in Run, Answered(r) \/ Unobserved(r) PROVE Ok
  <2>1. /\ UNCHANGED <<files, terminal, altered, cb, serving, unresolved>>
        /\ pc[r] = "waiting" /\ pc'[r] = "polling"
        /\ \A q \in Run \ {r} : pc'[q] = pc[q]
        /\ UNCHANGED <<ticket, owned>> \/ SealedBy' = "runner"
    BY <1>7, <1>t, Tickets DEF Answered, Unobserved, Seal, SealedBy, Go, disk, blender, lease, runner, TypeOK
  <2>2. \A q \in Run : Place(q)' = Place(q) /\ Evidence(q)' = Evidence(q)
    BY <2>1, EvidenceKept DEF Place, Started
  <2>3. CASE UNCHANGED <<ticket, owned>>
    BY <2>1, <2>2, <2>3, AllKept, <1>s DEF SealedBy
  <2>4. CASE SealedBy' = "runner"
    <3>1. Places[r] = "dispatched"
      BY <1>a, <2>1 DEF Place, Started
    <3>2. Journal!Unobserved(r)
      BY <2>1, <2>2, <2>4, <3>1, AllKept DEF Journal!Unobserved
    <3> QED BY <3>2 DEF Journal!Next
  <2> QED BY <2>1, <2>3, <2>4
<1>8. ASSUME NEW r \in Run, Accept(r) PROVE Ok
  <2>1. /\ UNCHANGED <<terminal, altered, cb, serving>>
        /\ pc[r] = "polling" /\ pc'[r] \in {"done", "failed", "cancelled"} /\ Restored(r)
        /\ \A q \in Run \ {r} : pc'[q] = pc[q] /\ files'[q] = files[q]
        /\ files'[r] = files[r] \union {"ack"} /\ unresolved' = unresolved \ {r}
        /\ ticket' = IF owned = NoTicket THEN ticket ELSE NoTicket
    BY <1>8, <1>t DEF Accept, Leave, Go, Add, blender, TypeOK
  <2>2. ticket' = NoTicket
    BY <1>h, <2>1 DEF Inside, Started
  <2>3. /\ Places[r] = "dispatched" /\ Place(r)' = "out" /\ "pending" \in files[r]
        /\ "reset" \notin files[r] /\ Evidences[r] = "terminal"
    BY <1>a, <1>d, <1>t, <2>1 DEF Place, Started, EvidenceInv, Restored
  <2>4. Evidence(r)' = "settled" /\ \A q \in Run \ {r} : Evidence(q)' = Evidence(q)
    BY <2>1, <2>3, EvidenceKept DEF Evidence, Restored
  <2>5. Journal!Return(r)
    BY <2>1, <2>2, <2>3, <2>4, OneMoves DEF Journal!Return, Journal!Go, Journal!Become, SealedBy
  <2> QED BY <2>5 DEF Journal!Next
<1>9. ASSUME NEW r \in Run, GiveUp(r) PROVE Ok
  <2>1. /\ UNCHANGED <<terminal, altered, cb, serving, unresolved>>
        /\ pc[r] = "polling" /\ pc'[r] \in {"doubt", "cancelled"} /\ SealedBy' = "runner"
        /\ \A q \in Run \ {r} : pc'[q] = pc[q] /\ files'[q] = files[q]
        /\ files'[r] = files[r] \/ (Restored(r) /\ files'[r] = files[r] \union {"ack"})
    BY <1>9, <1>t, Tickets DEF GiveUp, LeaveInDoubt, Leave, Seal, SealedBy, Go, Add, blender, TypeOK
  <2>2. Places[r] = "dispatched" /\ Place(r)' = "out"
    BY <1>a, <2>1 DEF Place, Started
  <2>3. \A q \in Run \ {r} : Evidence(q)' = Evidence(q)
    BY <2>1, EvidenceKept
  <2>4. /\ "pending" \in files[r] /\ "ack" \notin files[r]
        /\ Evidence(r) = IF "reset" \in files[r] THEN "settled" ELSE IF Restored(r) THEN "terminal"
                         ELSE IF r \in altered THEN "spoiled" ELSE "pending"
    BY <1>d, <2>1 DEF Started
  <2>5. \/ Evidence(r)' = Evidence(r)
        \/ Evidence(r) = "pending" /\ Evidence(r)' = "partial"
        \/ Evidence(r) = "terminal" /\ Evidence(r)' = "settled"
    BY <2>1, <2>4 DEF Evidence, Restored, Started
  <2>6. \/ UNCHANGED Evidences
        \/ Evidences[r] = "pending" /\ Evidences' = [Evidences EXCEPT ![r] = "partial"]
        \/ Evidences[r] = "terminal" /\ Evidences' = [Evidences EXCEPT ![r] = "settled"]
    BY <1>a, <2>3, <2>5, AllKept, OneMoves
  <2>7. Journal!Doubt(r)
    BY <2>1, <2>2, <2>6, OneMoves DEF Journal!Doubt, Journal!Go, Journal!Become
  <2> QED BY <2>7 DEF Journal!Next
<1>10. ASSUME NEW r \in Run, Cancel(r) \/ Cancelled(r) PROVE Ok
  <2>1. UNCHANGED <<files, terminal, altered, cb, pc, ticket, owned, serving, unresolved>>
    BY <1>10 DEF Cancel, Cancelled, disk, blender, lease, runner
  <2>2. UNCHANGED <<Evidences, Places>>
    BY <2>1, EvidenceKept, AllKept, Zenon
  <2> QED BY <2>1, <2>2, <1>s DEF SealedBy
<1>11. ASSUME NEW r \in Run, StartCallback(r) \/ FinishCallback(r) PROVE Ok
  <2>1. /\ UNCHANGED <<altered, pc, ticket, owned, serving, unresolved>>
        /\ cb[r] \in Alive /\ cb'[r] # "none"
        /\ \A q \in Run \ {r} : cb'[q] = cb[q] /\ terminal'[q] = terminal[q] /\ files'[q] = files[q]
        /\ files'[r] \in {files[r], files[r] \union {"started"}}
        /\ terminal'[r] \in Terminal \union {"none"}
    BY <1>11, <1>t DEF StartCallback, FinishCallback, Add, Alive, NoFault, Fault, lease, runner, TypeOK
  <2>2. /\ terminal[r] = "none" /\ r \notin altered /\ "pending" \in files[r]
        /\ "reset" \notin files[r] /\ cb[r] # "none"
    BY <1>t, <2>1 DEF EvidenceInv, ReceiptInv, Alive
  <2>3. \A q \in Run \ {r} : Evidence(q)' = Evidence(q)
    BY <2>1, EvidenceKept
  <2>4. Evidence(r) = "pending"
    BY <2>2 DEF Evidence, Restored
  <2>5. "ack" \notin files[r] => Evidence(r)' \in {"pending", "terminal"}
    BY <2>1, <2>2 DEF Evidence, Restored
  <2>6. Evidence(r)' \in {"pending", "terminal", "settled"}
    BY <2>1, <2>2 DEF Evidence, Restored
  <2>7. CASE Evidence(r)' = "pending"
    BY <2>1, <2>3, <2>4, <2>7, AllKept, <1>s DEF SealedBy
  <2>8. CASE Evidence(r)' \in {"terminal", "settled"}
    <3>1. Journal!Prove(r)
      BY <1>a, <2>1, <2>3, <2>4, <2>8, AllKept, OneMoves DEF Journal!Prove, Journal!Become, SealedBy
    <3> QED BY <3>1 DEF Journal!Next
  <2> QED BY <2>6, <2>7, <2>8
<1>12. ASSUME NEW r \in Run, Alter(r) \/ Reset(r) PROVE Ok
  <2>1. /\ UNCHANGED <<terminal, cb, pc, ticket, owned, serving, unresolved>>
        /\ \A q \in Run \ {r} : (q \in altered' <=> q \in altered) /\ files'[q] = files[q]
        /\ \/ terminal[r] = "completed" /\ r \notin altered /\ r \in altered' /\ files'[r] = files[r]
           \/ terminal[r] = "unrestored" /\ altered' = altered /\ files'[r] = files[r] \union {"reset"}
              /\ "reset" \notin files[r]
    BY <1>12, <1>t DEF Alter, Reset, Add, blender, lease, runner, TypeOK
  <2>2. UNCHANGED <<Places, SealedBy>> /\ \A q \in Run \ {r} : Evidence(q)' = Evidence(q)
    BY <2>1, EvidenceKept, AllKept DEF SealedBy
  <2>3. \/ Evidence(r)' = Evidence(r)
        \/ Evidence(r) \in {"terminal", "settled"} /\ Evidence(r)' = "spoiled"
        \/ Evidence(r) = "pending" /\ Evidence(r)' = "settled"
    <3>1. CASE terminal[r] = "completed" /\ r \notin altered /\ r \in altered' /\ files'[r] = files[r]
      BY <2>1, <3>1 DEF Evidence, Restored
    <3>2. CASE /\ terminal[r] = "unrestored" /\ altered' = altered /\ files'[r] = files[r] \union {"reset"}
               /\ "reset" \notin files[r]
      <4>1. r \notin altered /\ cb[r] # "none"
        BY <3>2 DEF ReceiptInv
      <4>2. "pending" \in files[r] /\ "pending" \in files'[r] /\ "reset" \in files'[r]
        BY <1>t, <3>2, <4>1 DEF EvidenceInv
      <4>3. Evidence(r)' = "settled"
        BY <4>2 DEF Evidence
      <4>4. Evidence(r) = "pending"
        BY <3>2, <4>1, <4>2 DEF Evidence, Restored
      <4> QED BY <4>3, <4>4
    <3> QED BY <2>1, <3>1, <3>2
  <2>4. CASE Evidence(r)' = Evidence(r)
    BY <2>1, <2>2, <2>4, AllKept, <1>s
  <2>5. CASE Evidence(r) \in {"terminal", "settled"} /\ Evidence(r)' = "spoiled"
    <3>1. Journal!Spoil(r)
      BY <1>a, <2>1, <2>2, <2>5, OneMoves DEF Journal!Spoil, Journal!Become
    <3> QED BY <3>1 DEF Journal!Next
  <2>6. CASE Evidence(r) = "pending" /\ Evidence(r)' = "settled"
    <3>1. Journal!Prove(r)
      BY <1>a, <2>1, <2>2, <2>6, OneMoves DEF Journal!Prove, Journal!Become
    <3> QED BY <3>1 DEF Journal!Next
  <2> QED BY <2>3, <2>4, <2>5, <2>6
<1>13. ASSUME BlenderDies PROVE Ok
  <2>1. UNCHANGED <<files, terminal, altered, pc, ticket, owned, serving, unresolved>>
    BY <1>13 DEF BlenderDies, disk, lease, runner
  <2>2. \A q \in Run : cb'[q] = "none" <=> cb[q] = "none"
    BY <1>t, <1>13 DEF BlenderDies, Alive, TypeOK
  <2>3. UNCHANGED <<Evidences, Places>>
    BY <2>1, <2>2, EvidenceKept, AllKept
  <2> QED BY <2>1, <2>3, <1>s DEF SealedBy
<1>14. ASSUME Others PROVE Ok
  <2>1. UNCHANGED <<files, terminal, altered, cb, pc, owned, serving, unresolved>>
    <3>1. CASE OtherEnters
      BY <3>1 DEF OtherEnters, disk, blender, runner
    <3>2. CASE OtherSends
      BY <3>2 DEF OtherSends, disk, runner
    <3>3. CASE OtherEnds
      BY <3>3 DEF OtherEnds, disk, runner
    <3>4. CASE OtherLeaves
      BY <3>4 DEF OtherLeaves, disk, blender, runner
    <3> QED BY <1>14, <3>1, <3>2, <3>3, <3>4 DEF Others
  <2>2. UNCHANGED <<Evidences, Places>>
    BY <2>1, EvidenceKept, AllKept, Zenon
  <2>3. CASE ticket' = ticket
    BY <2>1, <2>2, <2>3, <1>s DEF SealedBy
  <2>4. CASE ticket' # ticket
    <3>1. holder = Other /\ ticket' = Foreign
      BY <1>14, <2>4 DEF Others, OtherEnters, OtherSends, OtherEnds, OtherLeaves, lease
    <3>2. /\ serving /\ ticket = NoTicket /\ owned = NoTicket
          /\ \A q \in Run : Places[q] = "out"
      BY <1>a, <1>t, <3>1, NativeAssumption DEF PhaseInv, TicketInv, Inside, Place, Started
    <3>3. Journal!OtherSeals
      BY <2>1, <2>2, <3>1, <3>2, Tickets DEF Journal!OtherSeals, Journal!AllOut, Journal!Inside, SealedBy
    <3> QED BY <3>3 DEF Journal!Next
  <2> QED BY <2>3, <2>4
<1>15. ASSUME Crash PROVE Ok
  <2>1. /\ UNCHANGED <<terminal, altered, cb>> /\ serving /\ serving' = FALSE
        /\ ticket' = NoTicket /\ unresolved' = {}
        /\ \A q \in Run : pc'[q] \in {"idle", "gone"}
        /\ \/ UNCHANGED files
           \/ \E r \in Run : pc[r] = "building" /\ \E torn \in TornReserve(r) : Add(r, torn)
    BY <1>15 DEF Crash, blender
  <2>2. \A q \in Run : Place(q)' = "out"
    BY <2>1 DEF Place, Started
  <2>3. \A q \in Run : Evidence(q)' # Evidence(q) =>
           Place(q) # "out" /\ Evidence(q) \in {"clear", "pending"} /\ Evidence(q)' = "partial"
    <3> SUFFICES ASSUME NEW q \in Run, Evidence(q)' # Evidence(q)
                 PROVE  Place(q) # "out" /\ Evidence(q) \in {"clear", "pending"} /\ Evidence(q)' = "partial"
      OBVIOUS
    <3>1. CASE files'[q] = files[q]
      <4>1. pc[q] \in Started /\ pc'[q] \notin Started
        BY <2>1, <3>1, EvidenceKept DEF Started
      <4> QED BY <2>1, <3>1, <4>1 DEF Evidence, Restored, Place, Started
    <3>2. CASE files'[q] # files[q]
      <4>1. PICK r \in Run : pc[r] = "building" /\ \E torn \in TornReserve(r) : Add(r, torn)
        BY <2>1, <3>2
      <4>2. PICK torn \in TornReserve(r) : Add(r, torn)
        BY <4>1
      <4>3. q = r
        BY <1>t, <3>2, <4>2 DEF Add, TypeOK
      <4>4. files[q] = {} /\ terminal[q] = "none" /\ cb[q] = "none" /\ q \notin altered
        BY <1>t, <4>1, <4>3 DEF PhaseInv, Before, ReceiptInv
      <4>5. files'[q] = torn
        BY <1>t, <4>2, <4>3, <4>4 DEF Add, TypeOK
      <4>6. Place(q) = "preparing" /\ Evidence(q) = "clear"
        BY <4>1, <4>3, <4>4 DEF Place, Evidence
      <4>7. torn \in {{}, {"dir"}, {"dir", "temp"}, {"dir", "pending"}}
        BY <4>2 DEF TornReserve
      <4>8. Evidence(q)' \in {"clear", "partial"}
        BY <2>1, <4>4, <4>5, <4>7 DEF Evidence, Restored, Started
      <4> QED BY <4>6, <4>8
    <3> QED BY <3>1, <3>2
  <2> DEFINE runs == {q \in Run : Evidence(q)' # Evidence(q)}
  <2>4. runs \in SUBSET {q \in Run : Journal!Inside(q) /\ Evidences[q] \in {"clear", "pending"}}
    BY <1>a, <2>3 DEF Journal!Inside
  <2>5. Journal!Torn(runs)
    BY <1>a, <2>3 DEF Journal!Torn, Evidences
  <2>6. Places' = [q \in Run |-> "out"] /\ SealedBy' = "none"
    BY <2>1, <2>2 DEF Places, SealedBy
  <2>7. Journal!Stop
    BY <2>1, <2>4, <2>5, <2>6 DEF Journal!Stop
  <2> QED BY <2>7 DEF Journal!Next
\* What a scan makes of the evidence.
<1>c. ASSUME NEW failing \in Failing, Scan(failing),
             UNCHANGED <<terminal, altered, cb, pc>>, \A q \in Run : pc[q] \notin Started
      PROVE  failing \in SUBSET Journal!Terminals /\ Journal!Scan(failing)
  <2>1. \A q \in Run : Acknowledgeable(q) <=> Evidence(q) = "terminal"
    BY DEF Acknowledgeable, Evidence
  <2>2. failing \in SUBSET Journal!Terminals
    BY <1>a, <1>c, <2>1 DEF Failing, Journal!Terminals
  <2>3. \A q \in Run : Unproven(q) <=> Evidence(q) \in {"partial", "pending", "spoiled"}
    BY <1>c, <1>t DEF Unproven, Evidence, EvidenceInv, Restored, TypeOK
  <2>4. \A q \in Run : Evidence(q)' = IF q \in Journal!Terminals \ failing THEN "settled" ELSE Evidence(q)
    <3> SUFFICES ASSUME NEW q \in Run
                 PROVE  Evidence(q)' = IF q \in Journal!Terminals \ failing THEN "settled" ELSE Evidence(q)
      OBVIOUS
    <3>1. CASE Acknowledgeable(q) /\ q \notin failing
      <4>1. files'[q] = files[q] \union {"ack"} /\ q \in Journal!Terminals
        BY <1>a, <1>c, <2>1, <3>1 DEF Scan, Journal!Terminals
      <4> QED BY <1>c, <3>1, <4>1 DEF Acknowledgeable, Evidence, Restored
    <3>2. CASE ~(Acknowledgeable(q) /\ q \notin failing)
      <4>1. files'[q] = files[q] /\ q \notin Journal!Terminals \ failing
        BY <1>a, <1>c, <2>1, <3>2 DEF Scan, Journal!Terminals
      <4> QED BY <1>c, <4>1, EvidenceKept
    <3> QED BY <3>1, <3>2
  <2>5. /\ Evidences' = [q \in Run |-> IF q \in Journal!Terminals \ failing THEN "settled" ELSE Evidences[q]]
        /\ unresolved' = {q \in Run : Evidences[q] \in {"partial", "pending", "spoiled"}} \union failing
    BY <1>a, <1>c, <2>3, <2>4 DEF Scan, Evidences
  <2> QED BY <2>2, <2>5 DEF Journal!Scan
<1>16. ASSUME Restart PROVE Ok
  <2>1. PICK failing \in Failing : Scan(failing)
    BY <1>16 DEF Restart
  <2>2. /\ UNCHANGED <<terminal, altered, cb, pc>> /\ ~serving /\ serving' /\ holder = None
        /\ ticket = NoTicket /\ owned = NoTicket /\ \A q \in Run : pc[q] \in {"idle", "gone"}
    BY <1>t, <1>16 DEF Restart, PhaseInv, blender
  <2>3. failing \in SUBSET Journal!Terminals /\ Journal!Scan(failing)
    BY <1>c, <2>1, <2>2 DEF Started
  <2>4. SealedBy' = IF unresolved' = {} THEN "none" ELSE "runner"
    <3>1. unresolved' \in SUBSET Run
      BY <1>t, <2>1, ScanFacts
    <3>2. ~Busy /\ Settle
      BY <1>16, <2>2 DEF Busy, Restart
    <3> QED BY <2>2, <3>1, <3>2, Tickets DEF Settle, Refused, SealedBy
  <2>5. Journal!Restart(failing)
    BY <1>16, <2>2, <2>3, <2>4, AllKept DEF Journal!Restart, Restart
  <2> QED BY <2>3, <2>5 DEF Journal!Next
<1>17. ASSUME Reconcile PROVE Ok
  <2>1. PICK failing \in Failing : Scan(failing)
    BY <1>17 DEF Reconcile
  <2>2. /\ UNCHANGED <<terminal, altered, cb, pc, serving>> /\ serving
        /\ \A q \in Run : pc[q] \notin Active
    BY <1>17 DEF Reconcile, blender
  <2>3. failing \in SUBSET Journal!Terminals /\ Journal!Scan(failing)
    BY <1>c, <2>1, <2>2 DEF Active
  <2>4. Journal!AllOut
    BY <1>a, <2>2 DEF Journal!AllOut, Journal!Inside, Place, Active
  <2>5. Journal!Reseal
    <3>1. unresolved' \in SUBSET Run
      BY <1>t, <2>1, ScanFacts
    <3>2. Settle
      BY <1>17 DEF Reconcile
    <3>3. CASE unresolved' = {}
      BY <1>t, <3>2, <3>3 DEF Settle, SealedBy, Journal!Reseal, TicketInv
    <3>4. CASE unresolved' # {} /\ (owned # NoTicket \/ Refused)
      BY <3>2, <3>4 DEF Settle, SealedBy, Journal!Reseal
    <3>5. CASE unresolved' # {} /\ owned = NoTicket /\ ~Refused
      <4>1. ticket = NoTicket
        BY <3>1, <3>5, Tickets DEF Refused, ReceiptInv
      <4>2. ticket' = Digest(unresolved') /\ owned' = ticket'
        BY <3>2, <3>5 DEF Settle
      <4> QED BY <3>1, <3>5, <4>1, <4>2, Tickets DEF SealedBy, Journal!Reseal
    <3> QED BY <3>3, <3>4, <3>5
  <2>6. Journal!Reconcile(failing)
    BY <2>2, <2>3, <2>4, <2>5, AllKept DEF Journal!Reconcile
  <2> QED BY <2>3, <2>6 DEF Journal!Next
<1>18. ASSUME UNCHANGED vars PROVE Ok
  <2>1. UNCHANGED <<files, terminal, altered, cb, pc, ticket, owned, serving, unresolved>>
    BY <1>18 DEF vars, disk, blender, lease, runner
  <2>2. UNCHANGED <<Evidences, Places>>
    BY <2>1, EvidenceKept, AllKept, Zenon
  <2> QED BY <2>1, <2>2, <1>s DEF SealedBy
<1> HIDE DEF Ok
<1> QED BY <1>1, <1>2, <1>3, <1>4, <1>5, <1>6, <1>7, <1>8, <1>9, <1>10, <1>11, <1>12, <1>13, <1>14, <1>15,
           <1>16, <1>17, <1>18, NextCases, Zenon DEF Ok

\* The runner, its receipts, callbacks and tickets implement the journal that the
\* design pipeline is built on.
THEOREM ImplementsJournal == Spec => KeepsJournal
<1>1. Init => Journal!Init
  BY DEF Init, Journal!Init, Places, Place, Evidences, Evidence, SealedBy, Started
<1> QED BY <1>1, JournalStep, Invariance, ReceiptInvariance, PTL DEF Spec, Journal!Spec, KeepsJournal

=============================================================================
