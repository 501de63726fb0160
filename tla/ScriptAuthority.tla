---------------------------- MODULE ScriptAuthority ----------------------------
(***************************************************************************)
(* The permit for one exact internal program                               *)
(* (adapters/security/request_script_authority.py): a task opens a scope   *)
(* for a program, the permit lives in a context variable, and contexts are *)
(* copied: by a child task, by a thread, by copy_context().                *)
(***************************************************************************)
EXTENDS Naturals, Sequences

CONSTANTS
    Task,
    Copy,        \* contexts saved with copy_context(), or given to a thread
    Code,        \* programs
    None,
    MaxPermits   \* bound: scopes entered

ASSUME AuthorityAssumption ==
    /\ Task \intersect Copy = {}
    /\ None \notin Task
    /\ MaxPermits \in Nat

VARIABLES
    permits,     \* every _Permit object made, in order
    permit,      \* the context variable's value in each context; 0 is its default
    scopes,      \* the open scopes of each task: its permit, the value it replaced
    started      \* tasks that run

authorityVars == <<permits, permit, scopes, started>>

Permit == [code : Code, owner : Task, active : BOOLEAN]

AuthorityTypeOK ==
    /\ permits \in Seq(Permit) /\ Len(permits) <= MaxPermits
    /\ permit \in [Task \union Copy -> 0..Len(permits)]
    /\ scopes \in [Task -> Seq([permit : 1..Len(permits), before : 0..Len(permits)])]
    /\ started \subseteq Task

\* One request runs; it may start the others.
AuthorityInit ==
    /\ permits = <<>>
    /\ permit = [k \in Task \union Copy |-> 0]
    /\ scopes = [t \in Task |-> <<>>]
    /\ \E t \in Task : started = {t}

\* Mutant: whoever runs in a context with a live permit has it.
GrantedToAnyone(asker, k, code) ==
    /\ permit[k] # 0
    /\ permits[permit[k]].active
    /\ permits[permit[k]].code = code

\* timeout_for, asked by a task (or by a thread: None) that runs in context k.
Granted(asker, k, code) ==
    /\ permit[k] # 0
    /\ permits[permit[k]].active
    /\ permits[permit[k]].owner = asker
    /\ permits[permit[k]].code = code

Enter(t) ==
    /\ t \in started /\ Len(permits) < MaxPermits
    /\ \E c \in Code :
         permits' = Append(permits, [code |-> c, owner |-> t, active |-> TRUE])
    /\ permit' = [permit EXCEPT ![t] = Len(permits) + 1]
    /\ scopes' = [scopes EXCEPT ![t] =
           Append(@, [permit |-> Len(permits) + 1, before |-> permit[t]])]
    /\ UNCHANGED started

\* The scope's finally: also when it is left by an error or a cancellation.
Leave(t) ==
    /\ scopes[t] # <<>>
    /\ LET last == scopes[t][Len(scopes[t])] IN
         /\ permits' = [permits EXCEPT ![last.permit].active = FALSE]
         /\ permit' = [permit EXCEPT ![t] = last.before]
    /\ scopes' = [scopes EXCEPT ![t] = SubSeq(@, 1, Len(@) - 1)]
    /\ UNCHANGED started

\* create_task: the child starts in a copy of its parent's context.
Spawn(t, child) ==
    /\ t \in started /\ child \notin started
    /\ started' = started \union {child}
    /\ permit' = [permit EXCEPT ![child] = permit[t]]
    /\ UNCHANGED <<permits, scopes>>

\* copy_context(), asyncio.to_thread: the copy may be run in at any later time.
Save(t, k) ==
    /\ t \in started
    /\ permit' = [permit EXCEPT ![k] = permit[t]]
    /\ UNCHANGED <<permits, scopes, started>>

AuthorityNext ==
    \E t \in Task :
        \/ Enter(t) \/ Leave(t)
        \/ \E child \in Task : Spawn(t, child)
        \/ \E k \in Copy : Save(t, k)

AuthoritySpec == AuthorityInit /\ [][AuthorityNext]_authorityVars

-----------------------------------------------------------------------------
\* "Context inheritance is not authorization" (request_script_authority.py:5):
\* in its own context a task is granted the program of its own innermost open
\* scope and no other, and in any other context at most the program of a scope
\* it still has open; a thread is granted nothing.
PermitIsScoped ==
    \A c \in Code, k \in Task \union Copy :
        /\ ~Granted(None, k, c)
        /\ \A t \in started :
             /\ Granted(t, t, c) <=>
                    /\ scopes[t] # <<>>
                    /\ permits[scopes[t][Len(scopes[t])].permit].code = c
             /\ Granted(t, k, c) =>
                    \E i \in DOMAIN scopes[t] : permits[scopes[t][i].permit].code = c
=============================================================================
