------------------------------ MODULE Closures ------------------------------
(***************************************************************************)
(* Environments and captured variables: the calls of one function, running *)
(* on several threads, and what they do to the values it captured.         *)
(*                                                                         *)
(* fn copies every visible variable into a root environment that is marked *)
(* frozen; a call, whether direct, spawned or made by par_map, runs in an  *)
(* environment of its own below it (invoke_function_sync).  A name is      *)
(* found through two caches: the owner cache of the call's environment,    *)
(* and a table of the thread from assignments to their targets, here of    *)
(* one slot, so that every two statements collide.  The body of the        *)
(* function is any sequence of the statements in Nodes: x = y + 1; the     *)
(* binding of x by for, catch or with; x[i] = v.                           *)
(***************************************************************************)
EXTENDS Integers, FiniteSets

CONSTANTS
    Threads,    \* the threads that run calls of the function
    Names,      \* the variables of the program
    Visible,    \* those that the defining scope has from the start
    Assigned,   \* those that it assigns
    Params,     \* the parameters of the function
    Nodes,      \* the statements of its body
    Globals, Capture, None,
    MaxValue,   \* bound: the value of a variable
    MaxCalls    \* bound: the calls of a run

Kinds == {"assign", "bind", "index"}

\* What the constants must be.
ClosureParameters ==
    /\ IsFiniteSet(Names)
    /\ Visible \subseteq Names /\ Assigned \subseteq Names /\ Params \subseteq Names
    /\ Nodes \subseteq [kind : Kinds, target : Names, source : Names]
    /\ MaxValue \in Nat /\ MaxCalls \in Nat
    /\ Globals # Capture /\ {Globals, Capture} \cap (1..MaxCalls) = {}
    /\ None \notin {Globals, Capture} \cup (0..MaxCalls) \cup (0..MaxValue)
    /\ None \notin Nodes

VARIABLES
    env,       \* the environments, by stable_id
    calls,     \* how many calls have begun
    frame,     \* the environment of the call that each thread is in
    slot,      \* the AssignTargetCache of each thread
    pending,   \* an assignment between its reads and its write
    bound      \* history: what a running call gave last to the names it has bound

vars == <<env, calls, frame, slot, pending, bound>>

Values == 0..MaxValue
Calls == 1..MaxCalls
EnvIds == {Globals, Capture} \cup Calls
Unbound == [n \in Names |-> None]
NoSlot == [node |-> None, id |-> None, epoch |-> 0, owner |-> None]
NoWrite == [node |-> None, owner |-> None, value |-> 0]

TypeOK ==
    /\ env \in [EnvIds -> [parent : {Capture, None}, frozen : BOOLEAN,
                           vals : [Names -> Values \cup {None}], epoch : Nat,
                           owners : [Names -> EnvIds \cup {None}]]]
    /\ calls \in 0..MaxCalls
    /\ frame \in [Threads -> Calls \cup {None}]
    /\ slot \in [Threads -> [node : Nodes \cup {None}, id : Calls \cup {None}, epoch : Nat,
                             owner : EnvIds \cup {None}]]
    /\ pending \in [Threads -> [node : Nodes \cup {None}, owner : EnvIds \cup {None},
                                value : Values]]
    /\ bound \in [Threads -> [Names -> Values \cup {None}]]

-----------------------------------------------------------------------------
(* Environment. *)

MadeEnv(parent, frozen) ==
    [parent |-> parent, frozen |-> frozen, vals |-> Unbound, epoch |-> 1, owners |-> Unbound]

\* Forgets that a new name may hide one of the parent.
BadDefine(e, id, n, v) == [e EXCEPT !.vals[n] = v, !.owners[n] = id]
\* Environment::define on e when it is the environment with the number id.
Define(e, id, n, v) ==
    [e EXCEPT !.vals[n] = v,
              !.epoch = IF e.vals[n] = None THEN @ + 1 ELSE @,
              !.owners[n] = id]

DefineAll(e, id, f) ==
    [e EXCEPT !.vals = [n \in Names |-> IF f[n] = None THEN @[n] ELSE f[n]],
              !.epoch = @ + Cardinality({n \in Names : f[n] # None /\ e.vals[n] = None}),
              !.owners = [n \in Names |-> IF f[n] = None THEN @[n] ELSE id]]

\* The innermost environment that binds n: a walk from id to the root.
Owner(id, n) ==
    IF env[id].vals[n] # None THEN id
    ELSE LET up == env[id].parent
         IN  IF up # None /\ env[up].vals[n] # None THEN up ELSE None

\* resolve_owner_cached: the same, by the owner cache of the environment.
CachedOwner(id, n) ==
    LET o == env[id].owners[n]
    IN  IF o # None /\ env[o].vals[n] # None THEN o ELSE Owner(id, n)

\* Looking up the names S leaves their owners in the cache of id.
Remembered(id, S) ==
    [env[id] EXCEPT !.owners = [n \in Names |->
        IF n \in S /\ CachedOwner(id, n) # None THEN CachedOwner(id, n) ELSE @[n]]]

-----------------------------------------------------------------------------
(* The defining scope. *)

Init ==
    /\ env = [id \in EnvIds |->
                IF id = Globals
                THEN DefineAll(MadeEnv(None, FALSE), Globals,
                               [n \in Names |-> IF n \in Visible THEN 0 ELSE None])
                ELSE MadeEnv(None, FALSE)]
    /\ calls = 0
    /\ frame = [t \in Threads |-> None]
    /\ slot = [t \in Threads |-> NoSlot]
    /\ pending = [t \in Threads |-> NoWrite]
    /\ bound = [t \in Threads |-> Unbound]

Defined == env[Capture].frozen

\* fn f(...): the captured environment is made of copies.
DefineFunction ==
    /\ ~Defined
    /\ env' = [env EXCEPT ![Capture] =
                DefineAll(MadeEnv(None, TRUE), Capture, env[Globals].vals)]
    /\ UNCHANGED <<calls, frame, slot, pending, bound>>

\* An assignment of the defining scope, which runs on while the calls do.
AssignGlobal(n, v) ==
    /\ env' = [env EXCEPT ![Globals] = Define(@, Globals, n, v)]
    /\ UNCHANGED <<calls, frame, slot, pending, bound>>

-----------------------------------------------------------------------------
(* A call. *)

\* The environment that a call hangs its own from.
Parent == Capture

Call(t, arg) ==
    /\ Defined
    /\ frame[t] = None
    /\ calls < MaxCalls
    /\ calls' = calls + 1
    /\ frame' = [frame EXCEPT ![t] = calls + 1]
    /\ LET args == [n \in Names |-> IF n \in Params THEN arg ELSE None]
       IN  /\ env' = [env EXCEPT ![calls + 1] = DefineAll(MadeEnv(Parent, FALSE), calls + 1, args)]
           /\ bound' = [bound EXCEPT ![t] = args]
    /\ UNCHANGED <<slot, pending>>

\* The environment of the call is destroyed with it.
Leave(t) ==
    /\ env' = [env EXCEPT ![frame[t]] = MadeEnv(None, FALSE)]
    /\ frame' = [frame EXCEPT ![t] = None]
    /\ bound' = [bound EXCEPT ![t] = Unbound]
    /\ pending' = [pending EXCEPT ![t] = NoWrite]

\* An exception leaves the call, or a catch of its body takes it; the names S
\* have been looked up.
Throw(t, S) ==
    \/ Leave(t)
    \/ /\ env' = [env EXCEPT ![frame[t]] = Remembered(frame[t], S)]
       /\ UNCHANGED <<frame, bound, pending>>

Running(t) == frame[t] # None /\ pending[t].node = None

Return(t) ==
    /\ Running(t)
    /\ Leave(t)
    /\ UNCHANGED <<calls, slot>>

\* The target of an assignment, from the table when its slot still applies.
Hit(t, s) ==
    /\ slot[t].node = s
    /\ slot[t].id = frame[t]
    /\ slot[t].epoch = env[frame[t]].epoch
    /\ slot[t].owner # None
Target(t, s) == IF Hit(t, s) THEN slot[t].owner ELSE CachedOwner(frame[t], s.target)

ResolveTarget(t, s) ==
    slot' = [slot EXCEPT ![t] = IF Hit(t, s) THEN @ ELSE
                [node |-> s, id |-> frame[t], epoch |-> env[frame[t]].epoch,
                 owner |-> CachedOwner(frame[t], s.target)]]

Missing(t, n) == CachedOwner(frame[t], n) = None
Value(t, n) == env[CachedOwner(frame[t], n)].vals[n]
LookedUp(t, s) == IF Hit(t, s) THEN {s.source} ELSE {s.source, s.target}

\* x = y + 1: x is resolved and y read.
AssignRead(t, s) ==
    /\ Running(t) /\ s.kind = "assign"
    /\ ~Missing(t, s.source)
    /\ Value(t, s.source) < MaxValue
    /\ ResolveTarget(t, s)
    /\ pending' = [pending EXCEPT ![t] =
                    [node |-> s, owner |-> Target(t, s), value |-> Value(t, s.source) + 1]]
    /\ env' = [env EXCEPT ![frame[t]] = Remembered(frame[t], LookedUp(t, s))]
    /\ UNCHANGED <<calls, frame, bound>>

\* undefined variable: y
AssignFails(t, s) ==
    /\ Running(t) /\ s.kind = "assign"
    /\ Missing(t, s.source)
    /\ ResolveTarget(t, s)
    /\ Throw(t, LookedUp(t, s))
    /\ UNCHANGED calls

\* Defines the new name where it would be found next, in the parent.
BadWrittenEnv(t) ==
    LET n == pending[t].node.target IN
    IF pending[t].owner # None
    THEN [env EXCEPT ![pending[t].owner].vals[n] = pending[t].value]
    ELSE [env EXCEPT ![Parent] = Define(@, Parent, n, pending[t].value)]
\* The value is put where the target was found; a new name is defined.
WrittenEnv(t) ==
    LET n == pending[t].node.target IN
    IF pending[t].owner # None
    THEN [env EXCEPT ![pending[t].owner].vals[n] = pending[t].value]
    ELSE [env EXCEPT ![frame[t]] = Define(@, frame[t], n, pending[t].value)]

AssignWrite(t) ==
    /\ pending[t].node # None
    /\ env' = WrittenEnv(t)
    /\ bound' = LET n == pending[t].node.target IN
                IF bound[t][n] # None \/ Owner(frame[t], n) = None
                THEN [bound EXCEPT ![t][n] = pending[t].value]
                ELSE bound
    /\ pending' = [pending EXCEPT ![t] = NoWrite]
    /\ UNCHANGED <<calls, frame, slot>>

\* Environment::set finds the owner and refuses a frozen one.
Settable(t, n) == ~Missing(t, n) /\ ~env[CachedOwner(frame[t], n)].frozen

\* Writes through a pointer to wherever the name is found.
BadBindTo(t, n, v) ==
    IF ~Missing(t, n)
    THEN [env EXCEPT ![CachedOwner(frame[t], n)].vals[n] = v]
    ELSE [env EXCEPT ![frame[t]] = Define(@, frame[t], n, v)]
\* for x in ..., catch x, with ... as x: set, or else define.
BindTo(t, n, v) ==
    IF Settable(t, n)
    THEN [env EXCEPT ![CachedOwner(frame[t], n)].vals[n] = v]
    ELSE [env EXCEPT ![frame[t]] = Define(@, frame[t], n, v)]

Bind(t, s, v) ==
    /\ Running(t) /\ s.kind = "bind"
    /\ env' = BindTo(t, s.target, v)
    /\ bound' = [bound EXCEPT ![t][s.target] = v]
    /\ UNCHANGED <<calls, frame, slot, pending>>

\* x[i] = v works on a copy of x and sets it; it cannot bind a new name.
IndexAssign(t, s, v) ==
    /\ Running(t) /\ s.kind = "index"
    /\ IF Settable(t, s.target)
       THEN /\ env' = [env EXCEPT ![CachedOwner(frame[t], s.target)].vals[s.target] = v]
            /\ bound' = [bound EXCEPT ![t][s.target] = v]
            /\ UNCHANGED <<frame, pending>>
       ELSE Throw(t, {s.target})
    /\ UNCHANGED <<calls, slot>>

Next ==
    \/ DefineFunction
    \/ \E n \in Assigned, v \in Values : AssignGlobal(n, v)
    \/ \E t \in Threads :
        \/ \E v \in Values : Call(t, v)
        \/ Return(t)
        \/ AssignWrite(t)
        \/ \E s \in Nodes : AssignRead(t, s) \/ AssignFails(t, s)
        \/ \E s \in Nodes, v \in Values : Bind(t, s, v) \/ IndexAssign(t, s, v)

Spec == Init /\ [][Next]_vars

-----------------------------------------------------------------------------
\* Where a call looks for a variable is where the walk up its environments
\* ends, whatever the call has bound since: no entry of an owner cache and no
\* slot of a thread's table that still applies hides a nearer variable.
LookupsFresh == \A t \in Threads : frame[t] # None =>
    /\ \A n \in Names : CachedOwner(frame[t], n) = Owner(frame[t], n)
    /\ \A s \in Nodes : Hit(t, s) => slot[t].owner = Owner(frame[t], s.target)

\* A name that a call has bound (a parameter, a loop variable, a name of its
\* own) reads as what that call gave it last: no other call writes to it, nor
\* does an assignment of the call itself go past it.
OwnVariables == \A t \in Threads : frame[t] # None =>
    \A n \in Names : bound[t][n] # None =>
        /\ Owner(frame[t], n) = frame[t]
        /\ env[frame[t]].vals[n] = bound[t][n]
=============================================================================
