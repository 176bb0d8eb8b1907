--------------------------- MODULE ClosureProofs ---------------------------
(***************************************************************************)
(* Safety of Closures, for every set of threads, variables and statements: *)
(* no cache of the environments hides a nearer variable, and what a call   *)
(* has bound itself nobody else writes.                                    *)
(***************************************************************************)
EXTENDS Closures, FiniteSetTheorems, TLAPS

Environments ==
    [parent : {Capture, None}, frozen : BOOLEAN, vals : [Names -> Values \cup {None}],
     epoch : Nat, owners : [Names -> EnvIds \cup {None}]]
Slots ==
    [node : Nodes \cup {None}, id : Calls \cup {None}, epoch : Nat, owner : EnvIds \cup {None}]
Writes == [node : Nodes \cup {None}, owner : EnvIds \cup {None}, value : Values]

\* No two threads are in one call.
ApartInv == \A t, u \in Threads : frame[t] # None /\ frame[t] = frame[u] => t = u

\* The environment of a running call is below the captured one, and an entry of
\* its owner cache is where the walk up ends.
FrameInv(t) ==
    frame[t] # None =>
        /\ frame[t] <= calls /\ Defined
        /\ env[frame[t]].parent = Capture /\ ~env[frame[t]].frozen
        /\ \A n \in Names : env[frame[t]].owners[n] # None =>
              env[frame[t]].owners[n] = Owner(frame[t], n)

\* An assignment between its reads and its write still has the right target.
PendingInv(t) ==
    pending[t].node # None =>
        frame[t] # None /\ pending[t].owner = Owner(frame[t], pending[t].node.target)

\* The slot of a thread applies only while the epoch of the environment of its
\* call is the one in which the target was found.
SlotInv(t) ==
    /\ slot[t].id # None => slot[t].id <= calls
    /\ frame[t] # None /\ slot[t].id = frame[t] =>
          /\ slot[t].epoch <= env[frame[t]].epoch
          /\ \A s \in Nodes : Hit(t, s) => slot[t].owner = Owner(frame[t], s.target)

\* What a call has bound it finds in its own environment.
BoundInv(t) ==
    frame[t] # None =>
        \A n \in Names : bound[t][n] # None => env[frame[t]].vals[n] = bound[t][n]

ThreadInv(t) == FrameInv(t) /\ PendingInv(t) /\ SlotInv(t) /\ BoundInv(t)

IInv == TypeOK /\ ApartInv /\ \A t \in Threads : ThreadInv(t)
-----------------------------------------------------------------------------
(* Environments *)

\* The numbers of the environments, and what a variable may hold.
LEMMA Ids ==
  ASSUME ClosureParameters
  PROVE  /\ Calls \subseteq Nat \ {0} /\ Calls \subseteq EnvIds
         /\ Capture \in EnvIds /\ Globals \in EnvIds /\ Capture # Globals
         /\ Capture \notin Calls /\ Globals \notin Calls /\ None \notin EnvIds
         /\ Values \subseteq Nat /\ None \notin Values /\ 0 \in Values
         /\ \A s \in Nodes : s.target \in Names /\ s.source \in Names
         /\ None \notin Nodes
BY DEF ClosureParameters, Calls, EnvIds, Values

\* A new environment binds nothing.
LEMMA MadeFacts ==
  ASSUME NEW parent \in {Capture, None}, NEW frozen \in BOOLEAN
  PROVE  /\ MadeEnv(parent, frozen) \in Environments
         /\ MadeEnv(parent, frozen).parent = parent /\ MadeEnv(parent, frozen).frozen = frozen
         /\ \A n \in Names : /\ MadeEnv(parent, frozen).vals[n] = None
                             /\ MadeEnv(parent, frozen).owners[n] = None
BY DEF MadeEnv, Unbound, Environments

\* What Environment::define changes.
LEMMA DefineFacts ==
  ASSUME ClosureParameters, NEW e \in Environments, NEW id \in EnvIds, NEW n \in Names,
         NEW v \in Values
  PROVE  /\ Define(e, id, n, v) \in Environments
         /\ Define(e, id, n, v).parent = e.parent /\ Define(e, id, n, v).frozen = e.frozen
         /\ e.vals[n] = None => Define(e, id, n, v).epoch = e.epoch + 1
         /\ \A m \in Names :
              /\ Define(e, id, n, v).vals[m] = IF m = n THEN v ELSE e.vals[m]
              /\ Define(e, id, n, v).owners[m] = IF m = n THEN id ELSE e.owners[m]
<1> DEFINE vals == [e.vals EXCEPT ![n] = v]
           owners == [e.owners EXCEPT ![n] = id]
           epoch == IF e.vals[n] = None THEN e.epoch + 1 ELSE e.epoch
<1>1. Define(e, id, n, v) = [e EXCEPT !.vals = vals, !.epoch = epoch, !.owners = owners]
  BY DEF Define, Environments
<1>2. vals \in [Names -> Values \cup {None}] /\ owners \in [Names -> EnvIds \cup {None}]
      /\ epoch \in Nat
  BY DEF Environments
<1>3. /\ \A m \in Names : /\ vals[m] = IF m = n THEN v ELSE e.vals[m]
                          /\ owners[m] = IF m = n THEN id ELSE e.owners[m]
      /\ e.vals[n] = None => epoch = e.epoch + 1
  BY DEF Environments
<1>4. QED
  <2> HIDE DEF vals, owners, epoch
  <2>1. [e EXCEPT !.vals = vals, !.epoch = epoch, !.owners = owners] \in Environments
    BY <1>2 DEF Environments
  <2>2. /\ Define(e, id, n, v).parent = e.parent /\ Define(e, id, n, v).frozen = e.frozen
        /\ Define(e, id, n, v).vals = vals /\ Define(e, id, n, v).owners = owners
        /\ Define(e, id, n, v).epoch = epoch
    BY <1>1 DEF Environments
  <2>3. QED
    BY <1>1, <1>3, <2>1, <2>2

\* What it changes when it is called for several names.
LEMMA DefineAllFacts ==
  ASSUME ClosureParameters, NEW e \in Environments, NEW id \in EnvIds,
         NEW f \in [Names -> Values \cup {None}]
  PROVE  /\ DefineAll(e, id, f) \in Environments
         /\ DefineAll(e, id, f).parent = e.parent /\ DefineAll(e, id, f).frozen = e.frozen
         /\ \A n \in Names :
              /\ DefineAll(e, id, f).vals[n] = IF f[n] = None THEN e.vals[n] ELSE f[n]
              /\ DefineAll(e, id, f).owners[n] = IF f[n] = None THEN e.owners[n] ELSE id
<1> DEFINE fresh == {n \in Names : f[n] # None /\ e.vals[n] = None}
           c == Cardinality(fresh)
<1>1. c \in Nat
  <2>1. IsFiniteSet(fresh)
    BY FS_Subset DEF ClosureParameters
  <2>2. QED
    BY <2>1, FS_CardinalityType
<1> DEFINE vals == [n \in Names |-> IF f[n] = None THEN e.vals[n] ELSE f[n]]
           owners == [n \in Names |-> IF f[n] = None THEN e.owners[n] ELSE id]
<1>2. DefineAll(e, id, f) = [e EXCEPT !.vals = vals, !.epoch = @ + c, !.owners = owners]
  BY DEF DefineAll
<1>3. vals \in [Names -> Values \cup {None}] /\ owners \in [Names -> EnvIds \cup {None}]
  BY DEF Environments
<1> HIDE DEF c
<1>4. e.epoch + c \in Nat
  BY <1>1 DEF Environments
<1>5. \A n \in Names : /\ vals[n] = IF f[n] = None THEN e.vals[n] ELSE f[n]
                       /\ owners[n] = IF f[n] = None THEN e.owners[n] ELSE id
  OBVIOUS
<1> HIDE DEF vals, owners
<1>6. [e EXCEPT !.vals = vals, !.epoch = @ + c, !.owners = owners] \in Environments
  BY <1>3, <1>4 DEF Environments
<1>7. /\ DefineAll(e, id, f).parent = e.parent /\ DefineAll(e, id, f).frozen = e.frozen
      /\ DefineAll(e, id, f).vals = vals /\ DefineAll(e, id, f).owners = owners
  BY <1>2 DEF Environments
<1>8. QED
  BY <1>2, <1>5, <1>6, <1>7

\* The state by its parts.
LEMMA StateTyped ==
  ASSUME TypeOK
  PROVE  /\ env \in [EnvIds -> Environments] /\ calls \in 0..MaxCalls
         /\ frame \in [Threads -> Calls \cup {None}]
         /\ \A id \in EnvIds : /\ env[id].vals \in [Names -> Values \cup {None}]
                               /\ env[id].owners \in [Names -> EnvIds \cup {None}]
                               /\ env[id].epoch \in Nat
BY DEF TypeOK, Environments

\* The walk up from the environment of a call: its own variables, then the
\* captured ones.
LEMMA Lookup ==
  ASSUME ClosureParameters, TypeOK, NEW t \in Threads, FrameInv(t), frame[t] # None, NEW n \in Names
  PROVE  /\ Owner(frame[t], n) = IF env[frame[t]].vals[n] # None THEN frame[t]
                                 ELSE IF env[Capture].vals[n] # None THEN Capture ELSE None
         /\ CachedOwner(frame[t], n) = Owner(frame[t], n)
         /\ frame[t] \in Calls /\ frame[t] # Capture /\ frame[t] \in EnvIds
<1>1. frame[t] \in Calls /\ Capture # None
  BY Ids, StateTyped
<1>2. Owner(frame[t], n) = IF env[frame[t]].vals[n] # None THEN frame[t]
                           ELSE IF env[Capture].vals[n] # None THEN Capture ELSE None
  BY <1>1 DEF FrameInv, Owner
<1>3. CachedOwner(frame[t], n) = Owner(frame[t], n)
  BY <1>1, <1>2 DEF FrameInv, CachedOwner
<1>4. QED
  BY <1>1, <1>2, <1>3, Ids

\* Looking up names changes nothing but the owner cache, which stays right.
LEMMA RememberedFacts ==
  ASSUME ClosureParameters, TypeOK, NEW t \in Threads, FrameInv(t), frame[t] # None,
         NEW S \in SUBSET Names
  PROVE  LET e == Remembered(frame[t], S)
         IN  /\ e \in Environments
             /\ e.parent = env[frame[t]].parent /\ e.frozen = env[frame[t]].frozen
             /\ e.vals = env[frame[t]].vals /\ e.epoch = env[frame[t]].epoch
             /\ \A n \in Names : e.owners[n] = None \/ e.owners[n] = Owner(frame[t], n)
<1> DEFINE old == env[frame[t]]
           owners == [n \in Names |-> IF n \in S /\ CachedOwner(frame[t], n) # None
                                      THEN CachedOwner(frame[t], n) ELSE old.owners[n]]
<1>1. old \in Environments /\ frame[t] \in EnvIds /\ Capture \in EnvIds
  BY StateTyped, Ids
<1>2. Remembered(frame[t], S) = [old EXCEPT !.owners = owners]
  BY <1>1 DEF Remembered, Environments
<1>3. \A n \in Names : owners[n] = None \/ owners[n] = Owner(frame[t], n)
  BY Lookup DEF FrameInv
<1>4. owners \in [Names -> EnvIds \cup {None}]
  <2>1. \A n \in Names : Owner(frame[t], n) \in EnvIds \cup {None}
    BY <1>1, Lookup
  <2>2. QED
    BY <1>3, <2>1
<1> HIDE DEF old, owners
<1>5. [old EXCEPT !.owners = owners] \in Environments
  BY <1>1, <1>4 DEF Environments
<1>6. QED
  BY <1>1, <1>2, <1>3, <1>5 DEF Environments, old

\* How the type of the next state is put together.
LEMMA TypedNext ==
  ASSUME env' \in [EnvIds -> Environments], calls' \in 0..MaxCalls,
         frame' \in [Threads -> Calls \cup {None}], slot' \in [Threads -> Slots],
         pending' \in [Threads -> Writes], bound' \in [Threads -> [Names -> Values \cup {None}]]
  PROVE  TypeOK'
BY DEF TypeOK, Environments, Slots, Writes

\* A walk up ends where it did before when the same names are bound.
LEMMA SameOwner ==
  ASSUME ClosureParameters, TypeOK, TypeOK', NEW t \in Threads, FrameInv(t), frame[t] # None,
         frame'[t] = frame[t], env'[frame[t]].parent = env[frame[t]].parent,
         \A n \in Names : env'[frame[t]].vals[n] = None <=> env[frame[t]].vals[n] = None,
         \A n \in Names : env'[Capture].vals[n] = None <=> env[Capture].vals[n] = None
  PROVE  \A n \in Names : Owner(frame[t], n)' = Owner(frame[t], n)
<1> TAKE n \in Names
<1>1. frame[t] \in Calls /\ Capture # None
  BY Ids, StateTyped
<1>2. Owner(frame[t], n)' = IF env'[frame[t]].vals[n] # None THEN frame[t]
                            ELSE IF env'[Capture].vals[n] # None THEN Capture ELSE None
  BY <1>1 DEF Owner, FrameInv
<1>3. QED
  BY <1>2, Lookup

\* A step of another thread, which leaves the environment of a call alone and
\* binds no captured name, leaves everything true of the call.
LEMMA Untouched ==
  ASSUME ClosureParameters, TypeOK, TypeOK', NEW u \in Threads, ThreadInv(u), calls <= calls',
         frame'[u] = frame[u], slot'[u] = slot[u], pending'[u] = pending[u], bound'[u] = bound[u],
         frame[u] # None => /\ env'[frame[u]] = env[frame[u]]
                            /\ env'[Capture].frozen = env[Capture].frozen
                            /\ \A n \in Names :
                                  env'[Capture].vals[n] = None <=> env[Capture].vals[n] = None
  PROVE  ThreadInv(u)'
<1>1. (frame[u] # None => frame[u] <= calls') /\ (slot[u].id # None => slot[u].id <= calls')
  <2>1. calls \in Nat /\ calls' \in Nat
    BY DEF TypeOK, ClosureParameters
  <2>2. (frame[u] # None => frame[u] \in Nat) /\ (slot[u].id # None => slot[u].id \in Nat)
    BY Ids DEF TypeOK
  <2>3. (frame[u] # None => frame[u] <= calls) /\ (slot[u].id # None => slot[u].id <= calls)
    BY DEF ThreadInv, FrameInv, SlotInv
  <2>4. QED
    BY <2>1, <2>2, <2>3
<1>2. CASE frame[u] = None
  <2>1. pending[u].node = None
    BY <1>2 DEF ThreadInv, PendingInv
  <2>2. QED
    BY <1>1, <1>2, <2>1 DEF ThreadInv, FrameInv, PendingInv, SlotInv, BoundInv
<1>3. CASE frame[u] # None
  <2>1. \A n \in Names : Owner(frame[u], n)' = Owner(frame[u], n)
    BY <1>3, SameOwner DEF ThreadInv
  <2>2. FrameInv(u)'
    <3>1. frame[u] <= calls'
      BY <1>1, <1>3
    <3>2. \A n \in Names : env[frame[u]].owners[n] # None =>
              env[frame[u]].owners[n] = Owner(frame[u], n)'
      BY <1>3, <2>1 DEF ThreadInv, FrameInv
    <3>3. QED
      BY <1>3, <3>1, <3>2 DEF ThreadInv, FrameInv, Defined
  <2>3. PendingInv(u)'
    <3>1. pending[u].node # None => pending[u].node.target \in Names
      BY Ids DEF TypeOK
    <3>2. QED
      BY <1>3, <2>1, <3>1 DEF ThreadInv, PendingInv
  <2>4. SlotInv(u)'
    <3>1. slot'[u].id # None => slot'[u].id <= calls'
      BY <1>1
    <3>2. \A s \in Nodes : Hit(u, s)' <=> Hit(u, s)
      BY <1>3 DEF Hit
    <3>3. frame[u] # None /\ slot[u].id = frame[u] =>
             \A s \in Nodes : Hit(u, s)' => slot[u].owner = Owner(frame[u], s.target)'
      BY <2>1, <3>2, Ids DEF ThreadInv, SlotInv
    <3>4. QED
      BY <1>3, <3>1, <3>3 DEF ThreadInv, SlotInv
  <2>5. BoundInv(u)'
    BY <1>3 DEF ThreadInv, BoundInv
  <2>6. QED
    BY <2>2, <2>3, <2>4, <2>5 DEF ThreadInv
<1>4. QED
  BY <1>2, <1>3

\* A step of one thread, in its own environment or the captured one, keeps the
\* invariant when what is true of that thread stays true.
LEMMA OwnStep ==
  ASSUME ClosureParameters, IInv, TypeOK', NEW t \in Threads, frame[t] # None, calls' = calls,
         frame'[t] \in {frame[t], None}, ThreadInv(t)',
         \A u \in Threads \ {t} : /\ frame'[u] = frame[u] /\ slot'[u] = slot[u]
                                  /\ pending'[u] = pending[u] /\ bound'[u] = bound[u],
         \A id \in EnvIds \ {frame[t], Capture} : env'[id] = env[id],
         env'[Capture].frozen = env[Capture].frozen,
         \A n \in Names : env'[Capture].vals[n] = None <=> env[Capture].vals[n] = None
  PROVE  IInv'
<1>1. ApartInv'
  <2> SUFFICES ASSUME NEW u \in Threads, NEW w \in Threads, frame'[u] # None, frame'[u] = frame'[w]
               PROVE  u = w
    BY DEF ApartInv
  <2>1. frame[u] = frame'[u] /\ frame[w] = frame'[w]
    OBVIOUS
  <2>2. QED
    BY <2>1 DEF IInv, ApartInv
<1>2. ASSUME NEW u \in Threads \ {t} PROVE ThreadInv(u)'
  <2>1. frame[u] # None => frame[u] # frame[t] /\ frame[u] \in EnvIds /\ frame[u] # Capture
    BY Ids, StateTyped DEF IInv, ApartInv
  <2>2. frame[u] # None => env'[frame[u]] = env[frame[u]]
    BY <2>1
  <2>3. calls <= calls' /\ ThreadInv(u) /\ TypeOK
    BY DEF IInv, TypeOK
  <2>4. QED
    BY <2>2, <2>3, Untouched
<1>3. QED
  BY <1>1, <1>2 DEF IInv

-----------------------------------------------------------------------------
(* The steps *)

\* Nothing runs at first, and the defining scope has its variables.
LEMMA InitInv ==
  ASSUME ClosureParameters, Init
  PROVE  IInv
<1>1. TypeOK
  <2>1. \A id \in EnvIds : env[id] \in Environments
    <3> DEFINE scope == [n \in Names |-> IF n \in Visible THEN 0 ELSE None]
               empty == MadeEnv(None, FALSE)
    <3>1. scope \in [Names -> Values \cup {None}] /\ empty \in Environments
      BY Ids, MadeFacts
    <3>2. DefineAll(empty, Globals, scope) \in Environments
      BY <3>1, Ids, DefineAllFacts
    <3>3. QED
      BY <3>1, <3>2 DEF Init
  <2>2. env = [id \in EnvIds |-> env[id]]
    BY DEF Init
  <2>3. env \in [EnvIds -> Environments]
    BY <2>1, <2>2
  <2>4. calls \in 0..MaxCalls
    BY DEF Init, ClosureParameters
  <2>5. QED
    BY <2>3, <2>4, Ids DEF Init, TypeOK, Environments, NoSlot, NoWrite, Unbound
<1>2. ApartInv /\ \A t \in Threads : ThreadInv(t)
  BY DEF Init, ApartInv, ThreadInv, FrameInv, PendingInv, SlotInv, BoundInv, NoSlot, NoWrite
<1>3. QED
  BY <1>1, <1>2 DEF IInv

\* fn f(...): no call runs yet.
LEMMA DefineFunctionStep ==
  ASSUME ClosureParameters, IInv, DefineFunction
  PROVE  IInv'
<1>1. TypeOK'
  <2>1. MadeEnv(None, TRUE) \in Environments /\ env[Globals].vals \in [Names -> Values \cup {None}]
    BY MadeFacts, StateTyped, Ids DEF IInv
  <2>2. DefineAll(MadeEnv(None, TRUE), Capture, env[Globals].vals) \in Environments
    BY <2>1, DefineAllFacts, Ids
  <2>3. env' \in [EnvIds -> Environments]
    BY <2>2, StateTyped DEF IInv, DefineFunction
  <2>4. QED
    BY <2>3 DEF IInv, TypeOK, DefineFunction, Environments
<1>2. \A t \in Threads : frame[t] = None
  BY DEF IInv, ThreadInv, FrameInv, DefineFunction
<1>3. ASSUME NEW t \in Threads PROVE ThreadInv(t)'
  <2>1. calls <= calls'
    BY DEF DefineFunction, IInv, TypeOK
  <2>2. QED
    BY <1>1, <1>2, <2>1, Untouched DEF DefineFunction, IInv
<1>4. QED
  BY <1>1, <1>3 DEF IInv, ApartInv, DefineFunction

\* An assignment of the defining scope does not reach the captured environment.
LEMMA AssignGlobalStep ==
  ASSUME ClosureParameters, IInv, NEW n \in Assigned, NEW v \in Values, AssignGlobal(n, v)
  PROVE  IInv'
<1>1. TypeOK'
  <2>1. Define(env[Globals], Globals, n, v) \in Environments
    BY DefineFacts, Ids, StateTyped DEF IInv, ClosureParameters
  <2>2. env' \in [EnvIds -> Environments]
    BY <2>1, StateTyped DEF IInv, AssignGlobal
  <2>3. QED
    BY <2>2 DEF IInv, TypeOK, AssignGlobal, Environments
<1>2. \A id \in EnvIds \ {Globals} : env'[id] = env[id]
  BY DEF AssignGlobal, IInv, TypeOK
<1>3. ASSUME NEW t \in Threads PROVE ThreadInv(t)'
  <2>1. calls <= calls'
    BY DEF AssignGlobal, IInv, TypeOK
  <2>2. frame[t] # None => frame[t] \in EnvIds \ {Globals}
    BY Ids, StateTyped DEF IInv
  <2>3. env'[Capture] = env[Capture]
    BY <1>2, Ids
  <2>4. QED
    BY <1>1, <1>2, <2>1, <2>2, <2>3, Untouched DEF AssignGlobal, IInv
<1>4. QED
  BY <1>1, <1>3 DEF IInv, ApartInv, AssignGlobal

\* A call begins in an environment that nobody has seen.
LEMMA CallStep ==
  ASSUME ClosureParameters, IInv, NEW t \in Threads, NEW arg \in Values, Call(t, arg)
  PROVE  IInv'
<1> DEFINE c == calls + 1
           args == [n \in Names |-> IF n \in Params THEN arg ELSE None]
           e == DefineAll(MadeEnv(Capture, FALSE), c, args)
<1>1. calls \in Nat /\ c \in Calls /\ c # None /\ c # Capture /\ c \in EnvIds /\ calls < c
      /\ c \in Nat
  <2>1. calls \in Nat /\ MaxCalls \in Nat /\ calls < MaxCalls
    BY DEF IInv, TypeOK, Call, ClosureParameters
  <2>2. c \in 1..MaxCalls /\ c \in Nat /\ calls < c
    BY <2>1
  <2>3. c \in Calls
    BY <2>2 DEF Calls
  <2>4. QED
    BY <2>1, <2>2, <2>3, Ids
<1>2. /\ calls' = c /\ frame' = [frame EXCEPT ![t] = c] /\ env' = [env EXCEPT ![c] = e]
      /\ bound' = [bound EXCEPT ![t] = args] /\ slot' = slot /\ pending' = pending
      /\ Defined /\ frame[t] = None
  BY DEF Call, Parent
<1> HIDE DEF c
<1>3. args \in [Names -> Values \cup {None}] /\ MadeEnv(Capture, FALSE) \in Environments
  BY MadeFacts
<1>4. /\ e \in Environments /\ e.parent = Capture /\ ~e.frozen
      /\ \A n \in Names : e.vals[n] = args[n] /\ e.owners[n] = IF args[n] = None THEN None ELSE c
  <2> DEFINE m == MadeEnv(Capture, FALSE)
  <2>1. m.parent = Capture /\ ~m.frozen /\ \A n \in Names : m.vals[n] = None /\ m.owners[n] = None
    BY MadeFacts
  <2> HIDE DEF m, args
  <2>2. m \in Environments /\ args \in [Names -> Values \cup {None}]
    BY <1>3 DEF m
  <2>3. /\ DefineAll(m, c, args) \in Environments
        /\ DefineAll(m, c, args).parent = m.parent /\ DefineAll(m, c, args).frozen = m.frozen
        /\ \A n \in Names :
             /\ DefineAll(m, c, args).vals[n] = IF args[n] = None THEN m.vals[n] ELSE args[n]
             /\ DefineAll(m, c, args).owners[n] = IF args[n] = None THEN m.owners[n] ELSE c
    BY <1>1, <2>2, DefineAllFacts
  <2>4. e = DefineAll(m, c, args)
    BY DEF m
  <2> HIDE DEF e
  <2>5. QED
    BY <2>1, <2>3, <2>4
<1> HIDE DEF args, e
<1>5. TypeOK'
  <2>1. env' \in [EnvIds -> Environments]
    BY <1>2, <1>4, StateTyped DEF IInv
  <2>2. calls' \in 0..MaxCalls
    BY <1>1, <1>2 DEF Calls
  <2>3. frame' \in [Threads -> Calls \cup {None}]
    BY <1>1, <1>2, StateTyped DEF IInv
  <2>4. bound' \in [Threads -> [Names -> Values \cup {None}]]
    BY <1>2, <1>3 DEF IInv, TypeOK
  <2>5. slot' \in [Threads -> Slots] /\ pending' \in [Threads -> Writes]
    BY <1>2 DEF IInv, TypeOK, Slots, Writes
  <2>6. QED
    BY <2>1, <2>2, <2>3, <2>4, <2>5, TypedNext
<1>6. \A u \in Threads : frame[u] # None => frame[u] # c
  <2> SUFFICES ASSUME NEW u \in Threads, frame[u] # None PROVE frame[u] # c
    OBVIOUS
  <2>1. frame[u] <= calls
    BY DEF IInv, ThreadInv, FrameInv
  <2>2. QED
    BY <1>1, <2>1
<1>7. env'[Capture] = env[Capture] /\ env'[c] = e
  BY <1>1, <1>2, Ids DEF IInv, TypeOK
<1>8. ASSUME NEW u \in Threads \ {t} PROVE ThreadInv(u)'
  <2>1. frame[u] # None => env'[frame[u]] = env[frame[u]]
    BY <1>2, <1>6, StateTyped, Ids DEF IInv
  <2>2. calls <= calls'
    BY <1>1, <1>2
  <2>3. frame'[u] = frame[u] /\ bound'[u] = bound[u] /\ slot'[u] = slot[u] /\ pending'[u] = pending[u]
    BY <1>2
  <2>4. ThreadInv(u) /\ TypeOK
    BY DEF IInv
  <2>5. QED
    BY <1>5, <1>7, <2>1, <2>2, <2>3, <2>4, Untouched
<1>9. ThreadInv(t)'
  <2>1. frame'[t] = c /\ bound'[t] = args
    BY <1>2 DEF IInv, TypeOK
  <2>2. FrameInv(t)'
    <3>1. \A n \in Names : e.owners[n] # None => e.vals[n] # None /\ e.owners[n] = c
      BY <1>4
    <3>2. \A n \in Names : e.vals[n] # None => Owner(frame[t], n)' = c
      BY <1>7, <2>1 DEF Owner
    <3>3. c <= c /\ Defined'
      BY <1>1, <1>2, <1>7 DEF Defined
    <3>4. QED
      BY <1>2, <1>4, <1>7, <2>1, <3>1, <3>2, <3>3 DEF FrameInv
  <2>3. PendingInv(t)'
    BY <1>2 DEF IInv, ThreadInv, PendingInv
  <2>4. SlotInv(t)'
    <3>1. slot[t].id # None => slot[t].id \in Nat /\ slot[t].id <= calls
      BY Ids DEF IInv, TypeOK, ThreadInv, SlotInv
    <3>2. slot[t].id # None => slot[t].id # c /\ slot[t].id <= c
      BY <1>1, <3>1
    <3>3. QED
      BY <1>1, <1>2, <2>1, <3>2 DEF SlotInv
  <2>5. BoundInv(t)'
    BY <1>4, <1>7, <2>1 DEF BoundInv
  <2>6. QED
    BY <2>2, <2>3, <2>4, <2>5 DEF ThreadInv
<1>10. ApartInv'
  <2> SUFFICES ASSUME NEW u \in Threads, NEW w \in Threads, frame'[u] # None, frame'[u] = frame'[w]
               PROVE  u = w
    BY DEF ApartInv
  <2>1. \A x \in Threads : frame'[x] = IF x = t THEN c ELSE frame[x]
    BY <1>2 DEF IInv, TypeOK
  <2>2. QED
    BY <1>1, <1>6, <2>1 DEF IInv, ApartInv
<1>11. QED
  BY <1>5, <1>8, <1>9, <1>10 DEF IInv

\* Leaving a call forgets its environment.
LEMMA LeaveStep ==
  ASSUME ClosureParameters, IInv, NEW t \in Threads, frame[t] # None, Leave(t), calls' = calls,
         slot' \in [Threads -> Slots], \A u \in Threads \ {t} : slot'[u] = slot[u],
         slot'[t].id \in {slot[t].id, frame[t]}
  PROVE  IInv'
<1>1. TypeOK'
  <2>1. env' \in [EnvIds -> Environments]
    BY MadeFacts, StateTyped DEF IInv, Leave
  <2>2. frame' \in [Threads -> Calls \cup {None}]
    BY StateTyped DEF IInv, Leave
  <2>3. pending' \in [Threads -> Writes]
    BY Ids DEF IInv, TypeOK, Leave, Writes, NoWrite
  <2>4. bound' \in [Threads -> [Names -> Values \cup {None}]]
    BY DEF IInv, TypeOK, Leave, Unbound
  <2>5. calls' \in 0..MaxCalls
    BY DEF IInv, TypeOK
  <2>6. QED
    BY <2>1, <2>2, <2>3, <2>4, <2>5, TypedNext
<1>2. ThreadInv(t)'
  <2>1. frame'[t] = None /\ pending'[t].node = None
    BY DEF IInv, TypeOK, Leave, NoWrite
  <2>2. slot'[t].id # None => slot'[t].id <= calls'
    BY DEF IInv, ThreadInv, SlotInv, FrameInv
  <2>3. QED
    BY <2>1, <2>2 DEF ThreadInv, FrameInv, PendingInv, SlotInv, BoundInv
<1>3. \A u \in Threads \ {t} : /\ frame'[u] = frame[u] /\ slot'[u] = slot[u]
                               /\ pending'[u] = pending[u] /\ bound'[u] = bound[u]
  BY DEF IInv, TypeOK, Leave
<1>4. /\ frame[t] # Capture /\ Capture \in EnvIds
      /\ \A id \in EnvIds \ {frame[t]} : env'[id] = env[id]
  BY Ids, StateTyped DEF IInv, Leave
<1>5. frame'[t] = None
  BY StateTyped DEF IInv, Leave
<1>6. QED
  BY <1>1, <1>2, <1>3, <1>4, <1>5, OwnStep

\* What stays true of a call that looks names up.
LEMMA LookupStep ==
  ASSUME ClosureParameters, IInv, NEW t \in Threads, frame[t] # None, NEW S \in SUBSET Names,
         env' = [env EXCEPT ![frame[t]] = Remembered(frame[t], S)],
         calls' = calls, frame' = frame, bound' = bound,
         pending' \in [Threads -> Writes], slot' \in [Threads -> Slots],
         \A u \in Threads \ {t} : slot'[u] = slot[u] /\ pending'[u] = pending[u],
         pending'[t].node = None \/ pending'[t].owner = Owner(frame[t], pending'[t].node.target),
         \/ slot'[t] = slot[t]
         \/ /\ slot'[t].id = frame[t] /\ slot'[t].epoch = env[frame[t]].epoch
            /\ slot'[t].node \in Nodes
            /\ slot'[t].owner = Owner(frame[t], slot'[t].node.target)
  PROVE  IInv'
<1> DEFINE e == Remembered(frame[t], S)
<1>1. /\ e \in Environments
      /\ e.parent = env[frame[t]].parent /\ e.frozen = env[frame[t]].frozen
      /\ e.vals = env[frame[t]].vals /\ e.epoch = env[frame[t]].epoch
      /\ \A n \in Names : e.owners[n] = None \/ e.owners[n] = Owner(frame[t], n)
  BY RememberedFacts DEF IInv, ThreadInv
<1> HIDE DEF e
<1>2. env' = [env EXCEPT ![frame[t]] = e] /\ frame[t] \in EnvIds /\ frame[t] # Capture
      /\ Capture \in EnvIds
  BY Ids, StateTyped DEF IInv, e
<1>3. /\ env'[frame[t]] = e
      /\ \A id \in EnvIds \ {frame[t]} : env'[id] = env[id]
  BY <1>2, StateTyped DEF IInv
<1>4. TypeOK'
  <2>1. env' \in [EnvIds -> Environments]
    BY <1>1, <1>2, StateTyped DEF IInv
  <2>2. QED
    BY <2>1, TypedNext DEF IInv, TypeOK
<1>5. env'[Capture] = env[Capture]
  BY <1>2, <1>3
<1>6. \A n \in Names : Owner(frame[t], n)' = Owner(frame[t], n)
  BY <1>1, <1>3, <1>4, <1>5, SameOwner DEF IInv, ThreadInv
<1>7. ThreadInv(t)'
  <2>1. FrameInv(t)'
    BY <1>1, <1>3, <1>5, <1>6 DEF IInv, ThreadInv, FrameInv, Defined
  <2>2. PendingInv(t)'
    <3>1. pending'[t].node # None => pending'[t].node.target \in Names
      BY Ids DEF Writes
    <3>2. QED
      BY <1>6, <3>1 DEF PendingInv
  <2>3. SlotInv(t)'
    <3>1. CASE slot'[t] = slot[t]
      <4>1. \A s \in Nodes : Hit(t, s)' => Hit(t, s)
        BY <1>1, <1>3, <3>1 DEF Hit
      <4>2. \A s \in Nodes : Hit(t, s) => slot[t].owner = Owner(frame[t], s.target)
        BY DEF IInv, ThreadInv, SlotInv, Hit
      <4>3. \A s \in Nodes : Hit(t, s)' => slot'[t].owner = Owner(frame[t], s.target)'
        BY <1>6, <3>1, <4>1, <4>2, Ids
      <4>4. QED
        BY <1>1, <1>3, <3>1, <4>3 DEF IInv, ThreadInv, SlotInv
    <3>2. CASE /\ slot'[t].id = frame[t] /\ slot'[t].epoch = env[frame[t]].epoch
               /\ slot'[t].node \in Nodes
               /\ slot'[t].owner = Owner(frame[t], slot'[t].node.target)
      <4>1. \A s \in Nodes : Hit(t, s)' => slot'[t].owner = Owner(frame[t], s.target)'
        BY <1>6, <3>2, Ids DEF Hit
      <4>2. slot'[t].id <= calls' /\ slot'[t].epoch <= env'[frame[t]].epoch
        <5>1. env[frame[t]].epoch \in Nat
          BY <1>2, StateTyped DEF IInv
        <5>2. frame[t] <= calls
          BY DEF IInv, ThreadInv, FrameInv
        <5>3. QED
          BY <1>1, <1>3, <3>2, <5>1, <5>2
      <4>3. QED
        BY <4>1, <4>2 DEF SlotInv
    <3>3. QED
      BY <3>1, <3>2
  <2>4. BoundInv(t)'
    BY <1>1, <1>3 DEF IInv, ThreadInv, BoundInv
  <2>5. QED
    BY <2>1, <2>2, <2>3, <2>4 DEF ThreadInv
<1>8. QED
  BY <1>3, <1>4, <1>5, <1>7, OwnStep

\* What stays true of a call that writes to a variable it has found.
LEMMA WriteStep ==
  ASSUME ClosureParameters, IInv, NEW t \in Threads, frame[t] # None, NEW n \in Names,
         NEW o \in EnvIds, o = Owner(frame[t], n), NEW v \in Values,
         env' = [env EXCEPT ![o].vals[n] = v],
         calls' = calls, frame' = frame, slot' = slot,
         pending' \in [Threads -> Writes], pending'[t].node = None,
         bound' \in [Threads -> [Names -> Values \cup {None}]],
         \A u \in Threads \ {t} : pending'[u] = pending[u] /\ bound'[u] = bound[u],
         \A m \in Names \ {n} : bound'[t][m] = bound[t][m],
         bound'[t][n] # None => o = frame[t] /\ bound'[t][n] = v
  PROVE  IInv'
<1>1. /\ o \in {frame[t], Capture} /\ o # None /\ env[o].vals[n] # None
      /\ frame[t] \in EnvIds /\ Capture \in EnvIds /\ frame[t] # Capture
  BY Lookup, Ids DEF IInv, ThreadInv
<1> DEFINE e == [env[o] EXCEPT !.vals[n] = v]
<1>2. /\ e \in Environments /\ e.parent = env[o].parent /\ e.frozen = env[o].frozen
      /\ e.epoch = env[o].epoch /\ e.owners = env[o].owners
      /\ \A m \in Names : e.vals[m] = IF m = n THEN v ELSE env[o].vals[m]
  <2>1. env[o] \in Environments
    BY <1>1, StateTyped DEF IInv
  <2>2. [env[o].vals EXCEPT ![n] = v] \in [Names -> Values \cup {None}]
    BY <2>1 DEF Environments
  <2>3. e = [env[o] EXCEPT !.vals = [env[o].vals EXCEPT ![n] = v]]
    BY <2>1 DEF Environments
  <2>4. QED
    BY <2>1, <2>2, <2>3 DEF Environments
<1>3. env' = [env EXCEPT ![o] = e]
  BY StateTyped DEF IInv
<1> HIDE DEF e
<1>4. /\ env'[o] = e /\ \A id \in EnvIds \ {o} : env'[id] = env[id]
  BY <1>1, <1>3, StateTyped DEF IInv
<1>5. TypeOK'
  <2>1. env' \in [EnvIds -> Environments]
    BY <1>2, <1>3, StateTyped DEF IInv
  <2>2. slot' \in [Threads -> Slots] /\ calls' \in 0..MaxCalls /\ frame' \in [Threads -> Calls \cup {None}]
    BY DEF IInv, TypeOK, Slots
  <2>3. QED
    BY <2>1, <2>2, TypedNext
<1>6. \A id \in EnvIds :
         /\ env'[id].parent = env[id].parent /\ env'[id].frozen = env[id].frozen
         /\ env'[id].epoch = env[id].epoch /\ env'[id].owners = env[id].owners
         /\ \A m \in Names : env'[id].vals[m] = IF id = o /\ m = n THEN v ELSE env[id].vals[m]
  <2> TAKE id \in EnvIds
  <2>1. CASE id = o
    BY <1>2, <1>4, <2>1
  <2>2. CASE id # o
    BY <1>4, <2>2
  <2>3. QED
    BY <2>1, <2>2
<1>7. \A id \in EnvIds : \A m \in Names : env'[id].vals[m] = None <=> env[id].vals[m] = None
  BY <1>1, <1>6, Ids
<1>8. \A m \in Names : Owner(frame[t], m)' = Owner(frame[t], m)
  BY <1>1, <1>5, <1>6, <1>7, SameOwner DEF IInv, ThreadInv
<1>9. ThreadInv(t)'
  <2>1. FrameInv(t)'
    BY <1>1, <1>6, <1>8 DEF IInv, ThreadInv, FrameInv, Defined
  <2>2. PendingInv(t)'
    BY DEF PendingInv
  <2>3. SlotInv(t)'
    <3>1. \A s \in Nodes : Hit(t, s)' => Hit(t, s)
      BY <1>1, <1>6 DEF Hit
    <3>2. \A s \in Nodes : Hit(t, s) => slot[t].owner = Owner(frame[t], s.target)
      BY DEF IInv, ThreadInv, SlotInv, Hit
    <3>3. \A s \in Nodes : Hit(t, s)' => slot'[t].owner = Owner(frame[t], s.target)'
      BY <1>8, <3>1, <3>2, Ids
    <3>4. QED
      BY <1>1, <1>6, <3>3 DEF IInv, ThreadInv, SlotInv
  <2>4. BoundInv(t)'
    <3> SUFFICES ASSUME NEW m \in Names, bound'[t][m] # None
                 PROVE  env'[frame[t]].vals[m] = bound'[t][m]
      BY DEF BoundInv
    <3>1. CASE m = n
      BY <1>1, <1>6, <3>1
    <3>2. CASE m # n
      BY <1>1, <1>6, <3>2 DEF IInv, ThreadInv, BoundInv
    <3>3. QED
      BY <3>1, <3>2
  <2>5. QED
    BY <2>1, <2>2, <2>3, <2>4 DEF ThreadInv
<1>10. \A id \in EnvIds \ {frame[t], Capture} : env'[id] = env[id]
  BY <1>1, <1>4
<1>11. QED
  BY <1>1, <1>5, <1>6, <1>7, <1>9, <1>10, OwnStep

\* What stays true of a call that defines a name of its own.
LEMMA NewStep ==
  ASSUME ClosureParameters, IInv, NEW t \in Threads, frame[t] # None, NEW n \in Names,
         env[frame[t]].vals[n] = None, NEW v \in Values,
         env' = [env EXCEPT ![frame[t]] = Define(@, frame[t], n, v)],
         calls' = calls, frame' = frame, slot' = slot,
         pending' \in [Threads -> Writes], pending'[t].node = None,
         bound' \in [Threads -> [Names -> Values \cup {None}]],
         \A u \in Threads \ {t} : pending'[u] = pending[u] /\ bound'[u] = bound[u],
         \A m \in Names \ {n} : bound'[t][m] = bound[t][m],
         bound'[t][n] # None => bound'[t][n] = v
  PROVE  IInv'
<1> DEFINE e == Define(env[frame[t]], frame[t], n, v)
<1>1. frame[t] \in EnvIds /\ Capture \in EnvIds /\ frame[t] # Capture /\ Capture # None
      /\ env[frame[t]] \in Environments
  BY Ids, StateTyped DEF IInv
<1>2. /\ e \in Environments /\ e.parent = env[frame[t]].parent /\ e.frozen = env[frame[t]].frozen
      /\ e.epoch = env[frame[t]].epoch + 1
      /\ \A m \in Names : /\ e.vals[m] = IF m = n THEN v ELSE env[frame[t]].vals[m]
                          /\ e.owners[m] = IF m = n THEN frame[t] ELSE env[frame[t]].owners[m]
  BY <1>1, DefineFacts
<1>3. env' = [env EXCEPT ![frame[t]] = e]
  BY <1>1, StateTyped DEF IInv
<1> HIDE DEF e
<1>4. /\ env'[frame[t]] = e /\ env'[Capture] = env[Capture]
      /\ \A id \in EnvIds \ {frame[t]} : env'[id] = env[id]
  BY <1>1, <1>3, StateTyped DEF IInv
<1>5. \A m \in Names : /\ e.vals[m] = IF m = n THEN v ELSE env[frame[t]].vals[m]
                       /\ e.owners[m] = IF m = n THEN frame[t] ELSE env[frame[t]].owners[m]
  BY <1>2
<1>6. TypeOK'
  <2>1. env' \in [EnvIds -> Environments]
    BY <1>2, <1>3, StateTyped DEF IInv
  <2>2. slot' \in [Threads -> Slots] /\ calls' \in 0..MaxCalls /\ frame' \in [Threads -> Calls \cup {None}]
    BY DEF IInv, TypeOK, Slots
  <2>3. QED
    BY <2>1, <2>2, TypedNext
<1>7. ThreadInv(t)'
  <2>1. FrameInv(t)'
    <3>1. \A m \in Names : Owner(frame[t], m)' = IF m = n THEN frame[t] ELSE Owner(frame[t], m)
      <4> TAKE m \in Names
      <4>1. Owner(frame[t], m)' = IF env'[frame[t]].vals[m] # None THEN frame[t]
                                  ELSE IF env'[Capture].vals[m] # None THEN Capture ELSE None
        BY <1>1, <1>2, <1>4 DEF Owner, IInv, ThreadInv, FrameInv
      <4>2. Owner(frame[t], m) = IF env[frame[t]].vals[m] # None THEN frame[t]
                                 ELSE IF env[Capture].vals[m] # None THEN Capture ELSE None
        BY Lookup DEF IInv, ThreadInv
      <4>3. v # None
        BY Ids
      <4>4. QED
        BY <1>4, <1>5, <4>1, <4>2, <4>3
    <3>2. \A m \in Names : e.owners[m] # None => e.owners[m] = Owner(frame[t], m)'
      BY <1>5, <3>1 DEF IInv, ThreadInv, FrameInv
    <3>3. frame[t] <= calls /\ Defined /\ env[frame[t]].parent = Capture /\ ~env[frame[t]].frozen
      BY DEF IInv, ThreadInv, FrameInv
    <3>4. /\ frame'[t] = frame[t] /\ frame'[t] <= calls' /\ Defined'
          /\ env'[frame[t]].parent = Capture /\ ~env'[frame[t]].frozen
      BY <1>2, <1>4, <3>3 DEF Defined
    <3>5. \A m \in Names : env'[frame[t]].owners[m] # None =>
              env'[frame[t]].owners[m] = Owner(frame[t], m)'
      BY <1>4, <3>2
    <3>6. QED
      BY <3>4, <3>5 DEF FrameInv
  <2>2. PendingInv(t)'
    BY DEF PendingInv
  <2>3. SlotInv(t)'
    <3>1. slot[t].id # None => slot[t].id <= calls
      BY DEF IInv, ThreadInv, SlotInv
    <3>2. slot[t].id = frame[t] => slot[t].epoch <= e.epoch /\ slot[t].epoch # e.epoch
      <4>1. slot[t].epoch \in Nat /\ env[frame[t]].epoch \in Nat
        BY <1>1 DEF IInv, TypeOK, Environments
      <4>2. slot[t].id = frame[t] => slot[t].epoch <= env[frame[t]].epoch
        BY DEF IInv, ThreadInv, SlotInv
      <4>3. QED
        BY <1>2, <4>1, <4>2
    <3>3. \A s \in Nodes : ~Hit(t, s)'
      BY <1>4, <3>2 DEF Hit
    <3>4. QED
      BY <1>4, <3>1, <3>2, <3>3 DEF SlotInv
  <2>4. BoundInv(t)'
    <3> SUFFICES ASSUME NEW m \in Names, bound'[t][m] # None
                 PROVE  env'[frame[t]].vals[m] = bound'[t][m]
      BY DEF BoundInv
    <3>1. CASE m = n
      BY <1>4, <1>5, <3>1
    <3>2. CASE m # n
      BY <1>4, <1>5, <3>2 DEF IInv, ThreadInv, BoundInv
    <3>3. QED
      BY <3>1, <3>2
  <2>5. QED
    BY <2>1, <2>2, <2>3, <2>4 DEF ThreadInv
<1>8. QED
  BY <1>1, <1>4, <1>6, <1>7, OwnStep

\* What ResolveTarget finds is where the walk up ends.
LEMMA ResolveFacts ==
  ASSUME ClosureParameters, IInv, NEW t \in Threads, frame[t] # None, NEW s \in Nodes,
         ResolveTarget(t, s)
  PROVE  /\ slot' \in [Threads -> Slots] /\ \A u \in Threads \ {t} : slot'[u] = slot[u]
         /\ \/ slot'[t] = slot[t]
            \/ /\ slot'[t].id = frame[t] /\ slot'[t].epoch = env[frame[t]].epoch
               /\ slot'[t].node \in Nodes
               /\ slot'[t].owner = Owner(frame[t], slot'[t].node.target)
         /\ Target(t, s) = Owner(frame[t], s.target) /\ Target(t, s) \in EnvIds \cup {None}
<1> DEFINE new == [node |-> s, id |-> frame[t], epoch |-> env[frame[t]].epoch,
                   owner |-> CachedOwner(frame[t], s.target)]
<1>1. /\ CachedOwner(frame[t], s.target) = Owner(frame[t], s.target)
      /\ Owner(frame[t], s.target) \in EnvIds \cup {None}
      /\ frame[t] \in Calls /\ frame[t] \in EnvIds
  BY Lookup, Ids DEF IInv, ThreadInv
<1>2. new \in Slots
  BY <1>1, StateTyped DEF IInv, Slots
<1>3. slot \in [Threads -> Slots]
  BY DEF IInv, TypeOK, Slots
<1>4. slot' = [slot EXCEPT ![t] = IF Hit(t, s) THEN slot[t] ELSE new]
  BY DEF ResolveTarget
<1>5. Target(t, s) = Owner(frame[t], s.target)
  <2>1. Hit(t, s) => slot[t].owner = Owner(frame[t], s.target)
    BY DEF IInv, ThreadInv, SlotInv, Hit
  <2>2. QED
    BY <1>1, <2>1 DEF Target
<1>6. new.id = frame[t] /\ new.epoch = env[frame[t]].epoch /\ new.node = s
      /\ new.owner = Owner(frame[t], s.target)
  BY <1>1
<1> HIDE DEF new
<1>7. slot' \in [Threads -> Slots] /\ \A u \in Threads \ {t} : slot'[u] = slot[u]
  BY <1>2, <1>3, <1>4
<1>8. slot'[t] = slot[t] \/ slot'[t] = new
  BY <1>3, <1>4
<1>9. QED
  BY <1>1, <1>5, <1>6, <1>7, <1>8

\* Return
LEMMA ReturnStep ==
  ASSUME ClosureParameters, IInv, NEW t \in Threads, Return(t)
  PROVE  IInv'
<1>1. frame[t] # None /\ Leave(t) /\ calls' = calls /\ slot' = slot
  BY DEF Return, Running
<1>2. slot \in [Threads -> Slots]
  BY DEF IInv, TypeOK, Slots
<1>3. QED
  BY <1>1, <1>2, LeaveStep

\* x = y + 1: the target that is kept for the write is right.
LEMMA AssignReadStep ==
  ASSUME ClosureParameters, IInv, NEW t \in Threads, NEW s \in Nodes, AssignRead(t, s)
  PROVE  IInv'
<1> DEFINE write == [node |-> s, owner |-> Target(t, s), value |-> Value(t, s.source) + 1]
<1>1. /\ frame[t] # None /\ ResolveTarget(t, s) /\ ~Missing(t, s.source)
      /\ Value(t, s.source) < MaxValue /\ pending' = [pending EXCEPT ![t] = write]
      /\ env' = [env EXCEPT ![frame[t]] = Remembered(frame[t], LookedUp(t, s))]
      /\ calls' = calls /\ frame' = frame /\ bound' = bound
  BY DEF AssignRead, Running
<1>2. LookedUp(t, s) \in SUBSET Names
  BY Ids DEF LookedUp
<1>3. Value(t, s.source) + 1 \in Values
  <2>1. CachedOwner(frame[t], s.source) \in EnvIds
        /\ env[CachedOwner(frame[t], s.source)].vals[s.source] # None
    BY <1>1, Lookup, Ids DEF IInv, ThreadInv, Missing
  <2>2. Value(t, s.source) \in Values
    BY <2>1, StateTyped, Ids DEF IInv, Value
  <2>3. QED
    BY <1>1, <2>2 DEF Values, ClosureParameters
<1>4. write \in Writes
  BY <1>1, <1>3, ResolveFacts DEF Writes
<1>5. write.node = s /\ write.owner = Owner(frame[t], s.target)
  BY <1>1, ResolveFacts
<1> HIDE DEF write
<1>6. pending' \in [Threads -> Writes] /\ pending'[t] = write
      /\ \A u \in Threads \ {t} : pending'[u] = pending[u]
  BY <1>1, <1>4 DEF IInv, TypeOK, Writes
<1>7. pending'[t].owner = Owner(frame[t], pending'[t].node.target)
  BY <1>5, <1>6
<1>8. /\ slot' \in [Threads -> Slots] /\ \A u \in Threads \ {t} : slot'[u] = slot[u]
      /\ \/ slot'[t] = slot[t]
         \/ /\ slot'[t].id = frame[t] /\ slot'[t].epoch = env[frame[t]].epoch
            /\ slot'[t].node \in Nodes
            /\ slot'[t].owner = Owner(frame[t], slot'[t].node.target)
  BY <1>1, ResolveFacts
<1>9. QED
  BY <1>1, <1>2, <1>6, <1>7, <1>8, LookupStep

\* An exception, with a slot that is as it was or right.
LEMMA ThrowStep ==
  ASSUME ClosureParameters, IInv, NEW t \in Threads, Running(t), NEW S \in SUBSET Names, Throw(t, S),
         calls' = calls, slot' \in [Threads -> Slots], \A u \in Threads \ {t} : slot'[u] = slot[u],
         \/ slot'[t] = slot[t]
         \/ /\ slot'[t].id = frame[t] /\ slot'[t].epoch = env[frame[t]].epoch
            /\ slot'[t].node \in Nodes
            /\ slot'[t].owner = Owner(frame[t], slot'[t].node.target)
  PROVE  IInv'
<1>1. frame[t] # None /\ pending[t].node = None
  BY DEF Running
<1>2. CASE Leave(t)
  <2>1. slot'[t].id \in {slot[t].id, frame[t]}
    OBVIOUS
  <2>2. QED
    BY <1>1, <1>2, <2>1, LeaveStep
<1>3. CASE /\ env' = [env EXCEPT ![frame[t]] = Remembered(frame[t], S)]
           /\ UNCHANGED <<frame, bound, pending>>
  <2>1. pending' \in [Threads -> Writes]
    BY <1>3 DEF IInv, TypeOK, Writes
  <2>2. frame' = frame /\ bound' = bound /\ pending' = pending
    BY <1>3
  <2>3. QED
    BY <1>1, <1>3, <2>1, <2>2, LookupStep
<1>4. QED
  BY <1>2, <1>3 DEF Throw

\* undefined variable: y
LEMMA AssignFailsStep ==
  ASSUME ClosureParameters, IInv, NEW t \in Threads, NEW s \in Nodes, AssignFails(t, s)
  PROVE  IInv'
<1>1. Running(t) /\ ResolveTarget(t, s) /\ Throw(t, LookedUp(t, s)) /\ calls' = calls
      /\ frame[t] # None
  BY DEF AssignFails, Running
<1>2. LookedUp(t, s) \in SUBSET Names
  BY Ids DEF LookedUp
<1>3. /\ slot' \in [Threads -> Slots] /\ \A u \in Threads \ {t} : slot'[u] = slot[u]
      /\ \/ slot'[t] = slot[t]
         \/ /\ slot'[t].id = frame[t] /\ slot'[t].epoch = env[frame[t]].epoch
            /\ slot'[t].node \in Nodes
            /\ slot'[t].owner = Owner(frame[t], slot'[t].node.target)
  BY <1>1, ResolveFacts
<1>4. QED
  BY <1>1, <1>2, <1>3, ThrowStep

\* The write of an assignment.
LEMMA AssignWriteStep ==
  ASSUME ClosureParameters, IInv, NEW t \in Threads, AssignWrite(t)
  PROVE  IInv'
<1> DEFINE n == pending[t].node.target
           o == pending[t].owner
           v == pending[t].value
<1>1. /\ pending[t].node # None /\ env' = WrittenEnv(t) /\ calls' = calls /\ frame' = frame
      /\ slot' = slot /\ pending' = [pending EXCEPT ![t] = NoWrite]
      /\ bound' = IF bound[t][n] # None \/ Owner(frame[t], n) = None
                  THEN [bound EXCEPT ![t][n] = v] ELSE bound
  BY DEF AssignWrite
<1>2. frame[t] # None /\ o = Owner(frame[t], n) /\ n \in Names /\ v \in Values
      /\ o \in EnvIds \cup {None}
  BY <1>1, Ids DEF IInv, TypeOK, ThreadInv, PendingInv
<1>3. env' = IF o # None THEN [env EXCEPT ![o].vals[n] = v]
             ELSE [env EXCEPT ![frame[t]] = Define(@, frame[t], n, v)]
  BY <1>1 DEF WrittenEnv
<1> HIDE DEF n, o, v
<1>4. /\ pending' \in [Threads -> Writes] /\ pending'[t].node = None
      /\ \A u \in Threads \ {t} : pending'[u] = pending[u]
  BY <1>1, Ids DEF IInv, TypeOK, Writes, NoWrite
<1>5. bound \in [Threads -> [Names -> Values \cup {None}]]
  BY DEF IInv, TypeOK
<1>6. /\ bound' \in [Threads -> [Names -> Values \cup {None}]]
      /\ \A u \in Threads \ {t} : bound'[u] = bound[u]
      /\ \A m \in Names \ {n} : bound'[t][m] = bound[t][m]
      /\ bound'[t][n] = IF bound[t][n] # None \/ Owner(frame[t], n) = None THEN v ELSE bound[t][n]
  BY <1>1, <1>2, <1>5
<1>7. /\ Owner(frame[t], n) = IF env[frame[t]].vals[n] # None THEN frame[t]
                              ELSE IF env[Capture].vals[n] # None THEN Capture ELSE None
      /\ frame[t] # Capture /\ Capture # None
  BY <1>2, Lookup, Ids DEF IInv, ThreadInv
<1>8. CASE o # None
  <2>1. bound[t][n] # None => o = frame[t]
    BY <1>2, <1>7, Ids, StateTyped DEF IInv, ThreadInv, BoundInv
  <2>2. bound'[t][n] # None => o = frame[t] /\ bound'[t][n] = v
    BY <1>2, <1>6, <1>8, <2>1
  <2>3. env' = [env EXCEPT ![o].vals[n] = v] /\ o \in EnvIds /\ o = Owner(frame[t], n)
    BY <1>2, <1>3, <1>8
  <2>4. frame[t] # None /\ n \in Names /\ v \in Values
    BY <1>2
  <2>5. calls' = calls /\ frame' = frame /\ slot' = slot
    BY <1>1
  <2>6. \A u \in Threads \ {t} : pending'[u] = pending[u] /\ bound'[u] = bound[u]
    BY <1>4, <1>6
  <2>7. /\ bound' \in [Threads -> [Names -> Values \cup {None}]]
        /\ \A m \in Names \ {n} : bound'[t][m] = bound[t][m]
    BY <1>6
  <2>8. pending' \in [Threads -> Writes] /\ pending'[t].node = None
    BY <1>4
  <2>9. QED
    BY <2>2, <2>3, <2>4, <2>5, <2>6, <2>7, <2>8, WriteStep, ZenonT(60)
<1>9. CASE o = None
  <2>1. env[frame[t]].vals[n] = None /\ bound'[t][n] = v
    BY <1>2, <1>6, <1>7, <1>9
  <2>2. env' = [env EXCEPT ![frame[t]] = Define(@, frame[t], n, v)]
    BY <1>3, <1>9
  <2>3. frame[t] # None /\ n \in Names /\ v \in Values
    BY <1>2
  <2>4. calls' = calls /\ frame' = frame /\ slot' = slot
    BY <1>1
  <2>5. bound'[t][n] # None => bound'[t][n] = v
    BY <2>1
  <2>6. QED
    BY <1>4, <1>6, <2>1, <2>2, <2>3, <2>4, <2>5, NewStep
<1>10. QED
  BY <1>8, <1>9

\* What a call binds it binds in its own environment.
LEMMA BoundAt ==
  ASSUME IInv, NEW t \in Threads, NEW n \in Names, NEW v \in Values,
         bound' = [bound EXCEPT ![t][n] = v]
  PROVE  /\ bound' \in [Threads -> [Names -> Values \cup {None}]]
         /\ \A u \in Threads \ {t} : bound'[u] = bound[u]
         /\ \A m \in Names \ {n} : bound'[t][m] = bound[t][m]
         /\ bound'[t][n] = v
BY DEF IInv, TypeOK

\* Environment::set reaches the own environment of the call only.
LEMMA SettableFacts ==
  ASSUME ClosureParameters, IInv, NEW t \in Threads, frame[t] # None, NEW n \in Names
  PROVE  /\ CachedOwner(frame[t], n) = Owner(frame[t], n)
         /\ Settable(t, n) => Owner(frame[t], n) = frame[t]
         /\ ~Settable(t, n) => env[frame[t]].vals[n] = None
<1>1. /\ Owner(frame[t], n) = IF env[frame[t]].vals[n] # None THEN frame[t]
                              ELSE IF env[Capture].vals[n] # None THEN Capture ELSE None
      /\ CachedOwner(frame[t], n) = Owner(frame[t], n)
  BY Lookup DEF IInv, ThreadInv
<1>2. env[Capture].frozen /\ ~env[frame[t]].frozen
  BY DEF IInv, ThreadInv, FrameInv, Defined
<1>3. QED
  BY <1>1, <1>2 DEF Settable, Missing

\* The binding of for, catch or with.
LEMMA BindStep ==
  ASSUME ClosureParameters, IInv, NEW t \in Threads, NEW s \in Nodes, NEW v \in Values, Bind(t, s, v)
  PROVE  IInv'
<1> DEFINE n == s.target
<1>1. /\ frame[t] # None /\ pending[t].node = None /\ env' = BindTo(t, n, v)
      /\ bound' = [bound EXCEPT ![t][n] = v]
      /\ calls' = calls /\ frame' = frame /\ slot' = slot /\ pending' = pending
  BY DEF Bind, Running
<1>2. n \in Names
  BY Ids
<1> HIDE DEF n
<1>3. /\ pending' \in [Threads -> Writes] /\ pending'[t].node = None
      /\ \A u \in Threads \ {t} : pending'[u] = pending[u] /\ bound'[u] = bound[u]
      /\ bound' \in [Threads -> [Names -> Values \cup {None}]]
      /\ \A m \in Names \ {n} : bound'[t][m] = bound[t][m]
      /\ bound'[t][n] = v
  <2>1. pending \in [Threads -> Writes]
    BY DEF IInv, TypeOK, Writes
  <2>2. QED
    BY <1>1, <1>2, <2>1, BoundAt
<1>4. CASE Settable(t, n)
  <2>1. env' = [env EXCEPT ![frame[t]].vals[n] = v] /\ frame[t] = Owner(frame[t], n)
    BY <1>1, <1>2, <1>4, SettableFacts DEF BindTo
  <2>2. bound'[t][n] # None => frame[t] = frame[t] /\ bound'[t][n] = v
    BY <1>3
  <2>3. frame[t] # None /\ calls' = calls /\ frame' = frame /\ slot' = slot
    BY <1>1
  <2>4. frame[t] \in EnvIds
    BY <2>3, Ids, StateTyped DEF IInv
  <2>5. QED
    BY <1>2, <1>3, <2>1, <2>2, <2>3, <2>4, WriteStep
<1>5. CASE ~Settable(t, n)
  <2>1. env' = [env EXCEPT ![frame[t]] = Define(@, frame[t], n, v)] /\ env[frame[t]].vals[n] = None
    BY <1>1, <1>2, <1>5, SettableFacts DEF BindTo
  <2>2. bound'[t][n] # None => bound'[t][n] = v
    BY <1>3
  <2>3. frame[t] # None /\ calls' = calls /\ frame' = frame /\ slot' = slot
    BY <1>1
  <2>4. QED
    BY <1>2, <1>3, <2>1, <2>2, <2>3, NewStep
<1>6. QED
  BY <1>4, <1>5

\* x[i] = v
LEMMA IndexAssignStep ==
  ASSUME ClosureParameters, IInv, NEW t \in Threads, NEW s \in Nodes, NEW v \in Values,
         IndexAssign(t, s, v)
  PROVE  IInv'
<1> DEFINE n == s.target
<1>1. /\ Running(t) /\ calls' = calls /\ slot' = slot
      /\ IF Settable(t, n)
         THEN /\ env' = [env EXCEPT ![CachedOwner(frame[t], n)].vals[n] = v]
              /\ bound' = [bound EXCEPT ![t][n] = v]
              /\ frame' = frame /\ pending' = pending
         ELSE Throw(t, {n})
  BY DEF IndexAssign
<1>2. n \in Names /\ {n} \in SUBSET Names
  BY Ids
<1> HIDE DEF n
<1>3. frame[t] # None /\ pending[t].node = None
  BY <1>1 DEF Running
<1>4. pending \in [Threads -> Writes] /\ slot \in [Threads -> Slots]
  BY DEF IInv, TypeOK, Writes, Slots
<1>5. CASE Settable(t, n)
  <2>1. env' = [env EXCEPT ![frame[t]].vals[n] = v] /\ frame[t] = Owner(frame[t], n)
    BY <1>1, <1>2, <1>3, <1>5, SettableFacts
  <2>2. bound' = [bound EXCEPT ![t][n] = v] /\ frame' = frame /\ pending' = pending
    BY <1>1, <1>5
  <2>3. /\ pending' \in [Threads -> Writes] /\ pending'[t].node = None
        /\ \A u \in Threads \ {t} : pending'[u] = pending[u] /\ bound'[u] = bound[u]
        /\ bound' \in [Threads -> [Names -> Values \cup {None}]]
        /\ \A m \in Names \ {n} : bound'[t][m] = bound[t][m]
        /\ bound'[t][n] = v
    BY <1>2, <1>3, <1>4, <2>2, BoundAt
  <2>4. bound'[t][n] # None => frame[t] = frame[t] /\ bound'[t][n] = v
    BY <2>3
  <2>5. frame[t] \in EnvIds
    BY <1>3, Ids, StateTyped DEF IInv
  <2>6. QED
    BY <1>1, <1>2, <1>3, <2>1, <2>2, <2>3, <2>4, <2>5, WriteStep
<1>6. CASE ~Settable(t, n)
  BY <1>1, <1>2, <1>4, <1>6, ThrowStep
<1>7. QED
  BY <1>5, <1>6

\* Every step keeps the invariant.
LEMMA NextInv ==
  ASSUME ClosureParameters, IInv, [Next]_vars
  PROVE  IInv'
<1>1. CASE UNCHANGED vars
  <2>1. UNCHANGED <<env, calls, frame, slot, pending, bound>>
    BY <1>1 DEF vars
  <2>2. TypeOK'
    BY <2>1 DEF IInv, TypeOK
  <2>3. ApartInv'
    BY <2>1 DEF IInv, ApartInv
  <2>4. ASSUME NEW t \in Threads PROVE ThreadInv(t)'
    <3>1. calls <= calls' /\ ThreadInv(t) /\ TypeOK
      BY <2>1 DEF IInv, TypeOK
    <3>2. QED
      BY <2>1, <2>2, <3>1, Untouched
  <2>5. QED
    BY <2>2, <2>3, <2>4 DEF IInv
<1>2. CASE Next
  <2>1. CASE DefineFunction
    BY <2>1, DefineFunctionStep
  <2>2. ASSUME NEW n \in Assigned, NEW v \in Values, AssignGlobal(n, v) PROVE IInv'
    BY <2>2, AssignGlobalStep
  <2>3. ASSUME NEW t \in Threads, NEW v \in Values, Call(t, v) PROVE IInv'
    BY <2>3, CallStep
  <2>4. ASSUME NEW t \in Threads, Return(t) PROVE IInv'
    BY <2>4, ReturnStep
  <2>5. ASSUME NEW t \in Threads, AssignWrite(t) PROVE IInv'
    BY <2>5, AssignWriteStep
  <2>6. ASSUME NEW t \in Threads, NEW s \in Nodes, AssignRead(t, s) PROVE IInv'
    BY <2>6, AssignReadStep
  <2>7. ASSUME NEW t \in Threads, NEW s \in Nodes, AssignFails(t, s) PROVE IInv'
    BY <2>7, AssignFailsStep
  <2>8. ASSUME NEW t \in Threads, NEW s \in Nodes, NEW v \in Values, Bind(t, s, v) PROVE IInv'
    BY <2>8, BindStep
  <2>9. ASSUME NEW t \in Threads, NEW s \in Nodes, NEW v \in Values, IndexAssign(t, s, v) PROVE IInv'
    BY <2>9, IndexAssignStep
  <2>10. QED
    BY <1>2, <2>1, <2>2, <2>3, <2>4, <2>5, <2>6, <2>7, <2>8, <2>9 DEF Next
<1>3. QED
  BY <1>1, <1>2

\* The inductive invariant holds throughout.
LEMMA Invariant ==
  ASSUME ClosureParameters
  PROVE  Spec => []IInv
<1>1. Init => IInv
  BY InitInv
<1>2. IInv /\ [Next]_vars => IInv'
  BY NextInv
<1>3. QED
  BY <1>1, <1>2, PTL DEF Spec

-----------------------------------------------------------------------------
\* Every variable has its type.
THEOREM TypeCorrect ==
  ASSUME ClosureParameters
  PROVE  Spec => []TypeOK
<1>1. IInv => TypeOK
  BY DEF IInv
<1>2. QED
  BY <1>1, Invariant, PTL

\* No entry of an owner cache and no slot of a thread's table that still applies
\* hides a nearer variable: a name is found where the walk up finds it.
THEOREM LookupsFreshCorrect ==
  ASSUME ClosureParameters
  PROVE  Spec => []LookupsFresh
<1>1. IInv => LookupsFresh
  BY Lookup DEF IInv, ThreadInv, SlotInv, LookupsFresh, Hit
<1>2. QED
  BY <1>1, Invariant, PTL

\* A name that a call has bound reads as what that call gave it last.
THEOREM OwnVariablesCorrect ==
  ASSUME ClosureParameters
  PROVE  Spec => []OwnVariables
<1>1. ASSUME IInv PROVE OwnVariables
  <2> SUFFICES ASSUME NEW t \in Threads, frame[t] # None, NEW n \in Names, bound[t][n] # None
               PROVE  /\ Owner(frame[t], n) = frame[t]
                      /\ env[frame[t]].vals[n] = bound[t][n]
    BY DEF OwnVariables
  <2>1. env[frame[t]].vals[n] = bound[t][n]
    BY <1>1 DEF IInv, ThreadInv, BoundInv
  <2>2. QED
    BY <1>1, <2>1 DEF Owner
<1>2. QED
  BY <1>1, Invariant, PTL

=============================================================================
