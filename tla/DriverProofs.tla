---------------------------- MODULE DriverProofs ----------------------------
(***************************************************************************)
(* Safety of Driver, for every set of processes and command lines: a run   *)
(* executes a binary of its own text, generator and flags, and falls back  *)
(* to the interpreter unless another process spoils its binary.            *)
(***************************************************************************)
EXTENDS Driver, SequenceTheorems, TLAPS

Fields == {"pc", "command", "given", "revision", "env", "saved", "read", "path",
           "optimizing", "failed", "shown", "status"}
Building == {"compile", "train", "merge", "begin", "link"}

\* What the name of a binary has of the environment.
Named(env) == <<env.CFLAGS, env.CXXFLAGS, env.OPT_PROFILE>>

\* The binary is in the cache, under a key for the C source of the process.
Keyed(r) == /\ r.path # <<>> /\ r.path[1] = "cache" /\ r.path[3] = CSource(r.read, r.revision)
            /\ <<r.path[6], r.path[7], r.path[8]>> = Named(r.env)

\* What a run has shown of binaries.
RunShown(r) ==
    \A i \in DOMAIN r.shown : r.shown[i].how = "native" =>
        r.shown[i].by = CSource(r.read, r.revision) /\ Named(r.shown[i].env) = Named(r.env)
ShownNative(r) == r.failed /\ \E output : r.shown = <<output>> /\ output.how = "native"

\* Process r, when the texts so far are t.
ProcInv(r, t) ==
    /\ DOMAIN r = Fields
    /\ r.read \in 0..Len(t)
    /\ r.pc # "ended" => r.status # 137 /\ (r.shown = <<>> \/ (r.pc = "interpret" /\ ShownNative(r)))
    /\ r.pc \notin {"idle", "ended"} => DOMAIN r.env = EnvNames
    /\ r.pc \in {"idle", "front"} => r.read = 0
    /\ r.pc \in {"idle", "front", "translate", "lookup"} => r.path = <<>>
    /\ r.pc = "translate" => r.command # "run"
    /\ r.pc \in {"lookup", "execute", "interpret"} => r.command = "run"
    /\ r.pc = "execute" => Keyed(r) \/ (r.path[1] = "temp" /\ ~CacheOn(r.env))
    /\ r.pc \in Building => \/ r.command = "run" /\ Keyed(r)
                            \/ r.command = "build" /\ r.path = OutputPath
    /\ r.pc \in {"begin", "link"} => DOMAIN r.saved = EnvNames /\ Named(r.saved) = Named(r.env)
    /\ r.command = "run" => RunShown(r)

\* A whole binary: one in the cache was made of the C source and with the flags
\* that its key has.
FileInv(f, file) ==
    file.state = "whole" =>
        /\ f[1] # "temp"
        /\ f[1] = "cache" => file.by = f[3] /\ Named(file.env) = <<f[6], f[7], f[8]>>

FilesInv == \A f \in DOMAIN files : FileInv(f, files[f])

DriverInv ==
    /\ texts \in Seq(Kinds) /\ DOMAIN procs = Procs
    /\ \A p \in Procs : ProcInv(procs[p], texts)
    /\ FilesInv

-----------------------------------------------------------------------------
(* Steps *)

\* The tuning of a build keeps the variables.
LEMMA TunedNames ==
  ASSUME NEW opts, NEW user, DOMAIN user = EnvNames
  PROVE  DOMAIN ApplyTuning(opts, user) = EnvNames
BY DEF ApplyTuning

\* A process goes on while the others stay.
LEMMA ProcMoves ==
  ASSUME DriverInv, NEW p \in Procs, NEW r, procs' = [procs EXCEPT ![p] = r],
         texts' = texts, ProcInv(r, texts), FilesInv'
  PROVE  DriverInv'
BY DEF DriverInv

\* Writing a file leaves the others as they are.
LEMMA PutFile ==
  ASSUME FilesInv, NEW f, NEW content, StoreFile(f, content), FileInv(f, content)
  PROVE  FilesInv'
BY DEF FilesInv, StoreFile

\* So does removing one, ...
LEMMA RemoveFile ==
  ASSUME FilesInv, NEW f, files' = Removed(f)
  PROVE  FilesInv'
BY DEF FilesInv, Removed

\* ... and writing none.
LEMMA KeepFiles ==
  ASSUME FilesInv, UNCHANGED files
  PROVE  FilesInv'
BY DEF FilesInv

\* A process that ends has shown what it should.
LEMMA EndedStep ==
  ASSUME DriverInv, NEW p \in Procs, NEW r, NEW n, EndProcess(p, r, n), texts' = texts,
         DOMAIN r = Fields, r.read \in 0..Len(texts),
         r.command = "run" => RunShown([r EXCEPT !.pc = "ended", !.status = n])
  PROVE  DriverInv'
<1> DEFINE q == [r EXCEPT !.pc = "ended", !.status = n]
<1>1. procs' = [procs EXCEPT ![p] = q] /\ files' = Removed(<<"temp", p>>)
  BY DEF EndProcess
<1>2. DOMAIN q = Fields /\ q.pc = "ended" /\ q.read = r.read /\ q.command = r.command
  BY DEF Fields
<1>3. r.command = "run" => RunShown(q)
  OBVIOUS
<1> HIDE DEF q
<1>4. ProcInv(q, texts)
  BY <1>2, <1>3 DEF ProcInv, Building
<1>5. FilesInv'
  BY <1>1, RemoveFile DEF DriverInv
<1>6. QED
  BY <1>1, <1>4, <1>5, ProcMoves

\* What a stage of building leaves of a process that it takes from one to r.
Kept == {"command", "given", "revision", "read", "path", "shown"}
Builds(one, r) ==
    /\ DOMAIN r = Fields /\ \A x \in Kept : r[x] = one[x]
    /\ r.status # 137 /\ DOMAIN r.env = EnvNames /\ Named(r.env) = Named(one.env)

\* The environment that the block of a build has saved has the same names.
Staged(r) ==
    /\ r.pc \in Building
    /\ r.pc \in {"begin", "link"} => DOMAIN r.saved = EnvNames /\ Named(r.saved) = Named(r.env)

\* A process that is compiled for still knows what, when the environment, the
\* failures or the stage of building change.
LEMMA BuildMoves ==
  ASSUME DriverInv, NEW p \in Procs, procs[p].pc \in Building, NEW r, Builds(procs[p], r),
         Staged(r), procs' = [procs EXCEPT ![p] = r], texts' = texts, FilesInv'
  PROVE  DriverInv'
<1>1. ProcInv(procs[p], texts)
  BY DEF DriverInv
<1>2. /\ r.command = procs[p].command /\ r.revision = procs[p].revision /\ r.read = procs[p].read
      /\ r.path = procs[p].path /\ r.shown = procs[p].shown /\ Named(r.env) = Named(procs[p].env)
      /\ DOMAIN r = Fields /\ r.status # 137 /\ DOMAIN r.env = EnvNames
  BY DEF Kept, Builds
<1>3. (Keyed(procs[p]) => Keyed(r)) /\ (RunShown(procs[p]) => RunShown(r))
  BY <1>2 DEF Keyed, RunShown
<1>4. ProcInv(r, texts)
  BY <1>1, <1>2, <1>3 DEF ProcInv, Building, Staged
<1>5. QED
  BY <1>4, ProcMoves

\* What has shown nothing has shown nothing wrong.
LEMMA NothingShown ==
  ASSUME NEW r, r.shown = <<>>
  PROVE  RunShown(r)
BY DEF RunShown

\* What is known of a process that has not ended.
LEMMA Unended ==
  ASSUME DriverInv, NEW p \in Procs, procs[p].pc # "ended"
  PROVE  /\ DOMAIN procs[p] = Fields /\ procs[p].read \in 0..Len(texts)
         /\ procs[p].pc # "interpret" => procs[p].shown = <<>>
         /\ procs[p].pc # "idle" => DOMAIN procs[p].env = EnvNames
         /\ Current = Len(texts) /\ Len(texts) \in Nat /\ procs[p].status # 137
         /\ FilesInv
BY LenProperties DEF DriverInv, ProcInv, Current

\* A process starts, or its command line is refused.
LEMMA StartStep ==
  ASSUME DriverInv, NEW p \in Procs, StartProcess(p)
  PROVE  DriverInv'
<1>1. procs[p].pc = "idle" /\ texts' = texts
  BY DEF StartProcess
<1>2. /\ DOMAIN procs[p] = Fields /\ procs[p].read = 0 /\ procs[p].shown = <<>> /\ procs[p].path = <<>>
      /\ procs[p].status # 137 /\ FilesInv /\ Len(texts) \in Nat
  BY <1>1, Unended DEF DriverInv, ProcInv
<1> DEFINE known(job) == job.line.command \in {"run", "build", "compile", "parse", "check", "analyze"}
           parsed(job) == IF known(job) THEN ParseLine(job.line)
                          ELSE [ParseLine(NoCommand) EXCEPT !.file = job.line.command,
                                                            !.accepted = TRUE]
           started(job) == [procs[p] EXCEPT
                              !.command = IF known(job) THEN job.line.command ELSE "run",
                              !.given = parsed(job).given, !.revision = job.revision,
                              !.env = job.env]
<1>3. PICK job \in Jobs[p] :
        \/ procs' = [procs EXCEPT ![p] = [started(job) EXCEPT !.pc = "front"]] /\ UNCHANGED files
        \/ EndProcess(p, started(job), 1)
  BY DEF StartProcess
<1> DEFINE begun == started(job)
<1>4. /\ DOMAIN begun = Fields /\ begun.read = 0 /\ begun.shown = <<>> /\ begun.path = <<>>
      /\ begun.status # 137 /\ DOMAIN begun.env = EnvNames
  BY <1>2, JobsAssumption DEF Fields
<1>5. \/ procs' = [procs EXCEPT ![p] = [begun EXCEPT !.pc = "front"]] /\ UNCHANGED files
      \/ EndProcess(p, begun, 1)
  BY <1>3
<1> HIDE DEF begun
<1>6. CASE procs' = [procs EXCEPT ![p] = [begun EXCEPT !.pc = "front"]] /\ UNCHANGED files
  <2> DEFINE r == [begun EXCEPT !.pc = "front"]
  <2>1. /\ DOMAIN r = Fields /\ r.pc = "front" /\ r.read = 0 /\ r.shown = <<>> /\ r.path = <<>>
        /\ r.status # 137 /\ DOMAIN r.env = EnvNames
    BY <1>4 DEF Fields
  <2>2. procs' = [procs EXCEPT ![p] = r] /\ FilesInv'
    BY <1>2, <1>6, KeepFiles
  <2> HIDE DEF r
  <2>3. ProcInv(r, texts)
    BY <1>2, <2>1, NothingShown DEF ProcInv, Building
  <2>4. QED
    BY <1>1, <2>2, <2>3, ProcMoves
<1>7. CASE EndProcess(p, begun, 1)
  <2> DEFINE r == [begun EXCEPT !.pc = "ended", !.status = 1]
  <2>1. r.shown = <<>>
    BY <1>4 DEF Fields
  <2> HIDE DEF r
  <2>2. RunShown(r)
    BY <2>1, NothingShown
  <2>3. begun.read \in 0..Len(texts)
    BY <1>2, <1>4
  <2>4. QED
    BY <1>1, <1>4, <1>7, <2>2, <2>3, EndedStep DEF r
<1>8. QED
  BY <1>5, <1>6, <1>7

\* A process leaves the front end for a stage of a run or of a build.
LEMMA FrontMoves ==
  ASSUME DriverInv, NEW p \in Procs, procs[p].pc = "front", NEW r, DOMAIN r = Fields,
         \A x \in {"command", "given", "revision", "shown", "status"} : r[x] = procs[p][x],
         r.read \in 0..Len(texts), DOMAIN r.env = EnvNames,
         \/ r.pc = "translate" /\ r.command # "run" /\ r.path = <<>>
         \/ r.pc \in {"lookup", "interpret"} /\ r.command = "run" /\ r.path = <<>>
         \/ r.pc = "compile" /\ r.command = "build" /\ r.path = OutputPath
         \/ r.pc = "ended" /\ r.command # "run",
         procs' = [procs EXCEPT ![p] = r], texts' = texts, FilesInv'
  PROVE  DriverInv'
<1>1. r.shown = <<>> /\ r.status # 137
  BY Unended
<1>2. ProcInv(r, texts)
  BY <1>1, NothingShown DEF ProcInv, Building
<1>3. QED
  BY <1>2, ProcMoves

\* What a run makes of the verdict on its text, ...
LEMMA RunFrontStep ==
  ASSUME DriverInv, NEW p \in Procs, procs[p].pc = "front", procs[p].command = "run",
         RunFront(p), texts' = texts
  PROVE  DriverInv'
<1> DEFINE pr == procs[p]
           tuned == [pr EXCEPT !.env = ApplyTuning(pr.given, pr.env), !.read = Current]
<1>1. /\ DOMAIN pr = Fields /\ pr.read \in 0..Len(texts) /\ DOMAIN pr.env = EnvNames
      /\ pr.shown = <<>> /\ Current = Len(texts) /\ Len(texts) \in Nat /\ FilesInv
      /\ pr.path = <<>>
  BY Unended DEF DriverInv, ProcInv
<1>2. \/ procs' = [procs EXCEPT ![p].pc = "interpret"] /\ UNCHANGED files
      \/ (~TargetMatchesHost(pr.given) \/ texts[Current] = "ill") /\ EndProcess(p, tuned, 1)
      \/ \E pc \in {"lookup", "interpret"} :
            procs' = [procs EXCEPT ![p] = [tuned EXCEPT !.pc = pc]] /\ UNCHANGED files
  BY DEF RunFront, GoesTo
<1>3. DOMAIN tuned = Fields /\ tuned.read = Current /\ tuned.shown = <<>> /\ tuned.given = pr.given
        /\ tuned.command = "run" /\ tuned.revision = pr.revision /\ tuned.path = <<>>
        /\ tuned.status = pr.status /\ DOMAIN tuned.env = EnvNames
  BY <1>1, TunedNames DEF Fields
<1> HIDE DEF tuned
<1>4. CASE procs' = [procs EXCEPT ![p].pc = "interpret"] /\ UNCHANGED files
  <2> DEFINE r == [pr EXCEPT !.pc = "interpret"]
  <2>1. procs' = [procs EXCEPT ![p] = r] /\ FilesInv'
    BY <1>1, <1>4, KeepFiles
  <2>2. DOMAIN r = Fields /\ r.pc = "interpret" /\ r.read = pr.read /\ r.path = <<>> /\ r.env = pr.env
          /\ \A x \in {"command", "given", "revision", "shown", "status"} : r[x] = pr[x]
    BY <1>1 DEF Fields
  <2> HIDE DEF r
  <2>3. QED
    BY <1>1, <2>1, <2>2, FrontMoves
<1>5. CASE (~TargetMatchesHost(pr.given) \/ texts[Current] = "ill") /\ EndProcess(p, tuned, 1)
  <2> DEFINE r == [tuned EXCEPT !.pc = "ended", !.status = 1]
  <2>1. r.shown = <<>>
    BY <1>3 DEF Fields
  <2> HIDE DEF r
  <2>2. RunShown(r)
    BY <2>1, NothingShown
  <2>3. tuned.read \in 0..Len(texts)
    BY <1>1, <1>3
  <2>4. QED
    BY <1>3, <1>5, <2>2, <2>3, EndedStep DEF r
<1>6. ASSUME NEW pc \in {"lookup", "interpret"},
             procs' = [procs EXCEPT ![p] = [tuned EXCEPT !.pc = pc]], UNCHANGED files
      PROVE  DriverInv'
  <2> DEFINE r == [tuned EXCEPT !.pc = pc]
  <2>1. procs' = [procs EXCEPT ![p] = r] /\ FilesInv'
    BY <1>1, <1>6, KeepFiles
  <2>2. DOMAIN r = Fields /\ r.pc = pc /\ r.read = Current /\ r.path = <<>> /\ DOMAIN r.env = EnvNames
          /\ \A x \in {"command", "given", "revision", "shown", "status"} : r[x] = pr[x]
    BY <1>1, <1>3 DEF Fields
  <2> HIDE DEF r
  <2>3. r.read \in 0..Len(texts)
    BY <1>1, <2>2
  <2>4. QED
    BY <2>1, <2>2, <2>3, FrontMoves
<1>7. QED
  BY <1>2, <1>4, <1>5, <1>6

\* ... what a build does, ...
LEMMA BuildFrontStep ==
  ASSUME DriverInv, NEW p \in Procs, procs[p].pc = "front", procs[p].command = "build",
         BuildFront(p), texts' = texts
  PROVE  DriverInv'
<1> DEFINE pr == procs[p]
           tuned == [pr EXCEPT !.env = ApplyTuning(pr.given, pr.env), !.read = Current,
                               !.path = OutputPath]
<1>1. /\ DOMAIN pr = Fields /\ pr.read \in 0..Len(texts) /\ DOMAIN pr.env = EnvNames
      /\ pr.shown = <<>> /\ Current = Len(texts) /\ Len(texts) \in Nat /\ FilesInv
      /\ pr.path = <<>>
  BY Unended DEF DriverInv, ProcInv
<1>2. \/ /\ procs' = [procs EXCEPT ![p] = [tuned EXCEPT !.pc = "ended"]]
         /\ StoreFile(OutputPath, [state |-> "launcher", by |-> <<0, 0>>, env |-> <<>>])
      \/ EndProcess(p, tuned, 1)
      \/ procs' = [procs EXCEPT ![p] = [tuned EXCEPT !.pc = "compile"]] /\ UNCHANGED files
  BY DEF BuildFront
<1>3. DOMAIN tuned = Fields /\ tuned.read = Current /\ tuned.shown = <<>> /\ tuned.given = pr.given
        /\ tuned.command = "build" /\ tuned.revision = pr.revision /\ tuned.path = OutputPath
        /\ tuned.status = pr.status /\ DOMAIN tuned.env = EnvNames
  BY <1>1, TunedNames DEF Fields
<1>4. tuned.read \in 0..Len(texts)
  BY <1>1, <1>3
<1> HIDE DEF tuned
<1>5. ASSUME NEW pc \in {"ended", "compile"},
             procs' = [procs EXCEPT ![p] = [tuned EXCEPT !.pc = pc]], FilesInv'
      PROVE  DriverInv'
  <2> DEFINE r == [tuned EXCEPT !.pc = pc]
  <2>1. procs' = [procs EXCEPT ![p] = r] /\ FilesInv'
    BY <1>5
  <2>2. DOMAIN r = Fields /\ r.pc = pc /\ r.read = Current /\ r.path = OutputPath
          /\ DOMAIN r.env = EnvNames
          /\ \A x \in {"command", "given", "revision", "shown", "status"} : r[x] = pr[x]
    BY <1>1, <1>3 DEF Fields
  <2> HIDE DEF r
  <2>3. r.read \in 0..Len(texts) /\ r.command = "build"
    BY <1>1, <2>2
  <2>4. QED
    BY <2>1, <2>2, <2>3, FrontMoves
<1>6. CASE /\ procs' = [procs EXCEPT ![p] = [tuned EXCEPT !.pc = "ended"]]
           /\ StoreFile(OutputPath, [state |-> "launcher", by |-> <<0, 0>>, env |-> <<>>])
  <2>1. FileInv(OutputPath, [state |-> "launcher", by |-> <<0, 0>>, env |-> <<>>])
    BY DEF FileInv
  <2>2. FilesInv'
    BY <1>1, <1>6, <2>1, PutFile
  <2>3. QED
    BY <1>5, <1>6, <2>2
<1>7. CASE EndProcess(p, tuned, 1)
  BY <1>3, <1>4, <1>7, EndedStep
<1>8. CASE procs' = [procs EXCEPT ![p] = [tuned EXCEPT !.pc = "compile"]] /\ UNCHANGED files
  BY <1>1, <1>5, <1>8, KeepFiles
<1>9. QED
  BY <1>2, <1>6, <1>7, <1>8

\* ... and what every other command does.
LEMMA FrontStep ==
  ASSUME DriverInv, NEW p \in Procs, FrontEnd(p)
  PROVE  DriverInv'
<1> DEFINE pr == procs[p]
<1>1. pr.pc = "front" /\ texts' = texts
  BY DEF FrontEnd
<1>2. /\ DOMAIN pr = Fields /\ pr.read \in 0..Len(texts) /\ FilesInv
      /\ DOMAIN pr.env = EnvNames /\ pr.path = <<>>
  BY <1>1, Unended DEF DriverInv, ProcInv
<1>3. \/ pr.command = "run" /\ RunFront(p)
      \/ pr.command = "build" /\ BuildFront(p)
      \/ pr.command = "compile" /\ CompileFront(p)
      \/ pr.command # "run" /\ Inspect(p)
  BY DEF FrontEnd
<1>4. CASE pr.command = "compile" /\ CompileFront(p)
  <2>1. CASE EndProcess(p, pr, 1)
    BY <1>1, <1>2, <1>4, <2>1, EndedStep
  <2>2. CASE GoesTo(p, "translate") /\ UNCHANGED files
    <3> DEFINE r == [pr EXCEPT !.pc = "translate"]
    <3>1. procs' = [procs EXCEPT ![p] = r] /\ FilesInv'
      BY <1>2, <2>2, KeepFiles DEF GoesTo
    <3>2. DOMAIN r = Fields /\ r.pc = "translate" /\ r.read = pr.read /\ r.path = <<>> /\ r.env = pr.env
            /\ \A x \in {"command", "given", "revision", "shown", "status"} : r[x] = pr[x]
      BY <1>2 DEF Fields
    <3> HIDE DEF r
    <3>3. r.read \in 0..Len(texts) /\ r.command # "run"
      BY <1>2, <1>4, <3>2
    <3>4. QED
      BY <1>1, <1>2, <3>1, <3>2, <3>3, FrontMoves
  <2>3. QED
    BY <1>4, <2>1, <2>2 DEF CompileFront
<1>5. CASE pr.command # "run" /\ Inspect(p)
  <2> DEFINE n == IF texts[Current] = "ill" /\ procs[p].command # "parse" THEN 1 ELSE 0
  <2>1. EndProcess(p, pr, n)
    BY <1>5 DEF Inspect
  <2> HIDE DEF n
  <2>2. QED
    BY <1>1, <1>2, <1>5, <2>1, EndedStep
<1>6. QED
  BY <1>1, <1>3, <1>4, <1>5, RunFrontStep, BuildFrontStep

\* compile shows a text, which is no run.
LEMMA TranslateStep ==
  ASSUME DriverInv, NEW p \in Procs, TranslateSource(p)
  PROVE  DriverInv'
<1> DEFINE pr == [procs[p] EXCEPT !.read = Current]
           written == [pr EXCEPT !.shown = <<[how |-> "text", by |-> <<Current, pr.revision>>]>>]
<1>1. pr.pc = "translate" /\ texts' = texts
        /\ \/ EndProcess(p, pr, 1) \/ EndProcess(p, written, 0)
  BY DEF TranslateSource
<1>2. procs[p].pc = "translate"
  BY <1>1
<1>3. DOMAIN procs[p] = Fields /\ Current = Len(texts) /\ Len(texts) \in Nat /\ procs[p].command # "run"
  BY <1>2, Unended DEF DriverInv, ProcInv
<1>4. DOMAIN pr = Fields /\ pr.read = Current /\ pr.command = procs[p].command
  BY <1>3 DEF Fields
<1>5. DOMAIN written = Fields /\ written.read = Current /\ written.command = procs[p].command
  BY <1>4 DEF Fields
<1> HIDE DEF pr, written
<1>6. pr.read \in 0..Len(texts) /\ written.read \in 0..Len(texts)
  BY <1>3, <1>4, <1>5
<1>7. QED
  BY <1>1, <1>3, <1>4, <1>5, <1>6, EndedStep

\* The path that a run looks up is its own key, or a temporary file.
LEMMA LookupStep ==
  ASSUME DriverInv, NEW p \in Procs, Lookup(p)
  PROVE  DriverInv'
<1> DEFINE pr == procs[p]
           key == CacheKey(pr)
           at == [pr EXCEPT !.path = key]
<1>1. pr.pc = "lookup" /\ texts' = texts
  BY DEF Lookup
<1>2. /\ DOMAIN pr = Fields /\ pr.read \in 0..Len(texts) /\ pr.shown = <<>> /\ FilesInv
      /\ pr.command = "run" /\ pr.path = <<>> /\ pr.status # 137 /\ DOMAIN pr.env = EnvNames
  BY <1>1, Unended DEF DriverInv, ProcInv
<1>3. /\ key # <<>> /\ key[1] = "cache" /\ key[3] = CSource(pr.read, pr.revision)
      /\ <<key[6], key[7], key[8]>> = Named(pr.env)
  BY DEF CacheKey, Named
<1> HIDE DEF key
<1>4. DOMAIN at = Fields /\ at.path = key /\ \A x \in Fields : x # "path" => at[x] = pr[x]
  BY <1>2 DEF Fields
<1>5. \/ /\ ~CacheOn(pr.env)
         /\ procs' = [procs EXCEPT ![p] = [pr EXCEPT !.path = <<"temp", p>>, !.pc = "execute"]]
         /\ StoreFile(<<"temp", p>>, [state |-> "empty", by |-> <<0, 0>>, env |-> <<>>])
      \/ /\ procs' = [procs EXCEPT ![p] = [pr EXCEPT !.failed = TRUE, !.pc = "interpret"]]
         /\ UNCHANGED files
      \/ \E pc \in {"execute", "compile"} :
            procs' = [procs EXCEPT ![p] = [at EXCEPT !.pc = pc]] /\ UNCHANGED files
  BY DEF Lookup, key
<1> HIDE DEF at
<1>6. ASSUME NEW r, DOMAIN r = Fields,
             \A x \in {"command", "revision", "read", "shown", "status", "env"} : r[x] = pr[x],
             \/ r.pc = "interpret"
             \/ r.pc = "execute" /\ r.path[1] = "temp" /\ ~CacheOn(r.env)
             \/ r.pc \in {"execute", "compile"} /\ r.path = key,
             procs' = [procs EXCEPT ![p] = r], FilesInv'
      PROVE  DriverInv'
  <2>1. /\ r.command = "run" /\ r.revision = pr.revision /\ r.read = pr.read /\ r.shown = <<>>
        /\ r.status # 137 /\ r.env = pr.env
    BY <1>2, <1>6
  <2>2. r.path = key => Keyed(r)
    BY <1>3, <2>1 DEF Keyed
  <2>3. ProcInv(r, texts)
    BY <1>2, <1>6, <2>1, <2>2, NothingShown DEF ProcInv, Building
  <2>4. QED
    BY <1>1, <1>6, <2>3, ProcMoves
<1>7. CASE /\ ~CacheOn(pr.env)
           /\ procs' = [procs EXCEPT ![p] = [pr EXCEPT !.path = <<"temp", p>>, !.pc = "execute"]]
           /\ StoreFile(<<"temp", p>>, [state |-> "empty", by |-> <<0, 0>>, env |-> <<>>])
  <2> DEFINE r == [pr EXCEPT !.path = <<"temp", p>>, !.pc = "execute"]
  <2>1. FileInv(<<"temp", p>>, [state |-> "empty", by |-> <<0, 0>>, env |-> <<>>])
    BY DEF FileInv
  <2>2. FilesInv'
    BY <1>2, <1>7, <2>1, PutFile
  <2>3. DOMAIN r = Fields /\ r.pc = "execute" /\ r.path[1] = "temp"
          /\ \A x \in {"command", "revision", "read", "shown", "status", "env"} : r[x] = pr[x]
    BY <1>2 DEF Fields
  <2> HIDE DEF r
  <2>4. QED
    BY <1>6, <1>7, <2>2, <2>3 DEF r
<1>8. CASE /\ procs' = [procs EXCEPT ![p] = [pr EXCEPT !.failed = TRUE, !.pc = "interpret"]]
           /\ UNCHANGED files
  <2> DEFINE r == [pr EXCEPT !.failed = TRUE, !.pc = "interpret"]
  <2>1. FilesInv'
    BY <1>2, <1>8, KeepFiles
  <2>2. DOMAIN r = Fields /\ r.pc = "interpret"
          /\ \A x \in {"command", "revision", "read", "shown", "status", "env"} : r[x] = pr[x]
    BY <1>2 DEF Fields
  <2> HIDE DEF r
  <2>3. QED
    BY <1>6, <1>8, <2>1, <2>2 DEF r
<1>9. ASSUME NEW pc \in {"execute", "compile"},
             procs' = [procs EXCEPT ![p] = [at EXCEPT !.pc = pc]], UNCHANGED files
      PROVE  DriverInv'
  <2> DEFINE r == [at EXCEPT !.pc = pc]
  <2>1. FilesInv'
    BY <1>2, <1>9, KeepFiles
  <2>2. DOMAIN r = Fields /\ r.pc = pc /\ r.path = key
          /\ \A x \in {"command", "revision", "read", "shown", "status", "env"} : r[x] = pr[x]
    BY <1>4 DEF Fields
  <2> HIDE DEF r
  <2>3. QED
    BY <1>6, <1>9, <2>1, <2>2 DEF r
<1>10. QED
  BY <1>5, <1>7, <1>8, <1>9

\* A binary that is executed is the one its key tells, ...
LEMMA ExecuteStep ==
  ASSUME DriverInv, NEW p \in Procs, ExecuteBinary(p)
  PROVE  DriverInv'
<1> DEFINE pr == procs[p]
           file == files[pr.path]
           native == [how |-> "native", by |-> file.by, env |-> file.env]
           showing == [pr EXCEPT !.shown = Append(@, native)]
<1>1. pr.pc = "execute" /\ texts' = texts
  BY DEF ExecuteBinary
<1>2. /\ DOMAIN pr = Fields /\ pr.read \in 0..Len(texts) /\ pr.shown = <<>> /\ FilesInv
      /\ Keyed(pr) \/ pr.path[1] = "temp"
      /\ Len(texts) \in Nat /\ pr.status # 137 /\ DOMAIN pr.env = EnvNames /\ pr.command = "run"
  BY <1>1, Unended DEF DriverInv, ProcInv
<1>3. \/ \E n \in {126, 127} : EndProcess(p, pr, n)
      \/ /\ pr.path \in DOMAIN files /\ file.state = "whole"
         /\ \/ \E n \in {0, 1} : EndProcess(p, showing, n)
            \/ /\ pr.failed /\ procs' = [procs EXCEPT ![p] = [showing EXCEPT !.pc = "interpret"]]
               /\ UNCHANGED files
  BY DEF ExecuteBinary
<1>4. ASSUME NEW n \in {126, 127}, EndProcess(p, pr, n) PROVE DriverInv'
  <2> DEFINE r == [pr EXCEPT !.pc = "ended", !.status = n]
  <2>1. r.shown = <<>>
    BY <1>2 DEF Fields
  <2> HIDE DEF r
  <2>2. RunShown(r)
    BY <2>1, NothingShown
  <2>3. QED
    BY <1>1, <1>2, <1>4, <2>2, EndedStep DEF r
<1>5. CASE /\ pr.path \in DOMAIN files /\ file.state = "whole"
           /\ \/ \E n \in {0, 1} : EndProcess(p, showing, n)
              \/ /\ pr.failed /\ procs' = [procs EXCEPT ![p] = [showing EXCEPT !.pc = "interpret"]]
                 /\ UNCHANGED files
  <2>1. native.by = CSource(pr.read, pr.revision) /\ Named(native.env) = Named(pr.env)
    BY <1>2, <1>5 DEF FilesInv, FileInv, Keyed
  <2>2. native.how = "native"
    OBVIOUS
  <2> HIDE DEF native
  <2>3. showing = [pr EXCEPT !.shown = <<native>>]
    BY <1>2
  <2>4. DOMAIN showing = Fields /\ showing.shown = <<native>>
          /\ \A x \in Fields : x # "shown" => showing[x] = pr[x]
    BY <1>2, <2>3 DEF Fields
  <2> HIDE DEF showing
  <2>5. ASSUME NEW r, r.shown = <<native>>, r.read = pr.read, r.revision = pr.revision, r.env = pr.env
        PROVE  RunShown(r)
    BY <2>1, <2>2, <2>5 DEF RunShown
  <2>6. showing.read \in 0..Len(texts)
    BY <1>2, <2>4 DEF Fields
  <2>7. ASSUME NEW n \in {0, 1}, EndProcess(p, showing, n) PROVE DriverInv'
    <3> DEFINE r == [showing EXCEPT !.pc = "ended", !.status = n]
    <3>1. r.shown = <<native>> /\ r.read = pr.read /\ r.revision = pr.revision /\ r.env = pr.env
      BY <2>4 DEF Fields
    <3> HIDE DEF r
    <3>2. RunShown(r)
      BY <2>5, <3>1
    <3>3. QED
      BY <1>1, <2>4, <2>6, <2>7, <3>2, EndedStep DEF r
  <2>8. CASE /\ pr.failed /\ procs' = [procs EXCEPT ![p] = [showing EXCEPT !.pc = "interpret"]]
             /\ UNCHANGED files
    <3> DEFINE r == [showing EXCEPT !.pc = "interpret"]
    <3>1. /\ DOMAIN r = Fields /\ r.pc = "interpret" /\ r.shown = <<native>> /\ r.read = pr.read
          /\ r.revision = pr.revision /\ r.env = pr.env /\ r.status = pr.status
          /\ r.command = pr.command /\ r.failed = pr.failed
      BY <2>4 DEF Fields
    <3>2. FilesInv' /\ procs' = [procs EXCEPT ![p] = r]
      BY <1>2, <2>8, KeepFiles
    <3> HIDE DEF r
    <3>3. RunShown(r)
      BY <2>5, <3>1
    <3>4. ShownNative(r)
      BY <2>2, <2>8, <3>1 DEF ShownNative
    <3>5. ProcInv(r, texts)
      BY <1>2, <3>1, <3>3, <3>4 DEF ProcInv, Building
    <3>6. QED
      BY <1>1, <3>2, <3>5, ProcMoves
  <2>9. QED
    BY <1>5, <2>7, <2>8
<1>6. QED
  BY <1>3, <1>4, <1>5

\* What the interpreter shows comes after what is shown.
LEMMA InterpretShows ==
  ASSUME DriverInv, NEW p \in Procs, procs[p].pc = "interpret", NEW output
  PROVE  \/ procs[p].shown = <<>> /\ Append(procs[p].shown, output) = <<output>>
         \/ /\ procs[p].failed
            /\ \E native : /\ procs[p].shown = <<native>> /\ native.how = "native"
                           /\ Append(procs[p].shown, output) = <<native, output>>
<1>1. CASE procs[p].shown = <<>>
  BY <1>1
<1>2. ASSUME procs[p].failed, NEW native, procs[p].shown = <<native>>, native.how = "native"
      PROVE  Append(procs[p].shown, output) = <<native, output>>
  <2> DEFINE S == {native, output}
             both == Append(<<native>>, output)
  <2>1. <<native>> \in Seq(S) /\ Len(<<native>>) = 1 /\ output \in S
    OBVIOUS
  <2>2. both \in Seq(S) /\ Len(both) = 2 /\ both[1] = native /\ both[2] = output
    BY <2>1, AppendProperties
  <2>3. <<native, output>> \in Seq(S) /\ Len(<<native, output>>) = 2
    OBVIOUS
  <2> HIDE DEF both
  <2>4. both = <<native, output>>
    BY <2>2, <2>3, SeqEqual
  <2>5. QED
    BY <1>2, <2>4 DEF both
<1>3. QED
  BY <1>1, <1>2 DEF DriverInv, ProcInv, ShownNative

\* ... and the interpreter shows the output of no binary.
LEMMA InterpretStep ==
  ASSUME DriverInv, NEW p \in Procs, Interpret(p)
  PROVE  DriverInv'
<1> DEFINE pr == procs[p]
           output == [how |-> "interpreted", by |-> <<Current, procs[p].revision>>]
           showing == [procs[p] EXCEPT !.shown = Append(@, output)]
<1>1. pr.pc = "interpret" /\ texts' = texts /\ EndProcess(p, showing, 0)
  BY DEF Interpret
<1>2. DOMAIN pr = Fields /\ pr.read \in 0..Len(texts) /\ RunShown(pr)
  BY <1>1, Unended DEF DriverInv, ProcInv
<1>3. output.how # "native"
  OBVIOUS
<1> HIDE DEF output
<1>4. DOMAIN showing = Fields /\ showing.shown = Append(pr.shown, output)
        /\ \A x \in Fields : x # "shown" => showing[x] = pr[x]
  BY <1>2 DEF Fields
<1> HIDE DEF showing
<1> DEFINE r == [showing EXCEPT !.pc = "ended", !.status = 0]
<1>5. /\ r.shown = Append(pr.shown, output) /\ r.read = pr.read /\ r.revision = pr.revision
      /\ r.env = pr.env
  BY <1>4 DEF Fields
<1> HIDE DEF r
<1>6. RunShown(r)
  <2>1. CASE pr.shown = <<>> /\ Append(pr.shown, output) = <<output>>
    BY <1>3, <1>5, <2>1 DEF RunShown
  <2>2. ASSUME NEW native, pr.shown = <<native>>, Append(pr.shown, output) = <<native, output>>
        PROVE  RunShown(r)
    BY <1>2, <1>3, <1>5, <2>2 DEF RunShown
  <2>3. QED
    BY <1>1, <2>1, <2>2, InterpretShows
<1>7. showing.read \in 0..Len(texts)
  BY <1>2, <1>4 DEF Fields
<1>8. QED
  BY <1>1, <1>4, <1>6, <1>7, EndedStep DEF r

\* The environment of a block is set for it alone.
LEMMA Overridden ==
  ASSUME NEW r, DOMAIN r = Fields, DOMAIN r.env = EnvNames, r.status # 137, NEW mode
  PROVE  /\ Builds(r, Override(r, mode)) /\ Override(r, mode).pc = r.pc
         /\ Override(r, mode).saved = r.env
<1> DEFINE o == Override(r, mode)
<1>1. DOMAIN o = Fields /\ o.pc = r.pc /\ o.saved = r.env /\ o.status = r.status
        /\ \A x \in Kept : o[x] = r[x]
  BY DEF Override, Kept, Fields
<1>2. DOMAIN o.env = EnvNames /\ Named(o.env) = Named(r.env)
  BY DEF Override, Fields, EnvNames, Named
<1>3. QED
  BY <1>1, <1>2 DEF Builds

\* Building: the first build of the cycle, ...
LEMMA CompileStep ==
  ASSUME DriverInv, NEW p \in Procs, CompileBinary(p)
  PROVE  DriverInv'
<1> DEFINE pr == procs[p]
           counting == Override(pr, "instrument")
<1>1. pr.pc = "compile" /\ texts' = texts /\ UNCHANGED files
  BY DEF CompileBinary
<1>2. /\ DOMAIN pr = Fields /\ FilesInv' /\ pr.pc \in Building /\ DOMAIN pr.env = EnvNames
      /\ pr.status # 137
  BY <1>1, Unended, KeepFiles DEF Building
<1>3. \/ procs' = [procs EXCEPT ![p] = [pr EXCEPT !.saved = pr.env, !.pc = "begin"]]
      \/ procs' = [procs EXCEPT ![p] = [pr EXCEPT !.pc = "train"]]
      \/ procs' = [procs EXCEPT ![p] = [counting EXCEPT !.failed = TRUE, !.pc = "begin"]]
  BY DEF CompileBinary, GoesTo
<1>4. Builds(pr, counting) /\ counting.saved = pr.env
  BY <1>2, Overridden
<1> HIDE DEF counting
<1>5. CASE procs' = [procs EXCEPT ![p] = [pr EXCEPT !.saved = pr.env, !.pc = "begin"]]
  <2> DEFINE r == [pr EXCEPT !.saved = pr.env, !.pc = "begin"]
  <2>1. Builds(pr, r) /\ r.pc = "begin" /\ r.saved = pr.env
    BY <1>2 DEF Builds, Kept, Fields
  <2>2. procs' = [procs EXCEPT ![p] = r]
    BY <1>5
  <2> HIDE DEF r
  <2>3. Staged(r)
    BY <1>2, <2>1 DEF Builds, Staged, Building
  <2>4. QED
    BY <1>1, <1>2, <2>1, <2>2, <2>3, BuildMoves
<1>6. CASE procs' = [procs EXCEPT ![p] = [pr EXCEPT !.pc = "train"]]
  <2> DEFINE r == [pr EXCEPT !.pc = "train"]
  <2>1. Builds(pr, r) /\ r.pc = "train"
    BY <1>2 DEF Builds, Kept, Fields
  <2>2. procs' = [procs EXCEPT ![p] = r]
    BY <1>6
  <2> HIDE DEF r
  <2>3. Staged(r)
    BY <2>1 DEF Staged, Building
  <2>4. QED
    BY <1>1, <1>2, <2>1, <2>2, <2>3, BuildMoves
<1>7. CASE procs' = [procs EXCEPT ![p] = [counting EXCEPT !.failed = TRUE, !.pc = "begin"]]
  <2> DEFINE r == [counting EXCEPT !.failed = TRUE, !.pc = "begin"]
  <2>1. Builds(pr, r) /\ r.pc = "begin" /\ r.saved = pr.env
    BY <1>4 DEF Builds, Kept, Fields
  <2>2. procs' = [procs EXCEPT ![p] = r]
    BY <1>7
  <2> HIDE DEF r
  <2>3. Staged(r)
    BY <1>2, <2>1 DEF Builds, Staged, Building
  <2>4. QED
    BY <1>1, <1>2, <2>1, <2>2, <2>3, BuildMoves
<1>8. QED
  BY <1>3, <1>5, <1>6, <1>7

\* ... the training runs, ...
LEMMA TrainStep ==
  ASSUME DriverInv, NEW p \in Procs, Train(p)
  PROVE  DriverInv'
<1> DEFINE pr == procs[p]
           done == [pr EXCEPT !.pc = "merge"]
           gone == [[pr EXCEPT !.saved = pr.env] EXCEPT !.pc = "begin"]
<1>1. pr.pc = "train" /\ texts' = texts /\ UNCHANGED files
  BY DEF Train
<1>2. /\ DOMAIN pr = Fields /\ FilesInv' /\ pr.pc \in Building /\ DOMAIN pr.env = EnvNames
      /\ pr.status # 137
  BY <1>1, Unended, KeepFiles DEF Building
<1>3. \E r \in {done, gone} : procs' = [procs EXCEPT ![p] = r]
  BY DEF Train, GoesTo
<1>4. Builds(pr, done) /\ Staged(done)
  BY <1>2 DEF Builds, Staged, Building, Kept, Fields
<1>5. Builds(pr, gone) /\ Staged(gone)
  BY <1>2 DEF Builds, Staged, Building, Kept, Fields
<1> HIDE DEF done, gone
<1>6. PICK r \in {done, gone} : procs' = [procs EXCEPT ![p] = r]
  BY <1>3
<1>7. QED
  BY <1>1, <1>2, <1>4, <1>5, <1>6, BuildMoves

\* ... what they have counted, ...
LEMMA MergeStep ==
  ASSUME DriverInv, NEW p \in Procs, Merge(p)
  PROVE  DriverInv'
<1> DEFINE pr == [procs[p] EXCEPT !.saved = procs[p].env, !.pc = "begin"]
           override == Override(pr, "use")
           using == [override EXCEPT !.optimizing = TRUE]
<1>1. procs[p].pc = "merge" /\ texts' = texts /\ UNCHANGED files
  BY DEF Merge
<1>2. /\ DOMAIN procs[p] = Fields /\ FilesInv' /\ procs[p].pc \in Building
      /\ DOMAIN procs[p].env = EnvNames /\ procs[p].status # 137
  BY <1>1, Unended, KeepFiles DEF Building
<1>3. \E r \in {pr, using} : procs' = [procs EXCEPT ![p] = r]
  BY DEF Merge
<1>4. Builds(procs[p], pr) /\ pr.pc = "begin" /\ pr.saved = procs[p].env /\ pr.env = procs[p].env
  BY <1>2 DEF Builds, Kept, Fields
<1> HIDE DEF pr
<1>5. Builds(pr, override) /\ override.pc = "begin" /\ override.saved = pr.env
  BY <1>2, <1>4, Overridden DEF Builds
<1> HIDE DEF override
<1>6. Builds(procs[p], using) /\ using.pc = "begin" /\ using.saved = procs[p].env
  BY <1>4, <1>5 DEF Builds, Kept, Fields
<1> HIDE DEF using
<1>7. Staged(pr) /\ Staged(using)
  BY <1>2, <1>4, <1>6 DEF Builds, Staged, Building
<1>8. PICK r \in {pr, using} : procs' = [procs EXCEPT ![p] = r]
  BY <1>3
<1>9. QED
  BY <1>1, <1>2, <1>4, <1>6, <1>7, <1>8, BuildMoves

\* ... the output begun, ...
LEMMA LinkBeginStep ==
  ASSUME DriverInv, NEW p \in Procs, LinkBegin(p)
  PROVE  DriverInv'
<1> DEFINE pr == procs[p]
           r == [pr EXCEPT !.pc = "link"]
<1>1. pr.pc = "begin" /\ texts' = texts /\ procs' = [procs EXCEPT ![p] = r]
        /\ StoreFile(pr.path, [state |-> "partial", by |-> <<0, 0>>, env |-> <<>>])
  BY DEF LinkBegin, GoesTo
<1>2. /\ DOMAIN pr = Fields /\ FilesInv /\ pr.pc \in Building /\ DOMAIN pr.env = EnvNames
      /\ pr.status # 137 /\ DOMAIN pr.saved = EnvNames /\ Named(pr.saved) = Named(pr.env)
  BY <1>1, Unended DEF Building, DriverInv, ProcInv
<1>3. FileInv(pr.path, [state |-> "partial", by |-> <<0, 0>>, env |-> <<>>])
  BY DEF FileInv
<1>4. FilesInv'
  BY <1>1, <1>2, <1>3, PutFile
<1>5. Builds(pr, r) /\ Staged(r)
  BY <1>2 DEF Builds, Staged, Building, Kept, Fields
<1> HIDE DEF r
<1>6. QED
  BY <1>1, <1>2, <1>4, <1>5, BuildMoves

\* ... and written, under the key of what it was made of, or removed.
LEMMA LinkEndStep ==
  ASSUME DriverInv, NEW p \in Procs, LinkEnd(p)
  PROVE  DriverInv'
<1> DEFINE pr == procs[p]
           after == [pr EXCEPT !.env = pr.saved, !.optimizing = FALSE]
           binary == [state |-> "whole", by |-> CSource(pr.read, pr.revision), env |-> pr.env]
           pc(stage) == IF pr.command = "run" THEN stage ELSE "ended"
           built == [after EXCEPT !.pc = pc("execute")]
           again == [pr EXCEPT !.optimizing = FALSE, !.failed = TRUE, !.pc = "begin"]
           failed == [after EXCEPT !.failed = TRUE, !.status = 1, !.pc = pc("interpret")]
<1>1. pr.pc = "link" /\ texts' = texts
  BY DEF LinkEnd
<1>2. /\ DOMAIN pr = Fields /\ FilesInv /\ pr.pc \in Building /\ ProcInv(pr, texts)
      /\ DOMAIN pr.env = EnvNames /\ pr.status # 137 /\ pr.shown = <<>>
      /\ DOMAIN pr.saved = EnvNames /\ Named(pr.saved) = Named(pr.env)
      /\ \/ pr.command = "run" /\ Keyed(pr)
         \/ pr.command = "build" /\ pr.path = OutputPath
  BY <1>1, Unended DEF Building, DriverInv, ProcInv
<1>3. \/ StoreFile(pr.path, binary) /\ procs' = [procs EXCEPT ![p] = built]
      \/ procs' = [procs EXCEPT ![p] = again] /\ files' = Removed(pr.path)
      \/ procs' = [procs EXCEPT ![p] = failed] /\ files' = Removed(pr.path)
  BY DEF LinkEnd
<1>4. Builds(pr, again) /\ Staged(again)
  BY <1>2 DEF Builds, Staged, Building, Kept, Fields
<1>5. Builds(pr, after)
  BY <1>2 DEF Builds, Kept, Fields
<1> HIDE DEF after, pc
<1>6. Builds(pr, built) /\ built.pc = pc("execute")
  BY <1>5 DEF Builds, Kept, Fields
<1>7. Builds(pr, failed) /\ failed.pc = pc("interpret")
  BY <1>5 DEF Builds, Kept, Fields
<1> HIDE DEF built, again, failed
<1>8. ASSUME NEW r, NEW stage \in {"execute", "interpret"}, r.pc = pc(stage), Builds(pr, r),
             procs' = [procs EXCEPT ![p] = r], FilesInv'
      PROVE  DriverInv'
  <2>1. /\ r.command = pr.command /\ r.revision = pr.revision /\ r.read = pr.read
        /\ r.path = pr.path /\ r.shown = <<>> /\ Named(r.env) = Named(pr.env)
    BY <1>2, <1>8 DEF Kept, Builds
  <2>2. r.pc = IF r.command = "run" THEN stage ELSE "ended"
    BY <1>8, <2>1 DEF pc
  <2>3. Keyed(pr) => Keyed(r)
    BY <2>1 DEF Keyed
  <2>4. ProcInv(r, texts)
    BY <1>1, <1>2, <1>8, <2>1, <2>2, <2>3, NothingShown DEF ProcInv, Building, Builds
  <2>5. QED
    BY <1>1, <1>8, <2>4, ProcMoves
<1>9. CASE StoreFile(pr.path, binary) /\ procs' = [procs EXCEPT ![p] = built]
  <2>1. binary.by = CSource(pr.read, pr.revision) /\ binary.env = pr.env
    OBVIOUS
  <2> HIDE DEF binary
  <2>2. FileInv(pr.path, binary)
    BY <1>2, <2>1 DEF FileInv, Keyed, OutputPath
  <2>3. FilesInv'
    BY <1>2, <1>9, <2>2, PutFile
  <2>4. QED
    BY <1>6, <1>8, <1>9, <2>3
<1>10. CASE procs' = [procs EXCEPT ![p] = again] /\ files' = Removed(pr.path)
  <2>1. FilesInv'
    BY <1>2, <1>10, RemoveFile
  <2>2. QED
    BY <1>1, <1>2, <1>4, <1>10, <2>1, BuildMoves
<1>11. CASE procs' = [procs EXCEPT ![p] = failed] /\ files' = Removed(pr.path)
  <2>1. FilesInv'
    BY <1>2, <1>11, RemoveFile
  <2>2. QED
    BY <1>7, <1>8, <1>11, <2>1
<1>12. QED
  BY <1>3, <1>9, <1>10, <1>11

-----------------------------------------------------------------------------
(* The invariant *)

\* A later version of the source changes nothing that was read.
LEMMA EditStep ==
  ASSUME DriverInv, Edit
  PROVE  DriverInv'
<1>1. PICK k \in Kinds : texts' = Append(texts, k)
  BY DEF Edit
<1>2. UNCHANGED <<files, procs>> /\ FilesInv'
  BY KeepFiles DEF Edit, DriverInv
<1>3. /\ texts' \in Seq(Kinds) /\ Len(texts') = Len(texts) + 1 /\ Len(texts) \in Nat
      /\ \A i \in 1..Len(texts) : texts'[i] = texts[i]
  BY <1>1, AppendProperties, LenProperties DEF DriverInv
<1>4. ASSUME NEW p \in Procs PROVE ProcInv(procs[p], texts')
  <2> DEFINE r == procs[p]
  <2>1. ProcInv(r, texts)
    BY DEF DriverInv
  <2> HIDE DEF r
  <2>2. r.read \in 0..Len(texts) /\ r.read \in 0..Len(texts')
    BY <1>3, <2>1 DEF ProcInv
  <2>3. ProcInv(r, texts')
    BY <2>1, <2>2 DEF ProcInv
  <2>4. QED
    BY <2>3 DEF r
<1>5. QED
  BY <1>2, <1>3, <1>4 DEF DriverInv

\* A process that is killed has shown what it has.
LEMMA KillStep ==
  ASSUME DriverInv, NEW p \in Procs, Kill(p)
  PROVE  DriverInv'
<1> DEFINE r == [procs[p] EXCEPT !.pc = "ended", !.status = 137]
<1>1. procs[p].pc # "ended" /\ texts' = texts /\ UNCHANGED files /\ procs' = [procs EXCEPT ![p] = r]
  BY DEF Kill, DriverInv
<1>2. DOMAIN procs[p] = Fields /\ procs[p].read \in 0..Len(texts) /\ FilesInv'
  BY <1>1, Unended, KeepFiles
<1>3. /\ DOMAIN r = Fields /\ r.pc = "ended"
      /\ \A x \in {"command", "read", "revision", "env", "shown"} : r[x] = procs[p][x]
  BY <1>2 DEF Fields
<1> HIDE DEF r
<1>4. r.command = "run" => RunShown(r)
  BY <1>3 DEF DriverInv, ProcInv, RunShown
<1>5. ProcInv(r, texts)
  BY <1>2, <1>3, <1>4 DEF ProcInv, Building
<1>6. QED
  BY <1>1, <1>2, <1>5, ProcMoves

\* The invariant holds at the start, ...
LEMMA DriverStart == DriverInit => DriverInv
<1> SUFFICES ASSUME DriverInit PROVE DriverInv
  OBVIOUS
<1>1. PICK k \in Kinds : texts = <<k>>
  BY DEF DriverInit
<1>2. texts \in Seq(Kinds) /\ Len(texts) = 1
  BY <1>1
<1>3. FilesInv
  BY DEF DriverInit, FilesInv
<1>4. ASSUME NEW p \in Procs PROVE ProcInv(procs[p], texts)
  <2> DEFINE r == [pc |-> "idle", command |-> "", given |-> ParseLine(NoCommand).given,
                   revision |-> 0, env |-> <<>>, saved |-> <<>>, read |-> 0,
                   path |-> <<>>, optimizing |-> FALSE, failed |-> FALSE, shown |-> <<>>,
                   status |-> 0]
  <2>1. procs[p] = r
    BY DEF DriverInit
  <2>2. DOMAIN r = Fields
    BY Zenon DEF Fields
  <2>3. r.pc = "idle" /\ r.read = 0 /\ r.shown = <<>> /\ r.path = <<>> /\ r.status = 0
    OBVIOUS
  <2> HIDE DEF r
  <2>4. QED
    BY <1>2, <2>1, <2>2, <2>3, NothingShown DEF ProcInv, Building
<1>5. QED
  BY <1>2, <1>3, <1>4 DEF DriverInv, DriverInit

\* ... every step keeps it, ...
LEMMA DriverStep == DriverInv /\ [DriverNext]_driverVars => DriverInv'
<1> SUFFICES ASSUME DriverInv, [DriverNext]_driverVars PROVE DriverInv'
  OBVIOUS
<1>1. CASE Edit
  BY <1>1, EditStep
<1>2. ASSUME NEW p \in Procs, StartProcess(p) \/ ProcStep(p) \/ Kill(p) PROVE DriverInv'
  BY <1>2, StartStep, FrontStep, TranslateStep, LookupStep, ExecuteStep, InterpretStep, CompileStep,
     TrainStep, MergeStep, LinkBeginStep, LinkEndStep, KillStep DEF ProcStep
<1>3. CASE UNCHANGED driverVars
  BY <1>3 DEF driverVars, DriverInv, FilesInv
<1>4. QED
  BY <1>1, <1>2, <1>3 DEF DriverNext

\* ... and so it holds always.
LEMMA DriverSafe == DriverSpec => []DriverInv
BY DriverStart, DriverStep, PTL DEF DriverSpec

\* A binary that a run executes was compiled from the C source which this
\* sparkc makes of the text this run has read, whoever put it into the cache.
THEOREM OwnBinaryCorrect == DriverSpec => []OwnBinary
<1>1. DriverInv => OwnBinary
  BY DEF DriverInv, ProcInv, RunShown, OwnBinary, Ran, Over
<1>2. QED
  BY <1>1, DriverSafe, PTL


-----------------------------------------------------------------------------
(* The binaries of the cache *)

\* Somebody writes binary f or was killed over it.
Held(f) == \E q \in Procs : procs[q].path = f /\ (procs[q].pc = "link" \/ procs[q].status = 137)
CacheInv == \A f \in DOMAIN files : f[1] = "cache" => files[f].state = "whole" \/ Held(f)

\* What a run is about to execute is whole, or somebody spoils it.
Whole(f) == f \in DOMAIN files /\ files[f].state = "whole"
ReadyInv ==
    \A p \in Procs : procs[p].pc = "execute" /\ Keyed(procs[p]) => Whole(procs[p].path) \/ Spoiled(p)

SharedInv == DriverInv /\ CacheInv /\ ReadyInv

\* A process q that becomes b keeps its binary and its failure, ...
Frame(q, b) ==
    /\ procs' = [procs EXCEPT ![q] = b] /\ DOMAIN procs = Procs
    /\ procs[q].pc # "ended" /\ procs[q].status # 137
    /\ procs[q].path # <<>> => b.path = procs[q].path
    /\ procs[q].failed => b.failed
\* ... and leaves the cache alone (every file of it is left as it is), begins a binary, has built it, has failed, or
\* is killed.
Left(f) ==
    /\ (f \in DOMAIN files') <=> (f \in DOMAIN files)
    /\ (f \in DOMAIN files) => (files'[f] = files[f])
Aside(q, b) ==
    /\ procs[q].pc # "link" /\ b.pc # "link"
    /\ \A f : f[1] = "cache" => Left(f)
    /\ (b.pc = "execute" /\ b.path[1] = "cache") => (procs[q].pc = "lookup" /\ b.path \in DOMAIN files)
Begun(q, b) ==
    /\ b.pc = "link" /\ b.path = procs[q].path /\ procs[q].pc # "link"
    /\ StoreFile(b.path, [state |-> "partial", by |-> <<0, 0>>, env |-> <<>>])
Built(q, b) ==
    /\ procs[q].pc = "link" /\ b.pc # "link" /\ b.path = procs[q].path
    /\ \E made : made.state = "whole" /\ StoreFile(b.path, made)
Failed(q, b) ==
    /\ procs[q].pc = "link" /\ b.pc \notin {"link", "execute"} /\ b.path = procs[q].path
    /\ b.failed /\ files' = Removed(b.path)
Killed(q, b) ==
    b.pc = "ended" /\ b.status = 137 /\ b.path = procs[q].path /\ UNCHANGED files
Moved(q, b) ==
    Frame(q, b) /\ (Aside(q, b) \/ Begun(q, b) \/ Built(q, b) \/ Failed(q, b) \/ Killed(q, b))

\* A file that is not in the cache is none of the cache.
LEMMA StoreAside ==
  ASSUME NEW f, NEW content, StoreFile(f, content), f[1] # "cache", NEW g, g[1] = "cache"
  PROVE  Left(g)
BY DEF StoreFile, Left
LEMMA RemoveAside ==
  ASSUME NEW f, files' = Removed(f), f[1] # "cache", NEW g, g[1] = "cache"
  PROVE  Left(g)
BY DEF Removed, Left

\* A process that ends leaves the cache alone.
LEMMA EndMoved ==
  ASSUME DriverInv, NEW q \in Procs, procs[q].pc \notin {"ended", "link"}, NEW r, NEW n,
         DOMAIN r = Fields, r.path = procs[q].path \/ procs[q].path = <<>>,
         procs[q].failed => r.failed, EndProcess(q, r, n)
  PROVE  \E b : Moved(q, b)
<1> DEFINE b == [r EXCEPT !.pc = "ended", !.status = n]
<1>1. procs' = [procs EXCEPT ![q] = b] /\ files' = Removed(<<"temp", q>>)
  BY DEF EndProcess
<1>2. b.pc = "ended" /\ b.path = r.path /\ b.failed = r.failed
  BY DEF Fields
<1> HIDE DEF b
<1>3. Frame(q, b)
  BY <1>1, <1>2, Unended DEF Frame, DriverInv
<1>4. Aside(q, b)
  BY <1>1, <1>2, RemoveAside DEF Aside
<1>5. QED
  BY <1>3, <1>4 DEF Moved

\* So does one that goes on without a file.
LEMMA KeepMoved ==
  ASSUME DriverInv, NEW q \in Procs, procs[q].pc \notin {"ended", "link"}, NEW b,
         procs' = [procs EXCEPT ![q] = b], UNCHANGED files,
         b.path = procs[q].path \/ procs[q].path = <<>>, procs[q].failed => b.failed,
         b.pc # "link", b.pc = "execute" => procs[q].pc = "lookup" /\ b.path \in DOMAIN files
  PROVE  \E c : Moved(q, c)
<1>1. Frame(q, b)
  BY Unended DEF Frame, DriverInv
<1>2. Aside(q, b)
  BY DEF Aside, Left
<1>3. QED
  BY <1>1, <1>2 DEF Moved

\* Up to the verdict on the text, ...
LEMMA StartMoved ==
  ASSUME DriverInv, NEW q \in Procs, StartProcess(q)
  PROVE  \E b : Moved(q, b)
<1> DEFINE known(job) == job.line.command \in {"run", "build", "compile", "parse", "check", "analyze"}
           parsed(job) == IF known(job) THEN ParseLine(job.line)
                          ELSE [ParseLine(NoCommand) EXCEPT !.file = job.line.command,
                                                            !.accepted = TRUE]
           started(job) == [procs[q] EXCEPT
                              !.command = IF known(job) THEN job.line.command ELSE "run",
                              !.given = parsed(job).given, !.revision = job.revision,
                              !.env = job.env]
<1>1. procs[q].pc = "idle"
  BY DEF StartProcess
<1>2. PICK job \in Jobs[q] :
        \/ (procs' = [procs EXCEPT ![q] = [started(job) EXCEPT !.pc = "front"]] /\ UNCHANGED files)
        \/ EndProcess(q, started(job), 1)
  BY DEF StartProcess
<1>3. DOMAIN procs[q] = Fields
  BY <1>1, Unended
<1> DEFINE r == started(job)
           b == [r EXCEPT !.pc = "front"]
<1>4. (procs' = [procs EXCEPT ![q] = b] /\ UNCHANGED files) \/ EndProcess(q, r, 1)
  BY <1>2
<1>5. DOMAIN r = Fields /\ r.path = procs[q].path /\ r.failed = procs[q].failed
  BY <1>3 DEF Fields
<1> HIDE DEF r
<1>6. b.path = procs[q].path /\ b.failed = procs[q].failed /\ b.pc = "front"
  BY <1>5 DEF Fields
<1> HIDE DEF b
<1>7. QED
  BY <1>1, <1>4, <1>5, <1>6, EndMoved, KeepMoved

LEMMA FrontMoved ==
  ASSUME DriverInv, NEW q \in Procs, FrontEnd(q)
  PROVE  \E b : Moved(q, b)
<1> DEFINE pr == procs[q]
           tuned == [pr EXCEPT !.env = ApplyTuning(pr.given, pr.env), !.read = Current]
           built == [pr EXCEPT !.env = ApplyTuning(pr.given, pr.env), !.read = Current,
                               !.path = OutputPath]
           to(r, pc) == [r EXCEPT !.pc = pc]
<1>1. pr.pc = "front"
  BY DEF FrontEnd
<1>2. DOMAIN pr = Fields /\ pr.path = <<>>
  BY <1>1, Unended DEF DriverInv, ProcInv
<1>3. DOMAIN tuned = Fields /\ tuned.failed = pr.failed
  BY <1>2 DEF Fields
<1>4. DOMAIN built = Fields /\ built.failed = pr.failed
  BY <1>2 DEF Fields
<1>5. \/ \E r \in {pr, tuned, built}, n \in {0, 1} : EndProcess(q, r, n)
      \/ \E r \in {pr, tuned, built}, pc \in {"interpret", "lookup", "compile", "translate"} :
            procs' = [procs EXCEPT ![q] = to(r, pc)] /\ UNCHANGED files
      \/ /\ procs' = [procs EXCEPT ![q] = to(built, "ended")]
         /\ StoreFile(OutputPath, [state |-> "launcher", by |-> <<0, 0>>, env |-> <<>>])
  BY DEF FrontEnd, RunFront, BuildFront, CompileFront, Inspect, GoesTo
<1> HIDE DEF tuned, built
<1>6. ASSUME NEW r \in {pr, tuned, built}
      PROVE  DOMAIN r = Fields /\ r.failed = pr.failed
  BY <1>2, <1>3, <1>4
<1>7. ASSUME NEW r \in {pr, tuned, built}, NEW pc
      PROVE  to(r, pc).failed = pr.failed /\ to(r, pc).pc = pc
  BY <1>6 DEF Fields
<1> HIDE DEF to
<1>8. ASSUME NEW r \in {pr, tuned, built}, NEW n, EndProcess(q, r, n)
      PROVE  \E b : Moved(q, b)
  BY <1>1, <1>2, <1>6, <1>8, EndMoved
<1>9. ASSUME NEW r \in {pr, tuned, built}, NEW pc \in {"interpret", "lookup", "compile", "translate"},
             procs' = [procs EXCEPT ![q] = to(r, pc)], UNCHANGED files
      PROVE  \E b : Moved(q, b)
  BY <1>1, <1>2, <1>7, <1>9, KeepMoved
<1>10. CASE /\ procs' = [procs EXCEPT ![q] = to(built, "ended")]
            /\ StoreFile(OutputPath, [state |-> "launcher", by |-> <<0, 0>>, env |-> <<>>])
  <2> DEFINE b == to(built, "ended")
  <2>1. Frame(q, b)
    BY <1>1, <1>2, <1>7, <1>10, Unended DEF Frame, DriverInv
  <2>2. OutputPath[1] # "cache"
    BY DEF OutputPath
  <2>3. Aside(q, b)
    BY <1>1, <1>7, <1>10, <2>2, StoreAside DEF Aside
  <2>4. QED
    BY <2>1, <2>3 DEF Moved
<1>11. QED
  BY <1>5, <1>8, <1>9, <1>10

\* ... with a binary of the cache or a temporary one, ...
LEMMA LookupMoved ==
  ASSUME DriverInv, NEW q \in Procs, Lookup(q)
  PROVE  \E b : Moved(q, b)
<1> DEFINE pr == procs[q]
           key == CacheKey(pr)
           temp == [pr EXCEPT !.path = <<"temp", q>>, !.pc = "execute"]
           lost == [pr EXCEPT !.failed = TRUE, !.pc = "interpret"]
           found == [[pr EXCEPT !.path = key] EXCEPT !.pc = "execute"]
           missed == [[pr EXCEPT !.path = key] EXCEPT !.pc = "compile"]
<1>1. pr.pc = "lookup"
  BY DEF Lookup
<1>2. DOMAIN pr = Fields /\ pr.path = <<>>
  BY <1>1, Unended DEF DriverInv, ProcInv
<1>3. /\ temp.path = <<"temp", q>> /\ temp.pc = "execute" /\ temp.failed = pr.failed
      /\ lost.path = <<>> /\ lost.pc = "interpret" /\ lost.failed
  BY <1>2 DEF Fields
<1>4. /\ found.path = key /\ found.pc = "execute" /\ found.failed = pr.failed
      /\ missed.path = key /\ missed.pc = "compile" /\ missed.failed = pr.failed
  BY <1>2 DEF Fields
<1>5. \/ /\ procs' = [procs EXCEPT ![q] = temp]
         /\ StoreFile(<<"temp", q>>, [state |-> "empty", by |-> <<0, 0>>, env |-> <<>>])
      \/ procs' = [procs EXCEPT ![q] = lost] /\ UNCHANGED files
      \/ key \in DOMAIN files /\ procs' = [procs EXCEPT ![q] = found] /\ UNCHANGED files
      \/ procs' = [procs EXCEPT ![q] = missed] /\ UNCHANGED files
  BY DEF Lookup
<1> HIDE DEF key, temp, lost, found, missed
<1>6. CASE /\ procs' = [procs EXCEPT ![q] = temp]
           /\ StoreFile(<<"temp", q>>, [state |-> "empty", by |-> <<0, 0>>, env |-> <<>>])
  <2>1. Frame(q, temp)
    BY <1>1, <1>2, <1>3, <1>6, Unended DEF Frame, DriverInv
  <2>2. <<"temp", q>>[1] # "cache"
    OBVIOUS
  <2>3. Aside(q, temp)
    BY <1>1, <1>3, <1>6, <2>2, StoreAside DEF Aside
  <2>4. QED
    BY <2>1, <2>3 DEF Moved
<1>7. QED
  BY <1>1, <1>2, <1>3, <1>4, <1>5, <1>6, KeepMoved

\* ... running it, ...
LEMMA ExecuteMoved ==
  ASSUME DriverInv, NEW q \in Procs, ExecuteBinary(q) \/ Interpret(q) \/ TranslateSource(q)
  PROVE  \E b : Moved(q, b)
<1> DEFINE pr == procs[q]
           shows(r, seq) == [r EXCEPT !.shown = seq]
           moved == [pr EXCEPT !.read = Current]
<1>1. pr.pc \in {"execute", "interpret", "translate"}
  <2>1. TranslateSource(q) => moved.pc = "translate"
    BY DEF TranslateSource
  <2>2. ExecuteBinary(q) \/ Interpret(q) => pr.pc \in {"execute", "interpret"}
    BY DEF ExecuteBinary, Interpret
  <2>3. QED
    BY <2>1, <2>2
<1>2. DOMAIN pr = Fields
  BY <1>1, Unended
<1>3. \/ \E n : EndProcess(q, pr, n) \/ EndProcess(q, moved, n)
      \/ \E seq, n : EndProcess(q, shows(pr, seq), n) \/ EndProcess(q, shows(moved, seq), n)
      \/ \E seq : procs' = [procs EXCEPT ![q] = [shows(pr, seq) EXCEPT !.pc = "interpret"]]
                 /\ UNCHANGED files
  <2>1. CASE ExecuteBinary(q)
    BY <2>1 DEF ExecuteBinary
  <2>2. CASE Interpret(q)
    BY <2>2 DEF Interpret
  <2>3. CASE TranslateSource(q)
    BY <2>3 DEF TranslateSource
  <2>4. QED
    BY <2>1, <2>2, <2>3
<1>4. DOMAIN moved = Fields /\ moved.path = pr.path /\ moved.failed = pr.failed
  BY <1>2 DEF Fields
<1> HIDE DEF moved
<1>5. ASSUME NEW r \in {pr, moved}, NEW seq
      PROVE  /\ DOMAIN shows(r, seq) = Fields /\ shows(r, seq).path = pr.path
             /\ shows(r, seq).failed = pr.failed
  BY <1>2, <1>4 DEF Fields
<1> HIDE DEF shows
<1>6. ASSUME NEW seq, procs' = [procs EXCEPT ![q] = [shows(pr, seq) EXCEPT !.pc = "interpret"]],
             UNCHANGED files
      PROVE  \E b : Moved(q, b)
  <2> DEFINE b == [shows(pr, seq) EXCEPT !.pc = "interpret"]
  <2>1. b.path = pr.path /\ b.failed = pr.failed /\ b.pc = "interpret"
    BY <1>5 DEF Fields
  <2>2. procs' = [procs EXCEPT ![q] = b]
    BY <1>6
  <2> HIDE DEF b
  <2>3. QED
    BY <1>1, <1>6, <2>1, <2>2, KeepMoved
<1>7. QED
  BY <1>1, <1>2, <1>3, <1>4, <1>5, <1>6, EndMoved

\* ... up to building it, ...
LEMMA BuildMoved ==
  ASSUME DriverInv, NEW q \in Procs, CompileBinary(q) \/ Train(q) \/ Merge(q)
  PROVE  \E b : Moved(q, b)
<1> DEFINE pr == procs[q]
           saved == [pr EXCEPT !.saved = pr.env]
           begun == [pr EXCEPT !.saved = pr.env, !.pc = "begin"]
           Keeps(r) == DOMAIN r = Fields /\ r.path = pr.path /\ r.failed = pr.failed
           to(r, pc) == [r EXCEPT !.pc = pc]
<1>1. pr.pc \in {"compile", "train", "merge"} /\ UNCHANGED files
  BY DEF CompileBinary, Train, Merge
<1>2. Keeps(pr)
  BY <1>1, Unended
<1>3. Keeps(saved) /\ Keeps(begun) /\ begun.pc = "begin"
  BY <1>2 DEF Fields
<1>4. ASSUME NEW r, Keeps(r), NEW mode
      PROVE  Keeps(Override(r, mode)) /\ Override(r, mode).pc = r.pc
  BY <1>4 DEF Override, Fields
<1>5. \/ procs' = [procs EXCEPT ![q] = begun]
      \/ \E pc \in {"train", "merge"} : procs' = [procs EXCEPT ![q] = to(pr, pc)]
      \/ procs' = [procs EXCEPT ![q] = to(saved, "begin")]
      \/ procs' = [procs EXCEPT ![q] = [Override(pr, "instrument") EXCEPT !.failed = TRUE, !.pc = "begin"]]
      \/ procs' = [procs EXCEPT ![q] = [Override(begun, "use") EXCEPT !.optimizing = TRUE]]
  <2>1. CASE CompileBinary(q)
    BY <2>1 DEF CompileBinary, GoesTo
  <2>2. CASE Train(q)
    BY <2>2 DEF Train, GoesTo
  <2>3. CASE Merge(q)
    BY <2>3 DEF Merge
  <2>4. QED
    BY <2>1, <2>2, <2>3
<1> HIDE DEF saved, begun
<1>6. PICK b : /\ procs' = [procs EXCEPT ![q] = b] /\ b.path = pr.path
               /\ pr.failed => b.failed
               /\ b.pc \in {"begin", "train", "merge"}
  <2>1. CASE procs' = [procs EXCEPT ![q] = begun]
    BY <1>3, <2>1
  <2>2. ASSUME NEW r \in {pr, saved}, NEW pc \in {"train", "merge", "begin"},
               procs' = [procs EXCEPT ![q] = to(r, pc)]
        PROVE  \E b : /\ procs' = [procs EXCEPT ![q] = b] /\ b.path = pr.path
                      /\ pr.failed => b.failed
                      /\ b.pc \in {"begin", "train", "merge"}
    <3>1. to(r, pc).path = pr.path /\ to(r, pc).failed = pr.failed /\ to(r, pc).pc = pc
      BY <1>2, <1>3 DEF Fields
    <3>2. QED
      BY <2>2, <3>1
  <2>3. CASE procs' = [procs EXCEPT ![q] = [Override(pr, "instrument") EXCEPT !.failed = TRUE, !.pc = "begin"]]
    <3> DEFINE o == Override(pr, "instrument")
               b == [o EXCEPT !.failed = TRUE, !.pc = "begin"]
    <3>1. Keeps(o)
      BY <1>2, <1>4
    <3> HIDE DEF o
    <3>2. b.path = pr.path /\ b.failed /\ b.pc = "begin"
      BY <3>1 DEF Fields
    <3>3. procs' = [procs EXCEPT ![q] = b]
      BY <2>3 DEF o
    <3> HIDE DEF b
    <3>4. QED
      BY <3>2, <3>3
  <2>4. CASE procs' = [procs EXCEPT ![q] = [Override(begun, "use") EXCEPT !.optimizing = TRUE]]
    <3> DEFINE o == Override(begun, "use")
               b == [o EXCEPT !.optimizing = TRUE]
    <3>1. Keeps(o) /\ o.pc = "begin"
      BY <1>3, <1>4
    <3> HIDE DEF o
    <3>2. b.path = pr.path /\ b.failed = pr.failed /\ b.pc = "begin"
      BY <3>1 DEF Fields
    <3>3. procs' = [procs EXCEPT ![q] = b]
      BY <2>4 DEF o
    <3> HIDE DEF b
    <3>4. QED
      BY <3>2, <3>3
  <2>5. QED
    BY <1>5, <2>1, <2>2, <2>3, <2>4
<1>7. QED
  BY <1>1, <1>6, KeepMoved

\* ... and writing it; or it is killed.
LEMMA LinkMoved ==
  ASSUME DriverInv, NEW q \in Procs, LinkBegin(q) \/ LinkEnd(q) \/ Kill(q)
  PROVE  \E b : Moved(q, b)
<1> DEFINE pr == procs[q]
<1>1. CASE LinkBegin(q)
  <2> DEFINE b == [pr EXCEPT !.pc = "link"]
  <2>1. pr.pc = "begin" /\ procs' = [procs EXCEPT ![q] = b]
          /\ StoreFile(pr.path, [state |-> "partial", by |-> <<0, 0>>, env |-> <<>>])
    BY <1>1 DEF LinkBegin, GoesTo
  <2>2. b.path = pr.path /\ b.failed = pr.failed /\ b.pc = "link"
    BY <2>1, Unended DEF Fields
  <2> HIDE DEF b
  <2>3. Frame(q, b)
    BY <2>1, <2>2, Unended DEF Frame, DriverInv
  <2>4. Begun(q, b)
    BY <2>1, <2>2 DEF Begun
  <2>5. QED
    BY <2>3, <2>4 DEF Moved
<1>2. CASE LinkEnd(q)
  <2> DEFINE after == [pr EXCEPT !.env = pr.saved, !.optimizing = FALSE]
             binary == [state |-> "whole", by |-> CSource(pr.read, pr.revision), env |-> pr.env]
             pc(stage) == IF pr.command = "run" THEN stage ELSE "ended"
             built == [after EXCEPT !.pc = pc("execute")]
             again == [pr EXCEPT !.optimizing = FALSE, !.failed = TRUE, !.pc = "begin"]
             failed == [after EXCEPT !.failed = TRUE, !.status = 1, !.pc = pc("interpret")]
  <2>1. \/ StoreFile(pr.path, binary) /\ procs' = [procs EXCEPT ![q] = built]
        \/ procs' = [procs EXCEPT ![q] = again] /\ files' = Removed(pr.path)
        \/ procs' = [procs EXCEPT ![q] = failed] /\ files' = Removed(pr.path)
    BY <1>2 DEF LinkEnd
  <2>2. pr.pc = "link"
    BY <1>2 DEF LinkEnd
  <2>3. DOMAIN pr = Fields
    BY <2>2, Unended
  <2>4. DOMAIN after = Fields /\ after.path = pr.path /\ after.failed = pr.failed
    BY <2>3 DEF Fields
  <2>5. again.path = pr.path /\ again.failed /\ again.pc = "begin"
    BY <2>3 DEF Fields
  <2>6. binary.state = "whole"
    OBVIOUS
  <2> HIDE DEF after, binary
  <2>7. built.path = pr.path /\ built.failed = pr.failed /\ built.pc \in {"execute", "ended"}
    BY <2>4 DEF Fields
  <2>8. failed.path = pr.path /\ failed.failed /\ failed.pc \in {"interpret", "ended"}
    BY <2>4 DEF Fields
  <2> HIDE DEF built, again, failed
  <2>9. ASSUME NEW b, procs' = [procs EXCEPT ![q] = b], b.path = pr.path, pr.failed => b.failed
        PROVE  Frame(q, b)
    BY <2>2, <2>9, Unended DEF Frame, DriverInv
  <2>10. CASE StoreFile(pr.path, binary) /\ procs' = [procs EXCEPT ![q] = built]
    <3>1. Built(q, built)
      BY <2>2, <2>6, <2>7, <2>10 DEF Built
    <3>2. QED
      BY <2>7, <2>9, <2>10, <3>1 DEF Moved
  <2>11. CASE procs' = [procs EXCEPT ![q] = again] /\ files' = Removed(pr.path)
    <3>1. Failed(q, again)
      BY <2>2, <2>5, <2>11 DEF Failed
    <3>2. QED
      BY <2>5, <2>9, <2>11, <3>1 DEF Moved
  <2>12. CASE procs' = [procs EXCEPT ![q] = failed] /\ files' = Removed(pr.path)
    <3>1. Failed(q, failed)
      BY <2>2, <2>8, <2>12 DEF Failed
    <3>2. QED
      BY <2>8, <2>9, <2>12, <3>1 DEF Moved
  <2>13. QED
    BY <2>1, <2>10, <2>11, <2>12
<1>3. CASE Kill(q)
  <2> DEFINE b == [pr EXCEPT !.pc = "ended", !.status = 137]
  <2>1. pr.pc # "ended" /\ procs' = [procs EXCEPT ![q] = b] /\ UNCHANGED files
    BY <1>3 DEF Kill, DriverInv
  <2>2. b.path = pr.path /\ b.failed = pr.failed /\ b.pc = "ended" /\ b.status = 137
    BY <2>1, Unended DEF Fields
  <2> HIDE DEF b
  <2>3. Frame(q, b)
    BY <2>1, <2>2, Unended DEF Frame, DriverInv
  <2>4. QED
    BY <2>1, <2>2, <2>3 DEF Moved, Killed
<1>4. QED
  BY <1>1, <1>2, <1>3

\* Every step of a process is one of these moves.
LEMMA ProcMoved ==
  ASSUME DriverInv, NEW q \in Procs, StartProcess(q) \/ ProcStep(q) \/ Kill(q)
  PROVE  \E b : Moved(q, b)
BY StartMoved, FrontMoved, LookupMoved, ExecuteMoved, BuildMoved, LinkMoved DEF ProcStep

\* A binary of the cache that is not whole is being written, or somebody was
\* killed over it.
LEMMA CacheStep ==
  ASSUME DriverInv, CacheInv, NEW q \in Procs, NEW b, Moved(q, b)
  PROVE  CacheInv'
<1> SUFFICES ASSUME NEW f \in DOMAIN files', f[1] = "cache", files'[f].state # "whole"
             PROVE  Held(f)'
  BY DEF CacheInv
<1>1. procs'[q] = b /\ \A p \in Procs \ {q} : procs'[p] = procs[p]
  BY DEF Moved, Frame
<1>2. ASSUME Held(f), procs[q].pc # "link" PROVE Held(f)'
  BY <1>1, <1>2 DEF Held, Moved, Frame
<1>3. CASE Aside(q, b)
  <2>1. f \in DOMAIN files /\ files'[f] = files[f] /\ procs[q].pc # "link"
    BY <1>3 DEF Aside, Left
  <2>2. Held(f)
    BY <2>1 DEF CacheInv
  <2>3. QED
    BY <1>2, <2>1, <2>2
<1>4. CASE Begun(q, b)
  <2>1. CASE f = b.path
    BY <1>1, <1>4, <2>1 DEF Begun, Held
  <2>2. CASE f # b.path
    BY <1>2, <1>4, <2>2 DEF Begun, StoreFile, CacheInv
  <2>3. QED
    BY <2>1, <2>2
<1>5. CASE Built(q, b) \/ Failed(q, b)
  <2>1. f # procs[q].path /\ f \in DOMAIN files /\ files'[f] = files[f]
    BY <1>5 DEF Built, Failed, StoreFile, Removed
  <2>2. PICK w \in Procs : procs[w].path = f /\ (procs[w].pc = "link" \/ procs[w].status = 137)
    BY <2>1 DEF CacheInv, Held
  <2>3. w # q
    BY <2>1, <2>2
  <2>4. QED
    BY <1>1, <2>2, <2>3 DEF Held
<1>6. CASE Killed(q, b)
  <2>1. PICK w \in Procs : procs[w].path = f /\ (procs[w].pc = "link" \/ procs[w].status = 137)
    BY <1>6 DEF Killed, CacheInv, Held
  <2>2. CASE w = q
    BY <1>1, <1>6, <2>1, <2>2 DEF Held, Killed
  <2>3. CASE w # q
    BY <1>1, <2>1, <2>3 DEF Held
  <2>4. QED
    BY <2>2, <2>3
<1>7. QED
  BY <1>3, <1>4, <1>5, <1>6 DEF Moved
\* A run that is about to execute a binary of the cache has a whole one, or
\* somebody spoils it.
LEMMA ReadyStep ==
  ASSUME DriverInv, CacheInv, ReadyInv, NEW q \in Procs, NEW b, Moved(q, b)
  PROVE  ReadyInv'
<1> SUFFICES ASSUME NEW p \in Procs, NEW f, f = procs'[p].path, procs'[p].pc = "execute",
                    Keyed(procs'[p])
             PROVE  Whole(f)' \/ Spoiled(p)'
  BY DEF ReadyInv, Keyed, CSource, Whole
<1>1. procs'[q] = b /\ \A r \in Procs \ {q} : procs'[r] = procs[r]
  BY DEF Moved, Frame
<1>2. f # <<>> /\ f[1] = "cache"
  BY DEF Keyed
<1>3. ASSUME NEW w \in Procs \ {p}, procs'[w].path = f,
             procs'[w].pc = "link" \/ procs'[w].status = 137 \/ procs'[w].failed
      PROVE  Spoiled(p)'
  BY <1>3 DEF Spoiled
<1>4. ASSUME NEW w \in Procs \ {p}, procs[w].path = f,
             procs[w].pc = "link" \/ procs[w].status = 137 \/ procs[w].failed
      PROVE  Whole(f)' \/ Spoiled(p)'
  <2>1. CASE w # q
    BY <1>1, <1>3, <1>4, <2>1
  <2>2. CASE w = q /\ procs[q].failed
    <3>1. b.path = f /\ b.failed
      BY <1>2, <1>4, <2>2 DEF Moved, Frame
    <3>2. QED
      BY <1>1, <1>3, <2>2, <3>1
  <2>3. CASE w = q /\ procs[q].pc = "link"
    <3>1. b.path = f
      BY <1>2, <1>4, <2>3 DEF Moved, Frame
    <3>2. Built(q, b) \/ b.failed \/ b.status = 137
      BY <2>3 DEF Moved, Aside, Begun, Failed, Killed
    <3>3. Built(q, b) => Whole(f)'
      BY <3>1 DEF Built, Whole, StoreFile
    <3>4. QED
      BY <1>1, <1>3, <2>3, <3>1, <3>2, <3>3
  <2>4. w = q => procs[q].status # 137
    BY DEF Moved, Frame
  <2>5. QED
    BY <1>4, <2>1, <2>2, <2>3, <2>4
<1>5. CASE p = q
  <2>1. b.pc = "execute" /\ b.path = f
    BY <1>1, <1>5
  <2>2. CASE Aside(q, b)
    <3>1. procs[q].pc = "lookup" /\ f \in DOMAIN files /\ f \in DOMAIN files' /\ files'[f] = files[f]
      BY <1>2, <2>1, <2>2 DEF Aside, Left
    <3>2. procs[q].path = <<>>
      BY <3>1 DEF DriverInv, ProcInv
    <3>3. CASE files[f].state = "whole"
      BY <3>1, <3>3 DEF Whole
    <3>4. CASE Held(f)
      <4>1. PICK w \in Procs : procs[w].path = f /\ (procs[w].pc = "link" \/ procs[w].status = 137)
        BY <3>4 DEF Held
      <4>2. w # p
        BY <1>2, <1>5, <3>2, <4>1
      <4>3. QED
        BY <1>4, <4>1, <4>2
    <3>5. QED
      BY <1>2, <3>1, <3>3, <3>4 DEF CacheInv
  <2>3. CASE Built(q, b)
    BY <2>1, <2>3 DEF Built, Whole, StoreFile
  <2>4. QED
    BY <2>1, <2>2, <2>3 DEF Moved, Begun, Failed, Killed
<1>6. CASE p # q
  <2>1. procs'[p] = procs[p] /\ procs[p].path = f
    BY <1>1, <1>6
  <2>2. Whole(f) \/ Spoiled(p)
    BY <2>1 DEF ReadyInv
  <2>3. CASE Spoiled(p)
    BY <1>4, <2>1, <2>3 DEF Spoiled
  <2>4. CASE Whole(f)
    <3>1. CASE Aside(q, b) \/ Built(q, b) \/ Killed(q, b)
      BY <1>2, <2>4, <3>1 DEF Aside, Left, Built, Killed, Whole, StoreFile
    <3>2. CASE (Begun(q, b) \/ Failed(q, b)) /\ b.path = f
      BY <1>1, <1>3, <1>6, <3>2 DEF Begun, Failed
    <3>3. CASE (Begun(q, b) \/ Failed(q, b)) /\ b.path # f
      BY <2>4, <3>3 DEF Begun, Failed, Whole, StoreFile, Removed
    <3>4. QED
      BY <3>1, <3>2, <3>3 DEF Moved
  <2>5. QED
    BY <2>2, <2>3, <2>4
<1>7. QED
  BY <1>5, <1>6

\* At the start there is no binary and nobody at work.
LEMMA SharedStart == DriverInit => SharedInv
<1> SUFFICES ASSUME DriverInit PROVE SharedInv
  OBVIOUS
<1>1. ASSUME NEW p \in Procs PROVE procs[p].pc # "execute"
  <2> DEFINE idle == [pc |-> "idle", command |-> "", given |-> ParseLine(NoCommand).given,
                      revision |-> 0, env |-> <<>>, saved |-> <<>>, read |-> 0,
                      path |-> <<>>, optimizing |-> FALSE, failed |-> FALSE, shown |-> <<>>,
                      status |-> 0]
  <2>1. procs[p] = idle
    BY DEF DriverInit
  <2>2. idle.pc = "idle"
    OBVIOUS
  <2> HIDE DEF idle
  <2>3. QED
    BY <2>1, <2>2
<1>2. CacheInv
  BY DEF DriverInit, CacheInv
<1>3. QED
  BY <1>1, <1>2, DriverStart DEF SharedInv, ReadyInv

\* Every step keeps the binaries of the cache, ...
LEMMA SharedStep == SharedInv /\ [DriverNext]_driverVars => SharedInv'
<1> SUFFICES ASSUME SharedInv, [DriverNext]_driverVars PROVE SharedInv'
  OBVIOUS
<1>1. DriverInv'
  BY DriverStep DEF SharedInv
<1>2. CASE Edit \/ UNCHANGED driverVars
  <2>1. UNCHANGED <<files, procs>>
    BY <1>2 DEF Edit, driverVars
  <2>2. CacheInv' /\ ReadyInv'
    BY <2>1 DEF SharedInv, CacheInv, Held, ReadyInv, Whole, Spoiled, Keyed, CSource
  <2>3. QED
    BY <1>1, <2>2 DEF SharedInv
<1>3. ASSUME NEW q \in Procs, StartProcess(q) \/ ProcStep(q) \/ Kill(q) PROVE SharedInv'
  BY <1>1, <1>3, ProcMoved, CacheStep, ReadyStep DEF SharedInv
<1>4. QED
  BY <1>2, <1>3 DEF DriverNext

\* ... and so they are always as they should be.
LEMMA SharedSafe == DriverSpec => []SharedInv
BY SharedStart, SharedStep, PTL DEF DriverSpec

-----------------------------------------------------------------------------
(* Falling back *)

\* How process p may end in this step.
Falls(p) ==
    (procs[p].pc # "ended" /\ Ran(p)' /\ Readable(procs'[p])) =>
        \/ ShownOnce(p)
        \/ procs'[p].status = 1 /\ procs[p].pc = "execute" /\ Len(procs'[p].shown) = 1
        \/ procs'[p].status \in {126, 127} /\ procs'[p].shown = <<>> /\ Spoiled(p)

\* What a process that returns from main has become.
LEMMA EndFalls ==
  ASSUME DriverInv, NEW p \in Procs, NEW r, NEW n, DOMAIN r = Fields, EndProcess(p, r, n)
  PROVE  /\ procs'[p].pc = "ended" /\ procs'[p].status = n
         /\ \A x \in Fields \ {"pc", "status"} : procs'[p][x] = r[x]
<1> DEFINE b == [r EXCEPT !.pc = "ended", !.status = n]
<1>1. procs'[p] = b
  BY DEF EndProcess, DriverInv
<1>2. b.pc = "ended" /\ b.status = n /\ \A x \in Fields \ {"pc", "status"} : b[x] = r[x]
  BY DEF Fields
<1>3. QED
  BY <1>1, <1>2

\* Before the text is read there is nothing to run: a command line is refused, ...
LEMMA StartFalls ==
  ASSUME DriverInv, NEW p \in Procs, StartProcess(p)
  PROVE  Falls(p)
<1> DEFINE known(job) == job.line.command \in {"run", "build", "compile", "parse", "check", "analyze"}
           parsed(job) == IF known(job) THEN ParseLine(job.line)
                          ELSE [ParseLine(NoCommand) EXCEPT !.file = job.line.command,
                                                            !.accepted = TRUE]
           started(job) == [procs[p] EXCEPT
                              !.command = IF known(job) THEN job.line.command ELSE "run",
                              !.given = parsed(job).given, !.revision = job.revision,
                              !.env = job.env]
<1>1. procs[p].pc = "idle"
  BY DEF StartProcess
<1>2. PICK job \in Jobs[p] :
        procs' = [procs EXCEPT ![p] = [started(job) EXCEPT !.pc = "front"]]
        \/ EndProcess(p, started(job), 1)
  BY DEF StartProcess
<1>3. DOMAIN procs[p] = Fields /\ procs[p].read = 0
  BY <1>1, Unended DEF DriverInv, ProcInv
<1> DEFINE r == started(job)
           b == [r EXCEPT !.pc = "front"]
<1>4. DOMAIN r = Fields /\ r.read = 0
  BY <1>3 DEF Fields
<1>5. procs' = [procs EXCEPT ![p] = b] \/ EndProcess(p, r, 1)
  BY <1>2
<1> HIDE DEF r
<1>6. CASE procs' = [procs EXCEPT ![p] = b]
  <2>1. procs'[p].pc = "front"
    BY <1>4, <1>6 DEF Fields, DriverInv
  <2>2. QED
    BY <2>1 DEF Falls, Ran, Over
<1>7. CASE EndProcess(p, r, 1)
  <2>1. procs'[p].read = 0
    BY <1>4, <1>7, EndFalls DEF Fields
  <2>2. QED
    BY <2>1 DEF Falls, Readable
<1>8. QED
  BY <1>5, <1>6, <1>7

\* ... and then only a text that the checker refuses, or another target, ends a
\* run without output.
LEMMA FrontFalls ==
  ASSUME DriverInv, NEW p \in Procs, FrontEnd(p)
  PROVE  Falls(p)
<1> DEFINE pr == procs[p]
           tuned == [pr EXCEPT !.env = ApplyTuning(pr.given, pr.env), !.read = Current]
           built == [pr EXCEPT !.env = ApplyTuning(pr.given, pr.env), !.read = Current,
                               !.path = OutputPath]
           to(r, pc) == [r EXCEPT !.pc = pc]
<1>1. pr.pc = "front"
  BY DEF FrontEnd
<1>2. DOMAIN pr = Fields /\ DOMAIN procs = Procs
  BY <1>1, Unended DEF DriverInv
<1>3. /\ DOMAIN tuned = Fields /\ tuned.given = pr.given /\ tuned.read = Current
      /\ tuned.command = pr.command
  BY <1>2 DEF Fields
<1>4. DOMAIN built = Fields /\ built.command = pr.command
  BY <1>2 DEF Fields
<1>5. CASE pr.command = "run"
  <2>1. \/ \E r \in {pr, tuned}, pc \in {"interpret", "lookup"} :
              procs' = [procs EXCEPT ![p] = to(r, pc)]
        \/ (~TargetMatchesHost(pr.given) \/ texts[Current] = "ill") /\ EndProcess(p, tuned, 1)
    BY <1>5 DEF FrontEnd, RunFront, GoesTo
  <2> HIDE DEF tuned
  <2>2. ASSUME NEW r \in {pr, tuned}, NEW pc \in {"interpret", "lookup"},
               procs' = [procs EXCEPT ![p] = to(r, pc)]
        PROVE  Falls(p)
    <3>1. procs'[p].pc = pc
      BY <1>2, <1>3, <2>2 DEF Fields
    <3>2. QED
      BY <3>1 DEF Falls, Ran, Over
  <2>3. CASE (~TargetMatchesHost(pr.given) \/ texts[Current] = "ill") /\ EndProcess(p, tuned, 1)
    <3>1. procs'[p].read = Current /\ procs'[p].given = pr.given
      BY <1>3, <2>3, EndFalls DEF Fields
    <3>2. QED
      BY <2>3, <3>1 DEF Falls, Readable
  <2>4. QED
    BY <2>1, <2>2, <2>3
<1>6. CASE pr.command # "run"
  <2>1. \/ \E r \in {pr, tuned, built}, n \in {0, 1} : EndProcess(p, r, n)
        \/ \E r \in {pr, built}, pc \in {"compile", "translate", "ended"} :
              procs' = [procs EXCEPT ![p] = to(r, pc)]
    BY <1>6 DEF FrontEnd, BuildFront, CompileFront, Inspect, GoesTo
  <2> HIDE DEF tuned, built
  <2>2. procs'[p].command = pr.command
    <3>1. ASSUME NEW r \in {pr, tuned, built}, NEW n \in {0, 1}, EndProcess(p, r, n)
          PROVE  procs'[p].command = pr.command
      BY <1>2, <1>3, <1>4, <3>1, EndFalls DEF Fields
    <3>2. ASSUME NEW r \in {pr, built}, NEW pc, procs' = [procs EXCEPT ![p] = to(r, pc)]
          PROVE  procs'[p].command = pr.command
      BY <1>2, <1>4, <3>2 DEF Fields
    <3>3. QED
      BY <2>1, <3>1, <3>2
  <2>3. QED
    BY <1>6, <2>2 DEF Falls, Ran
<1>7. QED
  BY <1>5, <1>6

\* A text that is translated is not run, ...
LEMMA TranslateFalls ==
  ASSUME DriverInv, NEW p \in Procs, TranslateSource(p)
  PROVE  Falls(p)
<1> DEFINE pr == [procs[p] EXCEPT !.read = Current]
           written == [pr EXCEPT !.shown = <<[how |-> "text", by |-> <<Current, pr.revision>>]>>]
<1>1. pr.pc = "translate" /\ (EndProcess(p, pr, 1) \/ EndProcess(p, written, 0))
  BY DEF TranslateSource
<1>2. procs[p].pc = "translate"
  BY <1>1
<1>3. DOMAIN procs[p] = Fields /\ procs[p].command # "run"
  BY <1>2, Unended DEF DriverInv, ProcInv
<1>4. DOMAIN pr = Fields /\ pr.command # "run"
  BY <1>3 DEF Fields
<1> HIDE DEF pr
<1>5. DOMAIN written = Fields /\ written.command # "run"
  BY <1>4 DEF Fields
<1> HIDE DEF written
<1>6. procs'[p].command # "run"
  BY <1>1, <1>4, <1>5, EndFalls DEF Fields
<1>7. QED
  BY <1>6 DEF Falls, Ran

\* ... looking for a binary and building it go on, ...
LEMMA LookupFalls ==
  ASSUME DriverInv, NEW p \in Procs, Lookup(p)
  PROVE  Falls(p)
<1> DEFINE at == [procs[p] EXCEPT !.path = CacheKey(procs[p])]
<1>1. DOMAIN procs[p] = Fields /\ DOMAIN procs = Procs
  BY Unended DEF Lookup, DriverInv
<1>2. DOMAIN at = Fields
  BY <1>1
<1>3. \/ procs' = [procs EXCEPT ![p] = [procs[p] EXCEPT !.path = <<"temp", p>>, !.pc = "execute"]]
      \/ procs' = [procs EXCEPT ![p] = [procs[p] EXCEPT !.failed = TRUE, !.pc = "interpret"]]
      \/ \E pc \in {"execute", "compile"} : procs' = [procs EXCEPT ![p] = [at EXCEPT !.pc = pc]]
  BY DEF Lookup
<1> HIDE DEF at
<1>4. procs'[p].pc \in {"execute", "interpret", "compile"}
  BY <1>1, <1>2, <1>3 DEF Fields
<1>5. QED
  BY <1>4 DEF Falls, Ran, Over

LEMMA BuildFalls ==
  ASSUME DriverInv, NEW p \in Procs, CompileBinary(p) \/ Train(p) \/ Merge(p) \/ LinkBegin(p)
  PROVE  Falls(p)
<1> DEFINE pr == procs[p]
           counting == Override(pr, "instrument")
           saved == [pr EXCEPT !.saved = pr.env]
           begun == [pr EXCEPT !.saved = pr.env, !.pc = "begin"]
           using == Override(begun, "use")
<1>1. pr.pc \in Building
  BY DEF CompileBinary, Train, Merge, LinkBegin, Building
<1>2. DOMAIN pr = Fields /\ DOMAIN procs = Procs
  BY <1>1, Unended DEF DriverInv, Building
<1>3. DOMAIN saved = Fields /\ DOMAIN begun = Fields /\ begun.pc = "begin"
  BY <1>2 DEF Fields
<1>4. \/ \E r \in {pr, saved}, pc \in Building : procs' = [procs EXCEPT ![p] = [r EXCEPT !.pc = pc]]
      \/ procs' = [procs EXCEPT ![p] = begun]
      \/ procs' = [procs EXCEPT ![p] = [counting EXCEPT !.failed = TRUE, !.pc = "begin"]]
      \/ procs' = [procs EXCEPT ![p] = [using EXCEPT !.optimizing = TRUE]]
  <2>1. CASE CompileBinary(p)
    BY <2>1 DEF CompileBinary, GoesTo, Building
  <2>2. CASE Train(p)
    BY <2>2 DEF Train, GoesTo, Building
  <2>3. CASE Merge(p)
    BY <2>3 DEF Merge
  <2>4. CASE LinkBegin(p)
    BY <2>4 DEF LinkBegin, GoesTo, Building
  <2>5. QED
    BY <2>1, <2>2, <2>3, <2>4
<1> HIDE DEF saved, begun
<1>5. DOMAIN counting = Fields
  BY <1>2 DEF Override, Fields
<1>6. DOMAIN using = Fields /\ using.pc = "begin"
  BY <1>3 DEF Override, Fields
<1> HIDE DEF counting, using
<1>7. procs'[p].pc \in Building
  <2>1. ASSUME NEW r \in {pr, saved}, NEW pc \in Building,
               procs' = [procs EXCEPT ![p] = [r EXCEPT !.pc = pc]]
        PROVE  procs'[p].pc \in Building
    BY <1>2, <1>3, <2>1 DEF Fields
  <2>2. CASE procs' = [procs EXCEPT ![p] = begun]
    BY <1>2, <1>3, <2>2 DEF Building
  <2>3. CASE procs' = [procs EXCEPT ![p] = [counting EXCEPT !.failed = TRUE, !.pc = "begin"]]
    BY <1>2, <1>5, <2>3 DEF Fields, Building
  <2>4. CASE procs' = [procs EXCEPT ![p] = [using EXCEPT !.optimizing = TRUE]]
    BY <1>2, <1>6, <2>4 DEF Fields, Building
  <2>5. QED
    BY <1>4, <2>1, <2>2, <2>3, <2>4
<1>8. QED
  BY <1>7 DEF Falls, Ran, Over, Building

\* ... what ends with a binary is no run, and what is killed is not over.
LEMMA LinkFalls ==
  ASSUME DriverInv, NEW p \in Procs, LinkEnd(p) \/ Kill(p)
  PROVE  Falls(p)
<1> DEFINE pr == procs[p]
           after == [pr EXCEPT !.env = pr.saved, !.optimizing = FALSE]
           pc(stage) == IF pr.command = "run" THEN stage ELSE "ended"
<1>1. DOMAIN procs = Procs /\ (pr.pc # "ended" => DOMAIN pr = Fields)
  BY Unended DEF DriverInv
<1>2. CASE Kill(p)
  <2>1. procs' = [procs EXCEPT ![p] = [pr EXCEPT !.pc = "ended", !.status = 137]] /\ DOMAIN pr = Fields
    BY <1>1, <1>2 DEF Kill
  <2>2. procs'[p].status = 137
    BY <1>1, <2>1 DEF Fields
  <2>3. QED
    BY <2>2 DEF Falls, Ran, Over
<1>3. CASE LinkEnd(p)
  <2>1. DOMAIN pr = Fields
    BY <1>1, <1>3 DEF LinkEnd
  <2>2. \/ procs' = [procs EXCEPT ![p] = [after EXCEPT !.pc = pc("execute")]]
        \/ procs' = [procs EXCEPT ![p] = [pr EXCEPT !.optimizing = FALSE, !.failed = TRUE, !.pc = "begin"]]
        \/ procs' = [procs EXCEPT ![p] =
                       [after EXCEPT !.failed = TRUE, !.status = 1, !.pc = pc("interpret")]]
    BY <1>3 DEF LinkEnd
  <2>3. DOMAIN after = Fields /\ after.command = pr.command
    BY <2>1 DEF Fields
  <2> HIDE DEF after
  <2>4. procs'[p].command = pr.command /\ (pr.command = "run" => procs'[p].pc # "ended")
    BY <1>1, <2>1, <2>2, <2>3 DEF Fields
  <2>5. QED
    BY <2>4 DEF Falls, Ran, Over
<1>4. QED
  BY <1>2, <1>3

\* A run that executes a binary ends as that does; one of the cache that cannot be
\* executed is spoiled by somebody.
LEMMA ExecuteFalls ==
  ASSUME DriverInv, ReadyInv, NEW p \in Procs, ExecuteBinary(p)
  PROVE  Falls(p)
<1> DEFINE pr == procs[p]
           file == files[pr.path]
           native == [how |-> "native", by |-> file.by, env |-> file.env]
           showing == [pr EXCEPT !.shown = Append(@, native)]
<1>1. pr.pc = "execute"
  BY DEF ExecuteBinary
<1>2. /\ DOMAIN pr = Fields /\ DOMAIN procs = Procs /\ pr.read \in 0..Len(texts) /\ pr.shown = <<>>
      /\ FilesInv /\ Current = Len(texts) /\ Len(texts) \in Nat
      /\ Keyed(pr) \/ (pr.path[1] = "temp" /\ ~CacheOn(pr.env))
  BY <1>1, Unended DEF DriverInv, ProcInv
<1>3. \/ ~Whole(pr.path) /\ \E n \in {126, 127} : EndProcess(p, pr, n)
      \/ Whole(pr.path) /\ \E n \in {0, 1} : EndProcess(p, showing, n)
      \/ procs' = [procs EXCEPT ![p] = [showing EXCEPT !.pc = "interpret"]]
  BY DEF ExecuteBinary, Whole
<1>4. ASSUME ~Whole(pr.path), NEW n \in {126, 127}, EndProcess(p, pr, n) PROVE Falls(p)
  <2>1. procs'[p].status = n /\ procs'[p].shown = <<>> /\ procs'[p].env = pr.env
    <3>1. procs'[p].status = n /\ \A x \in Fields \ {"pc", "status"} : procs'[p][x] = pr[x]
      BY <1>2, <1>4, EndFalls
    <3>2. procs'[p].shown = pr.shown /\ procs'[p].env = pr.env
      BY <3>1 DEF Fields
    <3>3. QED
      BY <1>2, <3>1, <3>2
  <2>2. CASE Keyed(pr)
    BY <1>1, <1>4, <2>1, <2>2 DEF ReadyInv, Falls
  <2>3. CASE ~CacheOn(pr.env)
    BY <2>1, <2>3 DEF Falls, Readable
  <2>4. QED
    BY <1>2, <2>2, <2>3
<1>5. showing = [pr EXCEPT !.shown = <<native>>]
  BY <1>2
<1>6. DOMAIN showing = Fields /\ showing.shown = <<native>> /\ showing.read = pr.read
  BY <1>2, <1>5 DEF Fields
<1> HIDE DEF showing
<1>7. ASSUME Whole(pr.path), NEW n \in {0, 1}, EndProcess(p, showing, n) PROVE Falls(p)
  <2>1. procs'[p].status = n /\ procs'[p].shown = <<native>> /\ procs'[p].read = pr.read
    BY <1>6, <1>7, EndFalls DEF Fields
  <2>2. native.by[1] = pr.read
    <3>1. pr.path[1] = "temp" => FALSE
      BY <1>2, <1>7 DEF Whole, FilesInv, FileInv
    <3>2. file.by = pr.path[3] /\ pr.path[3] = CSource(pr.read, pr.revision)
      BY <1>2, <1>7, <3>1 DEF Whole, FilesInv, FileInv, Keyed
    <3>3. native.by = CSource(pr.read, pr.revision)
      BY <3>2
    <3>4. QED
      BY <3>3 DEF CSource
  <2> HIDE DEF native
  <2>3. \A i \in DOMAIN procs'[p].shown : procs'[p].shown[i].by[1] \in procs'[p].read..Current
    BY <1>2, <2>1, <2>2
  <2>4. Len(procs'[p].shown) = 1
    BY <2>1
  <2>5. QED
    BY <1>1, <2>1, <2>3, <2>4 DEF Falls, ShownOnce
<1>8. CASE procs' = [procs EXCEPT ![p] = [showing EXCEPT !.pc = "interpret"]]
  <2>1. procs'[p].pc = "interpret"
    BY <1>2, <1>6, <1>8 DEF Fields
  <2>2. QED
    BY <2>1 DEF Falls, Ran, Over
<1>9. QED
  BY <1>3, <1>4, <1>7, <1>8

\* A run that is interpreted ends well, with that output and at most the one of a
\* binary before it.
LEMMA InterpretFalls ==
  ASSUME DriverInv, NEW p \in Procs, Interpret(p)
  PROVE  Falls(p)
<1> DEFINE pr == procs[p]
           output == [how |-> "interpreted", by |-> <<Current, procs[p].revision>>]
           showing == [procs[p] EXCEPT !.shown = Append(@, output)]
<1>1. pr.pc = "interpret" /\ EndProcess(p, showing, 0)
  BY DEF Interpret
<1>2. /\ DOMAIN pr = Fields /\ pr.read \in 0..Len(texts) /\ RunShown(pr)
      /\ Current = Len(texts) /\ Len(texts) \in Nat
  BY <1>1, Unended DEF DriverInv, ProcInv
<1>3. output.by[1] = Current
  OBVIOUS
<1> HIDE DEF output
<1>4. DOMAIN showing = Fields /\ showing.shown = Append(pr.shown, output) /\ showing.read = pr.read
  BY <1>2 DEF Fields
<1> HIDE DEF showing
<1>5. /\ procs'[p].status = 0 /\ procs'[p].shown = Append(pr.shown, output)
      /\ procs'[p].read = pr.read
  BY <1>1, <1>4, EndFalls DEF Fields
<1>6. pr.read \in pr.read..Current /\ Current \in pr.read..Current
  BY <1>2
<1>7. ShownOnce(p)
  <2>1. CASE pr.shown = <<>> /\ Append(pr.shown, output) = <<output>>
    BY <1>3, <1>5, <1>6, <2>1 DEF ShownOnce
  <2>2. ASSUME pr.failed, NEW native, pr.shown = <<native>>, native.how = "native",
               Append(pr.shown, output) = <<native, output>>
        PROVE  ShownOnce(p)
    <3>1. native.by[1] = pr.read
      BY <1>2, <2>2 DEF RunShown, CSource
    <3>2. /\ \A i \in DOMAIN procs'[p].shown : procs'[p].shown[i].by[1] \in procs'[p].read..Current
          /\ Len(procs'[p].shown) = 2 /\ pr.shown[1].how = "native"
      BY <1>3, <1>5, <1>6, <2>2, <3>1
    <3>3. QED
      BY <1>5, <2>2, <3>2 DEF ShownOnce
  <2>3. QED
    BY <1>1, <2>1, <2>2, InterpretShows
<1>8. QED
  BY <1>7 DEF Falls

\* The interpreter is a safe fallback for every process, however the others move.
LEMMA FallsStep ==
  ASSUME DriverInv, ReadyInv, [DriverNext]_driverVars, NEW p \in Procs
  PROVE  Falls(p)
<1>1. CASE UNCHANGED procs
  BY <1>1 DEF Falls, Ran, Over
<1>2. ASSUME NEW q \in Procs, StartProcess(q) \/ ProcStep(q) \/ Kill(q), q # p
      PROVE  Falls(p)
  <2>1. PICK b : Moved(q, b)
    BY <1>2, ProcMoved
  <2>2. procs'[p] = procs[p]
    BY <1>2, <2>1 DEF Moved, Frame
  <2>3. QED
    BY <2>2 DEF Falls, Ran, Over
<1>3. ASSUME StartProcess(p) \/ ProcStep(p) \/ Kill(p)
      PROVE  Falls(p)
  BY <1>3, StartFalls, FrontFalls, TranslateFalls, LookupFalls, BuildFalls, LinkFalls,
     ExecuteFalls, InterpretFalls DEF ProcStep
<1>4. QED
  BY <1>1, <1>2, <1>3 DEF DriverNext, Edit, driverVars

\* "safe interpreter fallback", where the cache is on: a run of a text the checker
\* accepts ends with its output, or as its binary does, or because another process
\* spoils the binary; a second output only after a failed build of its own.
THEOREM FallsBackCorrect == DriverSpec => FallsBack
<1>1. SharedInv /\ [DriverNext]_driverVars =>
        [\A p \in Procs :
            (procs[p].pc # "ended" /\ Ran(p)' /\ Readable(procs'[p])) =>
                \/ ShownOnce(p)
                \/ procs'[p].status = 1 /\ procs[p].pc = "execute" /\ Len(procs'[p].shown) = 1
                \/ procs'[p].status \in {126, 127} /\ procs'[p].shown = <<>> /\ Spoiled(p)]_driverVars
  BY FallsStep DEF SharedInv, Falls
<1>2. QED
  BY <1>1, SharedSafe, PTL DEF DriverSpec, FallsBack

-----------------------------------------------------------------------------
(* The flags of a binary *)

\* Environments that agree in the variables of the name and in those left out of
\* it ask for the same flags, but for those of PGO.
LEMMA SameFlags ==
  ASSUME NEW e, NEW f, Named(e) = Named(f), \A v \in Unnamed : e[v] = f[v]
  PROVE  CompilerFlags(e) \ ProfileFlags = CompilerFlags(f) \ ProfileFlags
<1>1. /\ e.CFLAGS = f.CFLAGS /\ e.CXXFLAGS = f.CXXFLAGS /\ Profile(e) = Profile(f)
      /\ e.TARGET_TRIPLE = f.TARGET_TRIPLE /\ e.SYSROOT = f.SYSROOT /\ e.LTO = f.LTO
      /\ e.TARGET_CFLAGS = f.TARGET_CFLAGS /\ e.LDFLAGS = f.LDFLAGS
      /\ e.TARGET_LDFLAGS = f.TARGET_LDFLAGS
  BY DEF Named, Unnamed, Profile
<1>2. TargetFlags(e) = TargetFlags(f) /\ LinkFlags(e) = LinkFlags(f)
  BY <1>1 DEF TargetFlags, LinkFlags
<1> DEFINE pgo(env) == CASE env.PGO = "instrument" -> {"-fprofile-instr-generate"}
                         [] env.PGO = "use" /\ env.PGO_PROFILE # "" -> {"-fprofile-instr-use"}
                         [] OTHER -> {}
<1>3. pgo(e) \subseteq ProfileFlags /\ pgo(f) \subseteq ProfileFlags
  BY DEF ProfileFlags
<1>4. \A x : x \notin ProfileFlags => (x \in OwnFlags(e) <=> x \in OwnFlags(f))
  <2> DEFINE user(env) == IF env.CFLAGS # {} THEN env.CFLAGS ELSE env.CXXFLAGS
             rest(env) == (IF user(env) = {} THEN {"-std=c11", "-O3", "-fno-fast-math"} ELSE user(env))
                              \cup {"-DNDEBUG"}
                              \cup (IF env.TARGET_TRIPLE = "" THEN {"-march=native"} ELSE {})
                              \cup (CASE env.LTO \in {"thin", "1", "true", "yes", "on"} -> {"-flto=thin"}
                                      [] env.LTO \in {"full", "all"} -> {"-flto"}
                                      [] OTHER -> {})
  <2>1. rest(e) = rest(f)
    BY <1>1
  <2>2. OwnFlags(e) = rest(e) \cup pgo(e) /\ OwnFlags(f) = rest(f) \cup pgo(f)
    BY DEF OwnFlags
  <2> HIDE DEF rest, pgo
  <2>3. QED
    BY <1>3, <2>1, <2>2
<1> HIDE DEF pgo
<1>5. "-Ofast" \in OwnFlags(e) <=> "-Ofast" \in OwnFlags(f)
  BY <1>4 DEF ProfileFlags
<1>6. \A x : x \notin ProfileFlags => (x \in CompilerFlags(e) <=> x \in CompilerFlags(f))
  BY <1>2, <1>4, <1>5 DEF CompilerFlags, Strict
<1>7. QED
  BY <1>6

\* A run executes a binary with the flags it asks for, whoever put it into the
\* cache, unless it differs in what the name leaves out.
THEOREM OwnTuningCorrect == DriverSpec => []OwnTuning
<1>1. ASSUME DriverInv PROVE OwnTuning
  BY <1>1, SameFlags DEF DriverInv, ProcInv, RunShown, OwnTuning, Ran, Over
<1>2. QED
  BY <1>1, DriverSafe, PTL

=============================================================================
