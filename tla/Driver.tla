------------------------------- MODULE Driver -------------------------------
(***************************************************************************)
(* sparkc: what a command does with a source file (sparkc_main_parts).     *)
(* Several processes may be at it at once; they share the source, which is *)
(* edited meanwhile, the cache of run binaries and the output of build.    *)
(* The front end and the generator are taken by their verdict on a text    *)
(* (Codegen and Execution say what they do), the C compiler and the        *)
(* file system by the outcomes the driver tells apart.                     *)
(***************************************************************************)
EXTENDS Naturals, Sequences, FiniteSets

CONSTANTS
    Procs,          \* the processes, each of which runs one command
    Jobs,           \* what each may be started with: [line, env, revision], the
                    \* command line, the variables of EnvNames and the build of sparkc
    MaxVersion      \* bound: how many versions of the source there are

\* A text that compiles, one with soft tier reasons, one with hard ones, one
\* with an f128 token, one the checker refuses, one the generator refuses.
Kinds == {"native", "soft", "dynamic", "precise", "ill", "unlowered"}
SourceFile == "main.k"

EnvNames == {"TARGET_TRIPLE", "SYSROOT", "LTO", "PGO", "PGO_PROFILE", "OPT_PROFILE",
             "AUTO_PGO", "AUTO_PGO_RUNS", "FAST_PATHS", "CFLAGS", "CXXFLAGS",
             "TARGET_CFLAGS", "LDFLAGS", "TARGET_LDFLAGS", "RUN_ADAPTIVE_CACHE"}

ASSUME JobsAssumption == \A p \in Procs : \A job \in Jobs[p] : DOMAIN job.env = EnvNames

-----------------------------------------------------------------------------
(* The command line *)

\* An argument is a word, or option=value in one.
Word(w) == [word |-> w, joined |-> FALSE, value |-> ""]
WordWith(w, v) == [word |-> w, joined |-> TRUE, value |-> v]

Tuning == {"--target", "--sysroot", "--lto", "--pgo", "--pgo-profile", "--profile",
           "--auto-pgo-runs"}
WithValue(command) ==
    CASE command = "run" -> Tuning
      [] command = "build" -> Tuning \cup {"--out", "-o"}
      [] command = "compile" -> {"--emit-c-out", "--out", "-o"}
      [] OTHER -> {}
WithEquals(command) == IF command \in {"run", "build"} THEN Tuning ELSE {}
Flags(command) ==
    CASE command = "run" -> {"--interpret", "--allow-t5", "--explain-layout"}
      [] command = "build" -> {"--allow-t5"}
      [] command = "compile" -> {"--emit-c", "--emit-asm", "--emit-llvm", "--emit-mlir"}
      [] command = "parse" -> {"--dump-ast"}
      [] command = "analyze" ->
            {"--dump-types", "--dump-shapes", "--dump-tiers", "--dump-tier",
             "--dump-pipeline-ir", "--dump-fusion-plan", "--why-not-fused",
             "--dump-async-sm", "--dump-layout", "--explain-layout"}
      [] OTHER -> {}

\* --auto-pgo-runs is the one value that is looked at while parsing.
Acceptable(option, v) == option # "--auto-pgo-runs" \/ v \in {"1", "2", "3"}

Options == Tuning \cup {"--out", "-o", "--emit-c-out"} \cup Flags("run")
               \cup Flags("compile") \cup Flags("parse") \cup Flags("analyze")

Give(p, option, v) ==
    [p EXCEPT !.given = [@ EXCEPT ![option] = v], !.wants = "",
              !.accepted = Acceptable(option, v)]

\* One argument: the value an option waits for, whatever it looks like, an
\* option, or the file, of which there is one.  After a refusal nothing is read.
ParseArg(command, p, a) ==
    CASE ~p.accepted -> p
      [] p.accepted /\ p.wants # "" -> Give(p, p.wants, a.word)
      [] p.accepted /\ p.wants = "" /\ ~a.joined /\ a.word \in WithValue(command) ->
            [p EXCEPT !.wants = a.word]
      [] p.accepted /\ p.wants = "" /\ a.joined /\ a.word \in WithEquals(command) ->
            Give(p, a.word, a.value)
      [] p.accepted /\ p.wants = "" /\ ~a.joined /\ a.word \in Flags(command) ->
            Give(p, a.word, "yes")
      [] OTHER -> IF p.file = "" THEN [p EXCEPT !.file = a.word]
                  ELSE [p EXCEPT !.accepted = FALSE]

\* What main makes of the arguments: with an option left without its value, or
\* without a file, the command is refused.  Anything that is no command is a
\* file to run.
ParseLine(line) ==
    LET parsed[i \in 0..Len(line.args)] ==
            IF i = 0
            THEN [given |-> [o \in Options |-> ""], file |-> "", wants |-> "",
                  accepted |-> TRUE]
            ELSE ParseArg(line.command, parsed[i - 1], line.args[i])
        last == parsed[Len(line.args)]
    IN  [last EXCEPT !.accepted = @ /\ last.wants = "" /\ last.file # ""]

-----------------------------------------------------------------------------
(* The tuning of a native build *)

NormalProfile(v) ==
    CASE v \in {"layered", "layered_max", "layeredmax"} -> "layered-max"
      [] v \in {"max_perf", "max-perf"} -> "max"
      [] v \in {"default", "none"} -> "balanced"
      [] OTHER -> v
Profile(env) == IF env.OPT_PROFILE = "" THEN "max" ELSE NormalProfile(env.OPT_PROFILE)
EnvTruthy(v) == v \notin {"", "0", "false", "off", "no"}

\* apply_build_tuning_env: options win over the environment, and the profile
\* fills in what neither has said.
ApplyTuning(opts, user) ==
    LET Set(v, name) == IF v = "" THEN user[name] ELSE v
        asked == [user EXCEPT
            !.TARGET_TRIPLE = Set(opts["--target"], "TARGET_TRIPLE"),
            !.SYSROOT = Set(opts["--sysroot"], "SYSROOT"),
            !.LTO = Set(opts["--lto"], "LTO"),
            !.PGO = Set(opts["--pgo"], "PGO"),
            !.PGO_PROFILE = Set(opts["--pgo-profile"], "PGO_PROFILE"),
            !.OPT_PROFILE = NormalProfile(Set(opts["--profile"], "OPT_PROFILE")),
            !.AUTO_PGO = IF opts["--auto-pgo-runs"] = "" THEN @ ELSE "1",
            !.AUTO_PGO_RUNS = Set(opts["--auto-pgo-runs"], "AUTO_PGO_RUNS")]
        layered == Profile(asked) = "layered-max"
    IN  [asked EXCEPT
            !.LTO = IF @ = "" /\ Profile(asked) \in {"max", "layered-max"} THEN "full" ELSE @,
            !.FAST_PATHS = IF Profile(asked) \in {"max", "layered-max"} THEN "1" ELSE @,
            !.AUTO_PGO = IF layered /\ @ = "" /\ asked.PGO = "" THEN "1" ELSE @,
            !.AUTO_PGO_RUNS = IF layered /\ @ = "" THEN "2" ELSE @]

Relaxed == {"-ffast-math", "-funsafe-math-optimizations", "-fassociative-math",
            "-freciprocal-math", "-fno-signed-zeros", "-fno-trapping-math"}

\* enforce_strict_precision_compiler_flags, on the flags of the user and those
\* added for the target.
Strict(own, target) ==
    LET all == own \cup target
    IN  (IF "-Ofast" \in all THEN {"-O3"} ELSE {})
            \cup (all \ (Relaxed \cup {"-Ofast"})) \cup {"-fno-fast-math"}

\* resolve_native_cxx_flags: the flags of the user, or some, with those of the
\* build, ...
OwnFlags(env) ==
    LET user == IF env.CFLAGS # {} THEN env.CFLAGS ELSE env.CXXFLAGS
    IN  (IF user = {} THEN {"-std=c11", "-O3", "-fno-fast-math"} ELSE user)
            \cup {"-DNDEBUG"}
            \cup (IF env.TARGET_TRIPLE = "" THEN {"-march=native"} ELSE {})
            \cup (CASE env.LTO \in {"thin", "1", "true", "yes", "on"} -> {"-flto=thin"}
                    [] env.LTO \in {"full", "all"} -> {"-flto"}
                    [] OTHER -> {})
            \cup (CASE env.PGO = "instrument" -> {"-fprofile-instr-generate"}
                    [] env.PGO = "use" /\ env.PGO_PROFILE # "" -> {"-fprofile-instr-use"}
                    [] OTHER -> {})
\* ... and those of the target and of the profile.
TargetFlags(env) ==
    (IF env.TARGET_TRIPLE = "" THEN {} ELSE {"--target"})
        \cup (IF env.SYSROOT = "" THEN {} ELSE {"--sysroot"})
        \cup env.TARGET_CFLAGS
        \cup (IF Profile(env) \in {"max", "layered-max"} THEN {"-ffunction-sections"} ELSE {})
        \cup (IF Profile(env) = "layered-max" THEN {"-falign-loops=32"} ELSE {})
\* The flags of the linker are part of the same command, as they come.
LinkFlags(env) ==
    env.LDFLAGS \cup env.TARGET_LDFLAGS
        \cup (IF Profile(env) \in {"max", "layered-max"} THEN {"-Wl,--gc-sections"} ELSE {})
        \cup (IF Profile(env) = "layered-max" THEN {"-Wl,-O3"} ELSE {})
CompilerFlags(env) == Strict(OwnFlags(env), TargetFlags(env)) \cup LinkFlags(env)

-----------------------------------------------------------------------------
VARIABLES
    texts,    \* the versions of the source so far, by kind; the last is on disk
    files,    \* the binaries on disk, by path
    works,    \* whether each part of the tool chain works, once it was tried
    procs     \* the processes

driverVars == <<texts, files, works, procs>>

\* The parts of the tool chain: the compiler with the flags of each PGO mode,
\* the training run, llvm-profdata, and making the directory of the cache.
ToolParts == {"plain", "instrument", "use", "train", "merge", "cache directory"}
Stages == {"idle", "front", "translate", "lookup", "compile", "train", "merge", "begin",
           "link", "execute", "interpret", "ended"}

DriverTypeOK ==
    /\ texts \in Seq(Kinds)
    /\ \A f \in DOMAIN files : files[f].state \in {"empty", "partial", "whole", "launcher"}
    /\ works \in [ToolParts -> {"untried", "yes", "no"}]
    /\ \A p \in Procs : procs[p].pc \in Stages

NoCommand == [command |-> "", args |-> <<>>]

DriverInit ==
    /\ texts \in {<<k>> : k \in Kinds}
    /\ files = [f \in {} |-> <<>>]
    /\ works = [t \in ToolParts |-> "untried"]
    /\ procs = [p \in Procs |->
          [pc |-> "idle", command |-> "", given |-> ParseLine(NoCommand).given,
           revision |-> 0, env |-> <<>>, saved |-> <<>>, read |-> 0,
           path |-> <<>>, optimizing |-> FALSE, failed |-> FALSE, shown |-> <<>>,
           status |-> 0]]

Current == Len(texts)

\* Part t has outcome o, now and whenever it is used.
Outcome(t, o) == works[t] \in {"untried", o} /\ works' = [works EXCEPT ![t] = o]

GoesTo(p, pc) == procs' = [procs EXCEPT ![p].pc = pc]
StoreFile(f, content) == files' = [g \in DOMAIN files \cup {f} |-> IF g = f THEN content ELSE files[g]]
Removed(f) == [g \in DOMAIN files \ {f} |-> files[g]]

\* The process returns from main; the destructors remove its temporary files.
EndProcess(p, pr, s) ==
    /\ procs' = [procs EXCEPT ![p] = [pr EXCEPT !.pc = "ended", !.status = s]]
    /\ files' = Removed(<<"temp", p>>)

-----------------------------------------------------------------------------
(* Up to the verdict on the text *)

StartProcess(p) ==
    /\ procs[p].pc = "idle"
    /\ \E job \in Jobs[p] :
          LET known == job.line.command \in {"run", "build", "compile", "parse", "check", "analyze"}
              parsed == IF known THEN ParseLine(job.line)
                        ELSE [ParseLine(NoCommand) EXCEPT !.file = job.line.command, !.accepted = TRUE]
              begun == [procs[p] EXCEPT
                  !.command = IF known THEN job.line.command ELSE "run",
                  !.given = parsed.given, !.revision = job.revision, !.env = job.env]
          IN  IF parsed.accepted /\ parsed.file = SourceFile
              THEN procs' = [procs EXCEPT ![p] = [begun EXCEPT !.pc = "front"]] /\ UNCHANGED files
              ELSE EndProcess(p, begun, 1)
    /\ UNCHANGED <<texts, works>>

\* is_blocking_tier over the reports of the text.
Blocked(kind, opts) == kind = "dynamic" \/ (kind = "soft" /\ opts["--allow-t5"] = "")

TargetMatchesHost(opts) == opts["--target"] \in {"", "host"}

\* Mutant: what keeps a text from being compiled ends a run.
BadRunFront(p) ==
    LET pr == procs[p]
        kind == texts[Current]
        tuned == [pr EXCEPT !.env = ApplyTuning(pr.given, pr.env), !.read = Current]
    IN  CASE pr.given["--interpret"] # "" \/ pr.given["--explain-layout"] # "" ->
                GoesTo(p, "interpret") /\ UNCHANGED files
          [] kind \in {"native", "soft"} /\ ~Blocked(kind, pr.given) ->
                /\ procs' = [procs EXCEPT ![p] = [tuned EXCEPT !.pc = "lookup"]]
                /\ UNCHANGED files
          [] OTHER -> EndProcess(p, tuned, 1)
\* run_mode_main: everything the compiled way does not take is interpreted,
\* but for another target and for a text the checker refuses.
RunFront(p) ==
    LET pr == procs[p]
        kind == texts[Current]
        tuned == [pr EXCEPT !.env = ApplyTuning(pr.given, pr.env), !.read = Current]
        interpreted == pr.given["--interpret"] # "" \/ pr.given["--explain-layout"] # ""
        refused == ~TargetMatchesHost(pr.given) \/ kind = "ill"
        native == kind \notin {"precise", "unlowered"} /\ ~Blocked(kind, pr.given)
    IN  \/ /\ interpreted
           /\ GoesTo(p, "interpret") /\ UNCHANGED files
        \/ /\ ~interpreted /\ refused
           /\ EndProcess(p, tuned, 1)
        \/ /\ ~interpreted /\ ~refused
           /\ procs' = [procs EXCEPT ![p] =
                 [tuned EXCEPT !.pc = IF native THEN "lookup" ELSE "interpret"]]
           /\ UNCHANGED files

OutputPath == <<"a.out">>

\* build_mode_main: a text with a high-precision primitive becomes a script
\* that interprets the source, any other is compiled or refused.
BuildFront(p) ==
    LET pr == procs[p]
        kind == texts[Current]
        tuned == [pr EXCEPT !.env = ApplyTuning(pr.given, pr.env), !.read = Current,
                            !.path = OutputPath]
        refused == kind \in {"ill", "unlowered"} \/ Blocked(kind, pr.given)
    IN  \/ /\ kind = "precise"
           /\ procs' = [procs EXCEPT ![p] = [tuned EXCEPT !.pc = "ended"]]
           /\ StoreFile(OutputPath, [state |-> "launcher", by |-> <<0, 0>>, env |-> <<>>])
        \/ /\ kind # "precise" /\ refused
           /\ EndProcess(p, tuned, 1)
        \/ /\ kind # "precise" /\ ~refused
           /\ procs' = [procs EXCEPT ![p] = [tuned EXCEPT !.pc = "compile"]]
           /\ UNCHANGED files

\* compile_mode_main looks for the primitives in one reading of the file and
\* translates another.
CompileFront(p) ==
    IF texts[Current] = "precise" THEN EndProcess(p, procs[p], 1)
    ELSE GoesTo(p, "translate") /\ UNCHANGED files

\* parse_mode_main, check_mode_main and analyze_mode_main.
Inspect(p) ==
    EndProcess(p, procs[p], IF texts[Current] = "ill" /\ procs[p].command # "parse" THEN 1 ELSE 0)

FrontEnd(p) ==
    /\ procs[p].pc = "front"
    /\ CASE procs[p].command = "run" -> RunFront(p)
         [] procs[p].command = "build" -> BuildFront(p)
         [] procs[p].command = "compile" -> CompileFront(p)
         [] OTHER -> Inspect(p)
    /\ UNCHANGED <<texts, works>>

Tool(env) == IF env.PGO = "" THEN "plain" ELSE env.PGO

\* compile_pipeline, and the compiler once more for --emit-asm.
TranslateSource(p) ==
    LET pr == [procs[p] EXCEPT !.read = Current]
        written == [pr EXCEPT !.shown = <<[how |-> "text", by |-> <<Current, pr.revision>>]>>]
    IN  /\ pr.pc = "translate"
        /\ IF texts[Current] \in {"ill", "unlowered"} THEN EndProcess(p, pr, 1) /\ UNCHANGED works
           ELSE IF pr.given["--emit-asm"] = "" THEN EndProcess(p, written, 0) /\ UNCHANGED works
           ELSE \/ Outcome(Tool(pr.env), "yes") /\ EndProcess(p, written, 0)
                \/ Outcome(Tool(pr.env), "no") /\ EndProcess(p, pr, 1)
        /\ UNCHANGED texts

-----------------------------------------------------------------------------
(* run_native_adaptive_cached *)

CacheOn(env) == env.RUN_ADAPTIVE_CACHE = "" \/ EnvTruthy(env.RUN_ADAPTIVE_CACHE)

\* The C source made of version v by a revision r of the generator.
CSource(v, r) == <<v, r>>

\* Mutants: the C source is taken for a function of the source; the flags of the
\* user are left out.
BadCacheKey(pr) == <<"cache", pr.read, pr.given["--allow-t5"], pr.env.OPT_PROFILE>>
WorseCacheKey(pr) ==
    <<"cache", pr.read, CSource(pr.read, pr.revision), pr.given["--allow-t5"],
      [o \in Tuning \ {"--auto-pgo-runs"} |-> pr.given[o]], {}, {}, pr.env.OPT_PROFILE>>
\* adaptive_run_cache_key: the name of a binary in the cache.  Of the tuning it
\* has the options, of the environment the flags and the profile.
CacheKey(pr) ==
    <<"cache", pr.read, CSource(pr.read, pr.revision), pr.given["--allow-t5"],
      [o \in Tuning \ {"--auto-pgo-runs"} |-> pr.given[o]], pr.env.CFLAGS, pr.env.CXXFLAGS,
      pr.env.OPT_PROFILE>>

\* Without the cache the binary is a temporary file, which making its name
\* creates; whatever exists is taken for compiled.
Lookup(p) ==
    LET pr == procs[p]
        key == CacheKey(pr)
        at == [pr EXCEPT !.path = key]
    IN  /\ pr.pc = "lookup"
        /\ \/ /\ ~CacheOn(pr.env)
              /\ procs' = [procs EXCEPT ![p] =
                    [pr EXCEPT !.path = <<"temp", p>>, !.pc = "execute"]]
              /\ StoreFile(<<"temp", p>>, [state |-> "empty", by |-> <<0, 0>>, env |-> <<>>])
              /\ UNCHANGED works
           \/ /\ CacheOn(pr.env) /\ Outcome("cache directory", "no")
              /\ procs' = [procs EXCEPT ![p] = [pr EXCEPT !.failed = TRUE, !.pc = "interpret"]]
              /\ UNCHANGED files
           \/ /\ CacheOn(pr.env) /\ Outcome("cache directory", "yes")
              /\ procs' = [procs EXCEPT ![p] =
                    [at EXCEPT !.pc = IF key \in DOMAIN files THEN "execute" ELSE "compile"]]
              /\ UNCHANGED files
        /\ UNCHANGED texts

\* The binary is run.  One that is being written cannot be, and there is no
\* falling back from that.  One that ends with status 1 (or is killed by a
\* signal: command_exit_code) ends the run the same way, unless a build of this
\* run has failed before: then the text is interpreted as well.
ExecuteBinary(p) ==
    LET pr == procs[p]
        there == pr.path \in DOMAIN files
        file == files[pr.path]
        done == [pr EXCEPT !.shown = Append(@, [how |-> "native", by |-> file.by, env |-> file.env])]
    IN  /\ pr.pc = "execute"
        /\ \/ ~there /\ EndProcess(p, pr, 127)
           \/ there /\ file.state # "whole" /\ EndProcess(p, pr, 126)
           \/ there /\ file.state = "whole" /\ EndProcess(p, done, 0)
           \/ there /\ file.state = "whole" /\ ~pr.failed /\ EndProcess(p, done, 1)
           \/ /\ there /\ file.state = "whole" /\ pr.failed
              /\ procs' = [procs EXCEPT ![p] = [done EXCEPT !.pc = "interpret"]]
              /\ UNCHANGED files
        /\ UNCHANGED <<texts, works>>

\* run_interpreter_main reads the file again.
Interpret(p) ==
    /\ procs[p].pc = "interpret"
    /\ EndProcess(p, [procs[p] EXCEPT !.shown =
                   Append(@, [how |-> "interpreted", by |-> <<Current, procs[p].revision>>])], 0)
    /\ UNCHANGED <<texts, works>>

-----------------------------------------------------------------------------
(* write_temp_source_and_compile and run_auto_pgo_cycle *)

PgoCycle(env) == Profile(env) = "layered-max" /\ EnvTruthy(env.AUTO_PGO) /\ env.PGO = ""

\* ScopedEnvOverride: the environment for the commands of a block.
Override(pr, mode) ==
    [pr EXCEPT !.saved = pr.env, !.env.PGO = mode,
               !.env.PGO_PROFILE = IF mode = "use" THEN "profdata" ELSE ""]

\* The first build of the cycle, with counters.  When it fails, the build that
\* follows is still inside the block and has the flags of this one.
CompileBinary(p) ==
    LET pr == procs[p]
        counting == Override(pr, "instrument")
    IN  /\ pr.pc = "compile"
        /\ \/ /\ ~PgoCycle(pr.env)
              /\ procs' = [procs EXCEPT ![p] = [pr EXCEPT !.saved = pr.env, !.pc = "begin"]]
              /\ UNCHANGED works
           \/ /\ PgoCycle(pr.env) /\ Outcome("instrument", "yes")
              /\ GoesTo(p, "train")
           \/ /\ PgoCycle(pr.env) /\ Outcome("instrument", "no")
              /\ procs' = [procs EXCEPT ![p] = [counting EXCEPT !.failed = TRUE, !.pc = "begin"]]
        /\ UNCHANGED <<texts, files>>

\* The training runs, and merging what they have counted.
Train(p) ==
    LET pr == [procs[p] EXCEPT !.saved = procs[p].env]
    IN  /\ pr.pc = "train"
        /\ \/ Outcome("train", "yes") /\ GoesTo(p, "merge")
           \/ Outcome("train", "no") /\ procs' = [procs EXCEPT ![p] = [pr EXCEPT !.pc = "begin"]]
        /\ UNCHANGED <<texts, files>>

Merge(p) ==
    LET pr == [procs[p] EXCEPT !.saved = procs[p].env, !.pc = "begin"]
    IN  /\ procs[p].pc = "merge"
        /\ \/ /\ Outcome("merge", "yes")
              /\ procs' = [procs EXCEPT ![p] = [Override(pr, "use") EXCEPT !.optimizing = TRUE]]
           \/ Outcome("merge", "no") /\ procs' = [procs EXCEPT ![p] = pr]
        /\ UNCHANGED <<texts, files>>

\* compile_c_source_to_binary: the compiler writes the output in place, ...
LinkBegin(p) ==
    /\ procs[p].pc = "begin"
    /\ StoreFile(procs[p].path, [state |-> "partial", by |-> <<0, 0>>, env |-> <<>>])
    /\ GoesTo(p, "link")
    /\ UNCHANGED <<texts, works>>

\* ... and has written all of it, or removes it when it fails.  The build with
\* the profile is then tried again, inside its block too.
LinkEnd(p) ==
    LET pr == procs[p]
        after == [pr EXCEPT !.env = pr.saved, !.optimizing = FALSE]
    IN  /\ pr.pc = "link"
        /\ \/ /\ Outcome(Tool(pr.env), "yes")
              /\ StoreFile(pr.path, [state |-> "whole", by |-> CSource(pr.read, pr.revision),
                               env |-> pr.env])
              /\ procs' = [procs EXCEPT ![p] =
                    [after EXCEPT !.pc = IF pr.command = "run" THEN "execute" ELSE "ended"]]
           \/ /\ Outcome(Tool(pr.env), "no") /\ pr.optimizing
              /\ procs' = [procs EXCEPT ![p] =
                    [pr EXCEPT !.optimizing = FALSE, !.failed = TRUE, !.pc = "begin"]]
              /\ files' = Removed(pr.path)
           \/ /\ Outcome(Tool(pr.env), "no") /\ ~pr.optimizing
              /\ procs' = [procs EXCEPT ![p] =
                    [after EXCEPT !.failed = TRUE, !.status = 1,
                                  !.pc = IF pr.command = "run" THEN "interpret" ELSE "ended"]]
              /\ files' = Removed(pr.path)
        /\ UNCHANGED texts

-----------------------------------------------------------------------------
\* The source is saved with other contents.
Edit ==
    /\ Current < MaxVersion
    /\ \E k \in Kinds : texts' = Append(texts, k)
    /\ UNCHANGED <<files, works, procs>>

\* A process and what it waits for are killed; what was written stays.
Kill(p) ==
    /\ procs[p].pc \notin {"idle", "ended"}
    /\ procs' = [procs EXCEPT ![p].pc = "ended", ![p].status = 137]
    /\ UNCHANGED <<texts, files, works>>

ProcStep(p) ==
    \/ FrontEnd(p) \/ TranslateSource(p) \/ Lookup(p) \/ ExecuteBinary(p) \/ Interpret(p)
    \/ CompileBinary(p) \/ Train(p) \/ Merge(p) \/ LinkBegin(p) \/ LinkEnd(p)

DriverNext == Edit \/ \E p \in Procs : StartProcess(p) \/ ProcStep(p) \/ Kill(p)

DriverSpec == DriverInit /\ [][DriverNext]_driverVars

-----------------------------------------------------------------------------
Over(p) == procs[p].pc = "ended" /\ procs[p].status # 137
Ran(p) == Over(p) /\ procs[p].command = "run"

\* A binary that a run executes was compiled from the C source which this
\* sparkc makes of the text this run has read: not from an earlier text, not
\* by another sparkc, whoever put it into the cache and when.
OwnBinary ==
    \A p \in Procs : Ran(p) =>
        \A i \in DOMAIN procs[p].shown : procs[p].shown[i].how = "native" =>
            procs[p].shown[i].by = CSource(procs[p].read, procs[p].revision)

\* "safe interpreter fallback": a run of a text the checker accepts shows its
\* output exactly once and ends well, whatever of the tool chain fails and
\* whatever other processes do.
SafeFallback ==
    \A p \in Procs : Ran(p) /\ procs[p].read # 0
                     /\ TargetMatchesHost(procs[p].given) /\ texts[procs[p].read] # "ill" =>
        procs[p].status = 0 /\ Len(procs[p].shown) = 1

\* Somebody else writes the binary of p, was killed while writing it, or had a
\* build of it that failed.
Spoiled(p) ==
    \E q \in Procs \ {p} :
        /\ procs[q].path = procs[p].path
        /\ (procs[q].pc = "link" \/ procs[q].status = 137 \/ procs[q].failed)

\* What a run of a text the checker accepts has shown when it ends well: the
\* output of the text that was read, or of a later one, once; and a second time
\* only after a build of its own has failed and the binary of the next one too.
ShownOnce(p) ==
    /\ procs'[p].status = 0
    /\ \A i \in DOMAIN procs'[p].shown : procs'[p].shown[i].by[1] \in procs'[p].read..Current
    /\ \/ Len(procs'[p].shown) = 1
       \/ Len(procs'[p].shown) = 2 /\ procs[p].failed /\ procs[p].shown[1].how = "native"

\* Process pr has read a text that the checker accepts, with the cache on.
Readable(pr) ==
    pr.read # 0 /\ texts[pr.read] # "ill" /\ TargetMatchesHost(pr.given) /\ CacheOn(pr.env)

\* "safe interpreter fallback", where the cache is on: such a run ends like that;
\* or as its binary does, with what that has printed; or, without a word, because
\* another process spoils the binary at this moment or was killed over it.  On
\* its own a run never meets a binary that is missing or half written, whatever
\* of the tool chain fails (run_mode_main, run_native_adaptive_cached).
FallsBack ==
    [][\A p \in Procs :
          (procs[p].pc # "ended" /\ Ran(p)' /\ Readable(procs'[p])) =>
              \/ ShownOnce(p)
              \/ procs'[p].status = 1 /\ procs[p].pc = "execute" /\ Len(procs'[p].shown) = 1
              \/ procs'[p].status \in {126, 127} /\ procs'[p].shown = <<>> /\ Spoiled(p)]_driverVars

\* The variables that reach the compiler and are not in the name of a binary.
Unnamed == {"TARGET_TRIPLE", "SYSROOT", "LTO", "TARGET_CFLAGS", "LDFLAGS", "TARGET_LDFLAGS"}
ProfileFlags == {"-fprofile-instr-generate", "-fprofile-instr-use"}

\* A binary that a run executes was compiled with the flags that this run asks
\* for, those of PGO aside, whoever put it into the cache: no two runs that agree
\* in the variables the name leaves out ask for other flags under one name
\* (adaptive_run_cache_key, resolve_native_cxx_flags).
OwnTuning ==
    \A p \in Procs : Ran(p) =>
        \A i \in DOMAIN procs[p].shown :
            LET built == procs[p].shown[i].env
            IN  procs[p].shown[i].how = "native" /\ (\A v \in Unnamed : built[v] = procs[p].env[v]) =>
                    CompilerFlags(built) \ ProfileFlags = CompilerFlags(procs[p].env) \ ProfileFlags
=============================================================================
