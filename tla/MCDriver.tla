------------------------------ MODULE MCDriver ------------------------------
(* Instances of Driver for TLC. *)
EXTENDS Driver, TLC

CONSTANTS p1, p2

Line(words) == [command |-> Head(words).word, args |-> Tail(words)]
Main == Word("main.k")

Plain == [n \in EnvNames |-> IF n \in {"CFLAGS", "CXXFLAGS", "TARGET_CFLAGS", "LDFLAGS", "TARGET_LDFLAGS"} THEN {} ELSE ""]
Fast == [Plain EXCEPT !.CFLAGS = {"-Ofast"}, !.TARGET_CFLAGS = {"-ffast-math"}]
Job(words, env, r) == [line |-> Line(words), env |-> env, revision |-> r]

FirstJobs ==
    {Job(<<Word("run"), Main, Word("--profile"), Word("layered-max"), Word("--allow-t5")>>, Fast, 1),
     Job(<<Word("run"), Word("--interpret"), Main>>, Plain, 1),
     Job(<<Word("build"), Main, WordWith("--auto-pgo-runs", "2"), WordWith("--profile", "layered-max")>>, Plain, 1),
     Job(<<Word("build"), Main, Word("--pgo")>>, Plain, 1),
     Job(<<Word("compile"), Main, Word("--emit-asm")>>, Plain, 1),
     Job(<<Word("check"), Main>>, Plain, 1),
     Job(<<Main>>, [Plain EXCEPT !.CFLAGS = {"-O1"}], 1)}
OtherJobs == {Job(<<Word("run"), Main>>, Plain, 1), Job(<<Word("run"), Main>>, Plain, 2)}

MCJobs == (p1 :> FirstJobs) @@ (p2 :> OtherJobs)
OneJob == (p1 :> {Job(<<Word("run"), Main>>, [Plain EXCEPT !.RUN_ADAPTIVE_CACHE = "off"], 1)})
=============================================================================
