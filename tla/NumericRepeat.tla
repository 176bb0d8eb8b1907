---------------------------- MODULE NumericRepeat ----------------------------
(***************************************************************************)
(* eval_numeric_repeat_inplace: x <- x op r, n times, without n steps.     *)
(* The first steps are taken one by one, to see whether the value stands   *)
(* still or goes back and forth; a narrow int then jumps to where the rest *)
(* of an addition takes it, or to the bound where it saturates.            *)
(***************************************************************************)
EXTENDS Interpreter

CONSTANT ProbeLimit     \* bound: the steps taken one by one, 2048 in the code

ASSUME ProbeAssumption == ProbeLimit \in Nat

RECURSIVE Probe(_, _, _, _, _, _), Steps(_, _, _, _)

\* w after n steps, one by one
Steps(op, w, r, n) ==
    IF n = 0 \/ w = Failure THEN w ELSE Steps(op, EvalNumeric(op, w, r), r, n - 1)

Settled(w) == [w |-> w, left |-> 0]

\* Mutant: a value that goes back and forth ends where that is seen.
BadProbe(op, w, r, n, steps, previous) ==
    LET next == EvalNumeric(op, w, r)
    IN  IF n = 0 \/ steps = 0 THEN [w |-> w, left |-> n]
        ELSE IF next = Failure \/ next.v = w.v \/ (previous # <<>> /\ next.v = previous[1].v) THEN Settled(next)
        ELSE Probe(op, next, r, n - 1, steps - 1, <<w>>)
\* The steps that are probed: the value they end with and the steps that are left.
Probe(op, w, r, n, steps, previous) ==
    LET next == EvalNumeric(op, w, r)
    IN  IF n = 0 \/ steps = 0 THEN [w |-> w, left |-> n]
        ELSE IF next = Failure \/ next.v = w.v THEN Settled(next)
        ELSE IF previous # <<>> /\ next.v = previous[1].v
             THEN Settled(IF (n - 1) % 2 = 1 THEN w ELSE next)
        ELSE Probe(op, next, r, n - 1, steps - 1, <<w>>)

\* The steps that are left of a narrow int and an operand of the same kind.
NarrowAdd(w, delta, n) ==
    LET room == IF delta > 0 THEN NarrowMax - w.v ELSE w.v - NarrowMin
        size == IF delta > 0 THEN delta ELSE -delta
    IN  IF room > 0 /\ n >= CeilDiv(room, size)
        THEN Saturated(IF delta > 0 THEN NarrowMax ELSE NarrowMin)
        ELSE IF room > 0 THEN Saturated(w.v + delta * n)
        ELSE w

NarrowRest(op, w, r, n) ==
    CASE r.v = 0 /\ op \in {"add", "sub"} -> w
      [] r.v # 0 /\ op = "add" -> NarrowAdd(w, r.v, n)
      [] r.v # 0 /\ op = "sub" -> NarrowAdd(w, -r.v, n)
      [] op = "mul" /\ r.v = 2 -> w
      [] op = "mul" /\ r.v = 0 -> Saturated(0)
      [] OTHER -> Steps(op, w, r, n)

Rest(op, w, r, n) ==
    IF n = 0 THEN w
    ELSE IF {w.kind, r.kind} = {"Narrow"} /\ op \in {"add", "sub", "mul"} THEN NarrowRest(op, w, r, n)
    ELSE Steps(op, w, r, n)
RestOf(op, r, probed) == Rest(op, probed.w, r, probed.left)

Repeat(op, w, r, n) ==
    IF n = 0 THEN w
    ELSE IF op = "mod" THEN EvalNumeric(op, w, r)
    ELSE RestOf(op, r, Probe(op, w, r, n, ProbeLimit, <<>>))
=============================================================================
