------------------------------ MODULE Execution ------------------------------
(***************************************************************************)
(* How a program is run: it is compiled to C, or a statement of it takes a *)
(* fast path of the evaluator, or commands choose between the compiler and *)
(* the evaluator, or the type checker reads it.  A run is about one of     *)
(* these.                                                                  *)
(***************************************************************************)
EXTENDS CBackend, FastPaths, Driver

CONSTANTS CheckedPrograms, MaxItems, MostTurns  \* of Typing

VARIABLES
    subject,                      \* what a run is about
    program, checker, globals     \* of Typing

typedVars == <<program, checker, globals>>
executionVars == <<subject, vars, fastVars, driverVars, typedVars>>

Checked == INSTANCE Typing WITH Programs <- CheckedPrograms

\* What a run is not about stays as it is here.
IdleCompiled == source = 0 /\ binary = <<>> /\ meaning = <<>> /\ stack = <<>> /\ heap = <<>> /\ out = <<>> /\ status = "none"
IdleInterpreted ==
    /\ stmt = Break /\ given = Undefined /\ isBoxed = FALSE /\ path = "none" /\ now = Start(Undefined)
    /\ meant = now /\ again = FALSE
IdleCommand == DriverInit /\ texts = <<"native">>
IdleTyped == Checked!TypingInit /\ program = CHOOSE p \in DOMAIN CheckedPrograms : TRUE

ExecutionInit ==
    \/ subject = "compiled" /\ Init /\ IdleInterpreted /\ IdleCommand /\ IdleTyped
    \/ subject = "interpreted" /\ IdleCompiled /\ FastInit /\ IdleCommand /\ IdleTyped
    \/ subject = "command" /\ IdleCompiled /\ IdleInterpreted /\ DriverInit /\ IdleTyped
    \/ subject = "typed" /\ IdleCompiled /\ IdleInterpreted /\ IdleCommand /\ Checked!TypingInit

CompiledStep ==
    subject = "compiled" /\ Next /\ UNCHANGED <<subject, fastVars, driverVars, typedVars>>
InterpretedStep ==
    subject = "interpreted" /\ FastNext /\ UNCHANGED <<subject, vars, driverVars, typedVars>>
CommandStep ==
    subject = "command" /\ DriverNext /\ UNCHANGED <<subject, vars, fastVars, typedVars>>
TypedStep ==
    subject = "typed" /\ Checked!TypingNext /\ UNCHANGED <<subject, vars, fastVars, driverVars>>

ExecutionNext == CompiledStep \/ InterpretedStep \/ CommandStep \/ TypedStep

\* The processor goes on with a compiled program.
ExecutionSpec == ExecutionInit /\ [][ExecutionNext]_executionVars /\ WF_executionVars(CompiledStep)

-----------------------------------------------------------------------------
\* A program that the interpreter runs to its end also ends when it is compiled,
\* or does what NothingUndefined is about (the loops of emit_while_statement and
\* emit_for_statement).
Ends == <>(subject = "compiled" => status # "run")

\* What the checker says of a program it accepts is true of what the program does.
TypesHold == subject = "typed" => Checked!TypesHold
=============================================================================
