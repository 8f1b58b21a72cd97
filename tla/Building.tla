------------------------------ MODULE Building ------------------------------
(***************************************************************************)
(* What `little' promises whoever calls it: an invocation takes the source *)
(* once, and puts in a.out nothing but the executable of the source it has *)
(* taken; it reports success only when it has done so.  The promise is for *)
(* the plain command lines.                                                *)
(***************************************************************************)
CONSTANTS Programs,     \* what a source file may hold
          Commands,     \* the command lines
          Plain,        \* the plain ones
          Widths,       \* the widths of int that each of them asks for
          Contents      \* what a.out may hold

VARIABLES source,       \* the source file
          running,      \* an invocation is under way
          command,      \* its command line, or that of the last one
          taken,        \* the source as it took it; "nothing" before it does
          built,        \* its executable is in place
          out,          \* a.out
          status        \* the exit status of the last invocation

vars == <<source, running, command, taken, built, out, status>>

Executable(p, w) == [prog |-> p, width |-> w]

Init ==
    /\ source \in Programs /\ out \in Contents
    /\ running = FALSE /\ command \in Commands /\ status = 0
    /\ taken = "nothing" /\ built = FALSE

Edit ==
    /\ source' \in Programs
    /\ UNCHANGED <<running, command, taken, built, out, status>>

Start ==
    /\ ~running /\ running' = TRUE
    /\ command' \in Commands
    /\ UNCHANGED <<source, taken, built, out, status>>

Take ==
    /\ running /\ taken = "nothing"
    /\ taken' = source
    /\ UNCHANGED <<source, running, command, built, out, status>>

Build ==
    /\ running /\ ~built /\ built' = TRUE
    /\ IF command \in Plain
       THEN /\ taken # "nothing"
            /\ \E w \in Widths[command] : out' = Executable(taken, w)
       ELSE out' \in Contents
    /\ UNCHANGED <<source, running, command, taken, status>>

Stop(s) ==
    /\ running /\ running' = FALSE
    /\ s = 0 => built
    /\ status' = s
    /\ taken' = "nothing" /\ built' = FALSE
    /\ UNCHANGED <<source, command, out>>

Next == Edit \/ Start \/ Take \/ Build \/ \E s \in {0, 1} : Stop(s)

Spec == Init /\ [][Next]_vars
=============================================================================
