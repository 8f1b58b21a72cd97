------------------------------- MODULE Driver -------------------------------
(***************************************************************************)
(* driver.sh (`little'), one invocation after the other in one directory,  *)
(* with main() of lilang and its Settings.  The files a.ll, a.o and a.out  *)
(* outlive an invocation, and a step that fails, or an interrupt, leaves   *)
(* them as they are for the next one.  llc and clang are external.         *)
(***************************************************************************)
EXTENDS Integers, SequencesExt

CONSTANTS Programs,     \* what the source file may hold
          Refused,      \* those that lilang ends with NOK, each with its -width
          Commands,     \* the command lines tried
          SourceName,   \* the name of the source file; no other file exists
          Numerals      \* the option values that stoul makes a width of

ASSUME RefusedAssumption == Refused \subseteq Programs \X (Numerals \cup {""})
ASSUME ProgramsAssumption == {"nothing", "absent", "torn"} \cap Programs = {}

VARIABLES source,       \* the contents of the source file
          files,        \* the contents of the others
          step,         \* how far the invocation is; "idle" between two
          command,      \* its command line, "$@"
          input,        \* what lilang has read; "nothing" before it does
          width,        \* the width of int it compiles with
          status        \* the exit status of the last invocation

vars == <<source, files, step, command, input, width, status>>

(* A file's contents: the source compiled, or nothing, or a part of it.    *)
Compiled(p, w) == [prog |-> p, width |-> w]
Absent  == Compiled("absent", "none")
Torn    == Compiled("torn", "none")
Modules == {Compiled(p, w) : p \in Programs, w \in Numerals \cup {"64"}}

Outputs == {"a.ll", "a.o", "a.out"}
Steps   == {"idle", "little", "main", "compile", "print", "write", "llc", "clang", "rm"}

-----------------------------------------------------------------------------
(* Settings.  An argument is an option if it is longer than two characters *)
(* and begins with a dash; `name' is the part before the "=", without the  *)
(* one or two dashes, and `value' what follows it, NoValue if no "=" does. *)

NoValue == "no value"
Argument == [option : BOOLEAN, name : STRING, value : STRING]

ASSUME CommandsAssumption == Commands \subseteq Seq(Argument)

Setting(name, value) == [option |-> TRUE, name |-> name, value |-> value]

(* What is added is a set: neither the order of the options nor how often  *)
(* one is given survives.  The driver adds its own.                        *)
Settings == {a \in ToSet(command) : a.option} \cup {Setting("print-ir", "a.ll")}

filename == LET words == SelectSeq(command, LAMBDA a : ~a.option)
            IN  IF words = <<>> THEN "" ELSE Last(words).name

isOn(key) == \E arg \in Settings : arg.name = key

(* Mutated form of getOptionValue: an option without "=" counts as well.   *)
getAnyValue(key) ==
    LET found == {arg \in Settings : arg.name = key}
    IN  IF found = {} THEN {""} ELSE {arg.value : arg \in found}

(* The value is that of the first option the iteration over the            *)
(* unordered_set comes to, which may be any of them.                       *)
getOptionValue(key) ==
    LET found == {arg \in Settings : arg.name = key /\ arg.value # NoValue}
    IN  IF found = {} THEN {""} ELSE {arg.value : arg \in found}

-----------------------------------------------------------------------------
Init ==
    /\ source \in Programs
    /\ files = [f \in Outputs |-> Absent]
    /\ step = "idle" /\ command \in Commands
    /\ input = "nothing" /\ width = "none" /\ status = 0

(* The user changes the source, at any time.                               *)
Edit ==
    /\ source' \in Programs
    /\ UNCHANGED <<files, step, command, input, width, status>>

little ==
    /\ step = "idle"
    /\ step' = "little"
    /\ command' \in Commands
    /\ UNCHANGED <<source, files, input, width, status>>

(* The invocation ends.  A step of the `&&' list that fails is the last.   *)
Exit(s) ==
    /\ step' = "idle" /\ status' = s
    /\ input' = "nothing" /\ width' = "none"
    /\ UNCHANGED <<source, command>>

Fail == Exit(1) /\ UNCHANGED files

Then(s) == step' = s /\ UNCHANGED <<source, command, status>>

CheckArguments ==
    /\ step = "little"
    /\ IF command = <<>> THEN Fail
       ELSE Then("main") /\ UNCHANGED <<files, input, width>>

(* main() of lilang up to the end of the lexing: the file is read once.    *)
ReadSource ==
    /\ step = "main"
    /\ IF isOn("help") THEN Then("llc") /\ UNCHANGED <<files, input, width>>
       ELSE IF filename # SourceName THEN Fail
       ELSE Then("compile") /\ input' = source /\ UNCHANGED <<files, width>>

(* Mutated form of Compile: the width is the option's value, given or not. *)
CompileAsGiven ==
    /\ step = "compile"
    /\ \E w \in getOptionValue("width") :
          IF <<input, w>> \in Refused \/ w \notin Numerals \cup {""} THEN Fail
          ELSE Then("print") /\ width' = w /\ UNCHANGED <<files, input>>

(* The three stages.  An exception of stoul is caught by nobody.           *)
Compile ==
    /\ step = "compile"
    /\ \E w \in getOptionValue("width") :
          IF <<input, w>> \in Refused \/ w \notin Numerals \cup {""} THEN Fail
          ELSE /\ Then("print")
               /\ width' = IF w = "" THEN "64" ELSE w
               /\ UNCHANGED <<files, input>>

(* The IR goes to standard output or to a file, which is emptied when it   *)
(* is opened.  Of the files only the outputs are followed.                 *)
OpenIR ==
    /\ step = "print"
    /\ \E optVal \in getOptionValue("print-ir") :
          /\ IF optVal = "a.ll" THEN Then("write") /\ files' = [files EXCEPT !["a.ll"] = Torn]
             ELSE Then("llc") /\ UNCHANGED files
    /\ UNCHANGED <<input, width>>

OpenFails == step = "print" /\ getOptionValue("print-ir") # {""} /\ Fail

WriteIR ==
    /\ step = "write"
    /\ Then("llc")
    /\ files' = [files EXCEPT !["a.ll"] = Compiled(input, width)]
    /\ UNCHANGED <<input, width>>

WriteFails == step = "write" /\ Fail

(* The next two take what is there: the output of the step before, or of   *)
(* another invocation.                                                     *)
llc ==
    /\ step = "llc"
    /\ files["a.ll"] \in Modules
    /\ Then("clang")
    /\ files' = [files EXCEPT !["a.o"] = files["a.ll"]]
    /\ UNCHANGED <<input, width>>

clang ==
    /\ step = "clang"
    /\ files["a.o"] \in Modules
    /\ Then("rm")
    /\ files' = [files EXCEPT !["a.out"] = files["a.o"]]
    /\ UNCHANGED <<input, width>>

ToolFails == step \in {"llc", "clang"} /\ Fail

rm ==
    /\ step = "rm"
    /\ files' = [files EXCEPT !["a.o"] = Absent, !["a.ll"] = Absent]
    /\ Exit(0)

(* The user ends the invocation, wherever it is.                           *)
Interrupt == step # "idle" /\ Fail

Next == \/ Edit \/ little \/ CheckArguments \/ ReadSource \/ Compile
        \/ OpenIR \/ OpenFails \/ WriteIR \/ WriteFails
        \/ llc \/ clang \/ ToolFails \/ rm \/ Interrupt

Spec == Init /\ [][Next]_vars

-----------------------------------------------------------------------------
TypeOK ==
    /\ source \in Programs
    /\ files \in [Outputs -> Modules \cup {Absent, Torn}]
    /\ step \in Steps
    /\ command \in Commands
    /\ input \in Programs \cup {"nothing"}
    /\ width \in Numerals \cup {"64", "none"}
    /\ status \in {0, 1}

(* A plain command line asks for a program, and leaves the intermediate    *)
(* file to the driver.                                                     *)
IsPlain(c) ==
    \A a \in ToSet(c) : a.option =>
        /\ a.name # "help"
        /\ a.name = "print-ir" => a.value \in {NoValue, "a.ll"}

(* The widths a command line asks for.                                     *)
Asked(c) ==
    LET ws == {a.value : a \in {b \in ToSet(c) : b.option /\ b.name = "width"}}
    IN  (ws \cap Numerals) \cup (IF "" \in ws \/ ws \subseteq {NoValue} THEN {"64"} ELSE {})

(* `little' as a whole, with each intermediate file forgotten.             *)
Abstract ==
    INSTANCE Building WITH
        Contents <- Modules \cup {Absent, Torn},
        Plain    <- {c \in Commands : IsPlain(c)},
        Widths   <- [c \in Commands |-> Asked(c)],
        running  <- step # "idle",
        taken    <- input,
        built    <- step = "rm",
        out      <- files["a.out"]

(* Every invocation, whatever earlier ones have left behind, wherever they *)
(* failed or were interrupted, and whenever the source changes, puts in    *)
(* a.out nothing but the executable of the source it has read, of a width  *)
(* that was asked for, and succeeds only if it has: the chain of `&&', the *)
(* order of the checks in main() and the truncation of a.ll see to it that *)
(* an intermediate file of another invocation is not taken for its own.    *)
Implements == Abstract!Spec
=============================================================================
