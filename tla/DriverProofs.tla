---------------------------- MODULE DriverProofs ----------------------------
(***************************************************************************)
(* For every set of programs, command lines and widths: `little' keeps its *)
(* promise, Building.                                                      *)
(***************************************************************************)
EXTENDS Driver, TLAPS

(* What a plain invocation knows of its own files, step by step.           *)
OwnFiles ==
    IsPlain(command) =>
        /\ step \in {"compile", "print", "write", "llc", "clang", "rm"} => input \in Programs
        /\ step \in {"print", "write", "llc", "clang", "rm"} => width \in Asked(command)
        /\ step = "llc"   => files["a.ll"] = Compiled(input, width)
        /\ step = "clang" => files["a.o"] = Compiled(input, width)

(* What any invocation of lilang has by then.                              *)
Stages ==
    /\ step \in {"idle", "little", "main"} => input = "nothing"
    /\ step \in {"compile", "print", "write"} => input \in Programs
    /\ step \in {"print", "write"} => width \in Numerals \cup {"64"}

DriverInv == TypeOK /\ OwnFiles /\ Stages

-----------------------------------------------------------------------------
(* Settings.                                                               *)

(* The options of a plain command line are all plain.                      *)
LEMMA PlainSettings ==
    ASSUME IsPlain(command), NEW a \in Settings
    PROVE  a.name # "help" /\ (a.name = "print-ir" => a.value \in {NoValue, "a.ll"})
  <1>1. CASE a \in ToSet(command) /\ a.option BY <1>1 DEF IsPlain
  <1>2. CASE a = Setting("print-ir", "a.ll") BY <1>2 DEF Setting
  <1> QED BY <1>1, <1>2 DEF Settings

LEMMA PlainHelp == IsPlain(command) => ~isOn("help")
  BY PlainSettings DEF isOn

(* The driver's own option is among them, so its value is the one found.   *)
LEMMA PlainIR == IsPlain(command) => getOptionValue("print-ir") = {"a.ll"}
  <1> SUFFICES ASSUME IsPlain(command) PROVE getOptionValue("print-ir") = {"a.ll"}
    OBVIOUS
  <1> DEFINE own   == Setting("print-ir", "a.ll")
             found == {a \in Settings : a.name = "print-ir" /\ a.value # NoValue}
  <1>1. own \in Settings BY DEF Settings
  <1>2. own.name = "print-ir" /\ own.value = "a.ll" /\ own.value # NoValue
    BY DEF Setting, NoValue
  <1>3. own \in found BY <1>1, <1>2
  <1>4. \A a \in found : a.value = "a.ll" BY PlainSettings
  <1>5. getOptionValue("print-ir") = {a.value : a \in found} BY <1>3 DEF getOptionValue
  <1> QED BY <1>2, <1>3, <1>4, <1>5

(* A width that compiles is one that was asked for.                        *)
LEMMA WidthAsked ==
    ASSUME NEW w \in getOptionValue("width"), w \in Numerals \cup {""}
    PROVE  /\ (IF w = "" THEN "64" ELSE w) \in Asked(command)
           /\ (IF w = "" THEN "64" ELSE w) \in Numerals \cup {"64"}
  <1> DEFINE ws    == {a.value : a \in {b \in ToSet(command) : b.option /\ b.name = "width"}}
             found == {a \in Settings : a.name = "width" /\ a.value # NoValue}
  <1>1. ASSUME NEW a \in Settings, a.name = "width" PROVE a \in ToSet(command) /\ a.option
    <2>1. Setting("print-ir", "a.ll").name = "print-ir" BY DEF Setting
    <2>2. a # Setting("print-ir", "a.ll") BY <1>1, <2>1
    <2> QED BY <2>2 DEF Settings
  <1>2. CASE found = {}
    <2>1. w = ""
      <3>1. getOptionValue("width") = {""} BY <1>2 DEF getOptionValue
      <3> QED BY <3>1
    <2>2. ASSUME NEW a \in ToSet(command), a.option, a.name = "width" PROVE a.value = NoValue
      BY <1>2, <2>2 DEF Settings
    <2>3. ws \subseteq {NoValue} BY <2>2
    <2> QED BY <2>1, <2>3 DEF Asked
  <1>3. CASE found # {}
    <2>1. PICK a \in found : w = a.value
      <3>1. getOptionValue("width") = {a.value : a \in found} BY <1>3 DEF getOptionValue
      <3> QED BY <3>1
    <2>2. w \in ws BY <1>1, <2>1
    <2>3. w = "" => "64" \in Asked(command) BY <2>2 DEF Asked
    <2>4. w \in Numerals => w \in Asked(command) BY <2>2 DEF Asked
    <2> QED BY <2>3, <2>4
  <1> QED BY <1>2, <1>3

-----------------------------------------------------------------------------
(* The invariant.                                                          *)

LEMMA InitInv == Init => DriverInv
  BY DEF Init, DriverInv, TypeOK, OwnFiles, Stages, Outputs, Steps, Absent

LEMMA FailInv == ASSUME DriverInv, Fail PROVE DriverInv'
  BY DEF DriverInv, TypeOK, OwnFiles, Stages, Fail, Exit, Steps, IsPlain

LEMMA StepInv == ASSUME DriverInv, Next PROVE DriverInv'
  <1> USE DEF DriverInv, Then
  <1>1. CASE Edit
    BY <1>1 DEF Edit, TypeOK, OwnFiles, Stages, IsPlain, Asked
  <1>2. CASE little
    BY <1>2 DEF little, TypeOK, OwnFiles, Stages, Steps
  <1>3. CASE CheckArguments
    BY <1>3, FailInv DEF CheckArguments, TypeOK, OwnFiles, Stages, Steps
  <1>4. CASE ReadSource
    <2>1. CASE isOn("help")
      BY <1>4, <2>1, PlainHelp DEF ReadSource, TypeOK, OwnFiles, Stages, Steps, IsPlain
    <2>2. CASE ~isOn("help")
      BY <1>4, <2>2, FailInv DEF ReadSource, TypeOK, OwnFiles, Stages, Steps
    <2> QED BY <2>1, <2>2
  <1>5. CASE Compile
    <2>1. CASE Fail BY <2>1, FailInv
    <2>2. CASE ~Fail
      <3>1. PICK w \in getOptionValue("width") :
              /\ step = "compile" /\ w \in Numerals \cup {""}
              /\ Then("print") /\ width' = (IF w = "" THEN "64" ELSE w)
              /\ UNCHANGED <<files, input>>
        BY <1>5, <2>2 DEF Compile
      <3>2. width' \in Asked(command) /\ width' \in Numerals \cup {"64"}
        BY <3>1, WidthAsked
      <3> QED BY <3>1, <3>2 DEF TypeOK, OwnFiles, Stages, Steps, IsPlain, Asked
    <2> QED BY <2>1, <2>2
  <1>6. CASE OpenIR
    <2>1. PICK optVal \in getOptionValue("print-ir") :
            IF optVal = "a.ll" THEN Then("write") /\ files' = [files EXCEPT !["a.ll"] = Torn]
            ELSE Then("llc") /\ UNCHANGED files
      BY <1>6 DEF OpenIR
    <2>2. IsPlain(command) => optVal = "a.ll" BY PlainIR
    <2> QED BY <1>6, <2>1, <2>2
        DEF OpenIR, TypeOK, OwnFiles, Stages, Steps, Outputs, IsPlain, Asked
  <1>7. CASE OpenFails \/ WriteFails \/ ToolFails \/ Interrupt
    BY <1>7, FailInv DEF OpenFails, WriteFails, ToolFails, Interrupt
  <1>8. CASE WriteIR
    <2>1. Compiled(input, width) \in Modules BY <1>8 DEF WriteIR, Stages, Modules
    <2> QED BY <1>8, <2>1
        DEF WriteIR, TypeOK, OwnFiles, Stages, Steps, Outputs, IsPlain, Asked
  <1>9. CASE llc
    BY <1>9 DEF llc, TypeOK, OwnFiles, Stages, Steps, Outputs, IsPlain, Asked
  <1>10. CASE clang
    BY <1>10 DEF clang, TypeOK, OwnFiles, Stages, Steps, Outputs, IsPlain, Asked
  <1>11. CASE rm
    BY <1>11 DEF rm, Exit, TypeOK, OwnFiles, Stages, Steps, Outputs, IsPlain
  <1> QED BY <1>1, <1>2, <1>3, <1>4, <1>5, <1>6, <1>7, <1>8, <1>9, <1>10, <1>11 DEF Next

LEMMA Inductive == Spec => []DriverInv
  <1>1. DriverInv /\ [Next]_vars => DriverInv'
    <2> SUFFICES ASSUME DriverInv, [Next]_vars PROVE DriverInv' OBVIOUS
    <2>1. CASE Next BY <2>1, StepInv
    <2>2. CASE UNCHANGED vars
      BY <2>2 DEF vars, DriverInv, TypeOK, OwnFiles, Stages, IsPlain, Asked
    <2> QED BY <2>1, <2>2
  <1> QED BY <1>1, InitInv, PTL DEF Spec

(* The files and the state of an invocation are what the modules say.      *)
THEOREM TypeCorrect == Spec => []TypeOK
  <1>1. DriverInv => TypeOK BY DEF DriverInv
  <1> QED BY <1>1, Inductive, PTL

-----------------------------------------------------------------------------
(* The refinement.  A step takes the source, puts an executable in place,  *)
(* ends the invocation, or changes nothing that Building knows of.         *)

LEMMA InitImplements == Init => Abstract!Init
  BY DEF Init, Abstract!Init, Outputs

(* A step further with a.out as it was.                                    *)
LEMMA OnwardImplements ==
    ASSUME Then("main") \/ Then("compile") \/ Then("print") \/ Then("write")
             \/ Then("llc") \/ Then("clang"),
           step # "idle", step # "rm", input' = input, source' = source, files'["a.out"] = files["a.out"]
    PROVE  UNCHANGED Abstract!vars
  BY DEF Then, Abstract!vars

LEMMA FailImplements ==
    ASSUME Fail, step # "idle"
    PROVE  Abstract!Next
  BY DEF Fail, Exit, Abstract!Next, Abstract!Stop

LEMMA StepImplements ==
    ASSUME DriverInv, DriverInv', [Next]_vars
    PROVE  [Abstract!Next]_(Abstract!vars)
  <1>1. CASE Edit
    BY <1>1 DEF Edit, Abstract!Next, Abstract!Edit
  <1>2. CASE little
    BY <1>2 DEF little, Abstract!Next, Abstract!Start
  <1>3. CASE CheckArguments
    BY <1>3, FailImplements, OnwardImplements DEF CheckArguments, Then
  <1>4. CASE ReadSource
    <2>1. CASE Fail BY <1>4, <2>1, FailImplements DEF ReadSource
    <2>2. CASE Then("llc") /\ UNCHANGED <<files, input, width>>
      BY <1>4, <2>2, OnwardImplements DEF ReadSource, Then
    <2>3. CASE Then("compile") /\ input' = source /\ UNCHANGED <<files, width>>
      <3>1. input = "nothing" BY <1>4 DEF ReadSource, DriverInv, Stages
      <3>2. Abstract!Take BY <1>4, <2>3, <3>1 DEF ReadSource, Then, Abstract!Take
      <3> QED BY <3>2 DEF Abstract!Next
    <2> QED BY <1>4, <2>1, <2>2, <2>3 DEF ReadSource
  <1>5. CASE Compile
    BY <1>5, FailImplements, OnwardImplements DEF Compile, Then
  <1>6. CASE OpenIR
    <2>1. files'["a.out"] = files["a.out"]
      BY <1>6 DEF OpenIR, DriverInv, TypeOK, Outputs
    <2> QED BY <1>6, <2>1, OnwardImplements DEF OpenIR, Then
  <1>7. CASE OpenFails \/ WriteFails \/ ToolFails \/ Interrupt
    BY <1>7, FailImplements DEF OpenFails, WriteFails, ToolFails, Interrupt
  <1>8. CASE WriteIR \/ llc
    <2>1. files'["a.out"] = files["a.out"]
      BY <1>8 DEF WriteIR, llc, DriverInv, TypeOK, Outputs
    <2> QED BY <1>8, <2>1, OnwardImplements DEF WriteIR, llc, Then
  <1>9. CASE clang
    <2>1. files'["a.out"] = files["a.o"]
      BY <1>9 DEF clang, DriverInv, TypeOK, Outputs
    <2>2. IsPlain(command) =>
            /\ input \in Programs /\ width \in Asked(command)
            /\ files["a.o"] = Compiled(input, width)
      BY <1>9 DEF clang, DriverInv, OwnFiles
    <2>3. command \in Commands /\ files["a.o"] \in Modules BY <1>9 DEF clang, DriverInv, TypeOK
    <2>4. Abstract!Build
      BY <1>9, <2>1, <2>2, <2>3, ProgramsAssumption
      DEF clang, Then, Abstract!Build, Abstract!Executable, Compiled
    <2> QED BY <2>4 DEF Abstract!Next
  <1>10. CASE rm
    <2>1. files'["a.out"] = files["a.out"] BY <1>10 DEF rm, DriverInv, TypeOK, Outputs
    <2>2. Abstract!Stop(0) BY <1>10, <2>1 DEF rm, Exit, Abstract!Stop
    <2> QED BY <2>2 DEF Abstract!Next
  <1>11. CASE UNCHANGED vars BY <1>11 DEF vars, Abstract!vars
  <1> QED BY <1>1, <1>2, <1>3, <1>4, <1>5, <1>6, <1>7, <1>8, <1>9, <1>10, <1>11 DEF Next

(* Whatever earlier invocations have left behind, wherever they failed or  *)
(* were interrupted, and whenever the source changes, an invocation of     *)
(* driver.sh with a plain command line puts in a.out only the executable   *)
(* of the source it has read, and succeeds only if it has.                 *)
THEOREM Promise == Spec => Implements
  <1>1. Spec => []DriverInv BY Inductive
  <1>2. DriverInv /\ DriverInv' /\ [Next]_vars => [Abstract!Next]_(Abstract!vars)
    BY StepImplements
  <1> QED BY <1>1, <1>2, InitImplements, PTL DEF Spec, Implements, Abstract!Spec
=============================================================================
