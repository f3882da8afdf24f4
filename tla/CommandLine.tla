------------------------------- MODULE CommandLine -------------------------------
(***************************************************************************)
(* mustachec, the command line tool: it reads its arguments from left to   *)
(* right, then the files they name, renders, and writes at the very end.   *)
(*                                                                         *)
(* An argument is what its spelling says: an option that takes a value,    *)
(* with the value attached or in the next argument, or one of the others.  *)
(* A text is what a value can be; as a path it names a file, whose first   *)
(* contents it stands for.  What a template, its partials and its data     *)
(* render to is the record of the three.  Every operation on a file or a   *)
(* stream, and every parse, may fail.                                      *)
(***************************************************************************)
EXTENDS Naturals, Sequences

CONSTANTS
    CommandLines,   \* the argument vectors
    Texts,          \* values of options
    Count,          \* text -> the number it spells, or Null
    Partial,        \* text -> <<name, path>> if it is <name>=<path>, or <<>>
    Format,         \* path -> "json", "yaml", or Null by its extension
    Available,      \* the formats built in
    Empty,          \* the text without characters
    Null,
    Truncated,      \* what a stream or file holds when writing it has not succeeded
    Usage, Version, \* what -h and -v write
    MaxRepetitions

\* What an argument can be: an option that takes a value, or anything else.
ValueOptions == {"template", "data", "output", "repeat", "partial"}
Spellings ==
    [form : {"separate", "attached", "equals"}, option : ValueOptions, value : Texts, text : Texts]
    \cup [form : {"help", "version", "end", "readable", "other"}, option : {"none"}, value : Texts, text : Texts]
PartialNames == {Partial[t][1] : t \in {u \in Texts : Partial[u] # <<>>}}
Tables == UNION {[names -> Texts] : names \in SUBSET PartialNames}
Renderings == [template : Texts, partials : Tables, data : Texts \cup {Null}]

ASSUME ArgumentsAssumption == CommandLines \subseteq Seq(Spellings) /\ Empty \in Texts /\ MaxRepetitions \in Nat
ASSUME ValuesAssumption ==
    /\ Count \in [Texts -> Nat \cup {Null}] /\ Null \notin Nat
    /\ \A t \in Texts : Partial[t] # <<>> => Partial[t][2] \in Texts
ASSUME OutputsAssumption ==
    /\ (Texts \cup {Null, Truncated}) \cap (Renderings \cup {Usage, Version}) = {}
    /\ {Usage, Version} \cap Renderings = {} /\ Truncated \notin Texts /\ Truncated # Null

VARIABLES
    arguments, index, endOfOptions, options,
    stage,          \* what run does next
    files,          \* path -> contents
    stdout,
    partials,       \* the partials compiled so far: name -> contents
    compiled, data, \* contents of the template and of the data
    repeated,       \* renders done
    rendered,
    status          \* what run returns

parsing == <<index, endOfOptions, options>>
inputs == <<compiled, partials, data>>
vars == <<arguments, parsing, stage, files, stdout, inputs, repeated, rendered, status>>

NoOptions ==
    [action |-> "render", template |-> Empty, data |-> Empty, output |-> Empty, partials |-> [n \in {} |-> Empty],
     repetitions |-> 1, repetitionsSet |-> FALSE, readable |-> FALSE]

\* Whatever run throws it catches, and reports to a stream that may fail as well.
Throw ==
    /\ stage' = "exited" /\ status' = 1
    /\ UNCHANGED <<arguments, parsing, files, stdout, inputs, repeated, rendered>>
Proceed(next) == stage' = next /\ UNCHANGED status

-----------------------------------------------------------------------------
(* parseOptions *)

Parses == stage = "parsing"
AtArgument == Parses /\ index <= Len(arguments)
Argument == arguments[index]
IsOption == AtArgument /\ ~endOfOptions

\* readOptionValue: the next argument, however it is spelled, or what follows the option.
TakesNext == Argument.form = "separate"
HasValue ==
    IF TakesNext THEN index < Len(arguments) /\ arguments[index + 1].text # Empty
    ELSE Argument.form = "attached" /\ Argument.value # Empty
OptionValue == IF TakesNext THEN arguments[index + 1].text ELSE Argument.value

AllowsCount(value) == Count[value] # Null /\ Count[value] \in 1..MaxRepetitions
AllowsPartial(value) == Partial[value] # <<>> /\ Partial[value][1] \notin DOMAIN options.partials
Allowed(option, value) ==
    CASE option = "template" -> options.template = Empty
      [] option = "data" -> options.data = Empty
      [] option = "output" -> options.output = Empty
      [] option = "repeat" -> ~options.repetitionsSet /\ AllowsCount(value)
      [] option = "partial" -> AllowsPartial(value)
With(option, value) ==
    CASE option = "template" -> [options EXCEPT !.template = value]
      [] option = "data" -> [options EXCEPT !.data = value]
      [] option = "output" -> [options EXCEPT !.output = value]
      [] option = "repeat" -> [options EXCEPT !.repetitions = Count[value], !.repetitionsSet = TRUE]
      [] option = "partial" ->
            [options EXCEPT !.partials =
                [n \in DOMAIN @ \cup {Partial[value][1]} |->
                    IF n = Partial[value][1] THEN Partial[value][2] ELSE options.partials[n]]]

Continue(o, next, ended) ==
    /\ options' = o /\ index' = next /\ endOfOptions' = ended
    /\ UNCHANGED <<arguments, stage, files, stdout, inputs, repeated, rendered, status>>
TakesValue == IsOption /\ Argument.form \in {"separate", "attached", "equals"}
Accepts == HasValue /\ Allowed(Argument.option, OptionValue)

EndOfOptions == IsOption /\ Argument.form = "end" /\ Continue(options, index + 1, TRUE)
Readable == IsOption /\ Argument.form = "readable" /\ Continue([options EXCEPT !.readable = TRUE], index + 1, FALSE)
\* Fault: a value is read again as an argument.
ReadsValueAgain ==
    /\ TakesValue /\ Accepts
    /\ Continue(With(Argument.option, OptionValue), index + 1, FALSE)
ReadsValue ==
    /\ TakesValue /\ Accepts
    /\ Continue(With(Argument.option, OptionValue), IF TakesNext THEN index + 2 ELSE index + 1, FALSE)
WrongValue == TakesValue /\ ~Accepts
RefuseValue == WrongValue /\ Throw
\* Nothing after -h or -v is looked at.
Informs ==
    /\ IsOption /\ Argument.form \in {"help", "version"}
    /\ options' = [options EXCEPT !.action = Argument.form]
    /\ Proceed("parsed")
    /\ UNCHANGED <<arguments, index, endOfOptions, files, stdout, inputs, repeated, rendered>>
WrongArgument == AtArgument /\ (Argument.form # "other" => endOfOptions)
RefuseArgument == WrongArgument /\ Throw
NoTemplate == Parses /\ index > Len(arguments) /\ options.template = Empty
RefuseNoTemplate == NoTemplate /\ Throw
EndOfArguments ==
    /\ Parses /\ index > Len(arguments) /\ options.template # Empty
    /\ Proceed("parsed")
    /\ UNCHANGED <<arguments, parsing, files, stdout, inputs, repeated, rendered>>

-----------------------------------------------------------------------------
(* run *)

Keep == UNCHANGED <<arguments, parsing, files, inputs, repeated, rendered>>

\* A warning for -r, on a stream of its own, comes before anything else.
Warn ==
    /\ stage = "parsed"
    /\ Proceed(IF options.action = "render" THEN "template" ELSE "informing")
    /\ Keep /\ UNCHANGED stdout
CannotWarn == stage = "parsed" /\ options.readable /\ Throw
Inform ==
    /\ stage = "informing"
    /\ stdout' = IF options.action = "help" THEN Usage ELSE Version
    /\ stage' = "exited" /\ status' = 0
    /\ Keep
\* The flush may fail where the write did not.
CannotInform ==
    /\ stage = "informing"
    /\ stdout' \in {stdout, Truncated}
    /\ stage' = "exited" /\ status' = 1
    /\ Keep

-----------------------------------------------------------------------------
(* render *)

\* Fault: the output file is opened before the template is read.
ReadTemplateOpened ==
    /\ stage = "template"
    /\ compiled' = files[options.template]
    /\ files' = IF options.output = Empty THEN files ELSE [files EXCEPT ![options.output] = Truncated]
    /\ Proceed("partials")
    /\ UNCHANGED <<arguments, parsing, stdout, partials, data, repeated, rendered>>
ReadTemplate ==
    /\ stage = "template"
    /\ compiled' = files[options.template]
    /\ Proceed("partials")
    /\ UNCHANGED <<arguments, parsing, files, stdout, partials, data, repeated, rendered>>
\* The partials in the order of the map.
ReadPartial ==
    /\ stage = "partials"
    /\ \E n \in DOMAIN options.partials \ DOMAIN partials :
        /\ \A m \in DOMAIN options.partials \ DOMAIN partials : n <= m
        /\ partials' = [m \in DOMAIN partials \cup {n} |->
                           IF m = n THEN files[options.partials[n]] ELSE partials[m]]
    /\ UNCHANGED <<arguments, parsing, stage, files, stdout, compiled, data, repeated, rendered, status>>
PartialsRead ==
    /\ stage = "partials" /\ DOMAIN partials = DOMAIN options.partials
    /\ Proceed("data")
    /\ Keep /\ UNCHANGED stdout
HasFormat == Format[options.data] \in Available
ReadData ==
    /\ stage = "data"
    /\ options.data = Empty \/ HasFormat
    /\ data' = IF options.data = Empty THEN Null ELSE files[options.data]
    /\ Proceed("rendering")
    /\ UNCHANGED <<arguments, parsing, files, stdout, compiled, partials, repeated, rendered>>
\* A file does not open or read, is too long, empty, or does not parse.
CannotRead ==
    /\ \/ stage = "template"
       \/ stage = "partials" /\ DOMAIN partials # DOMAIN options.partials
       \/ stage = "data" /\ options.data # Empty
    /\ Throw

\* Each render replaces the one before.
RenderAgain ==
    /\ stage = "rendering" /\ repeated < options.repetitions
    /\ rendered' = [template |-> compiled, partials |-> partials, data |-> data]
    /\ repeated' = repeated + 1
    /\ UNCHANGED <<arguments, parsing, stage, files, stdout, inputs, status>>
\* What fails, fails the first time.
CannotRender == stage = "rendering" /\ repeated = 0 /\ repeated < options.repetitions /\ Throw
Rendered ==
    /\ stage = "rendering" /\ repeated = options.repetitions
    /\ Proceed(IF options.output = Empty THEN "printing" ELSE "opening")
    /\ Keep /\ UNCHANGED stdout

PrintOutput ==
    /\ stage = "printing"
    /\ stdout' = rendered
    /\ stage' = "exited" /\ status' = 0
    /\ Keep
CannotPrint ==
    /\ stage = "printing"
    /\ stdout' \in {stdout, Truncated}
    /\ stage' = "exited" /\ status' = 1
    /\ Keep

OpenOutput ==
    /\ stage = "opening"
    /\ files' = [files EXCEPT ![options.output] = Truncated]
    /\ Proceed("writing")
    /\ UNCHANGED <<arguments, parsing, stdout, inputs, repeated, rendered>>
CannotOpen == stage = "opening" /\ Throw
WriteOutput ==
    /\ stage = "writing"
    /\ files' = [files EXCEPT ![options.output] = rendered]
    /\ stage' = "exited" /\ status' = 0
    /\ UNCHANGED <<arguments, parsing, stdout, inputs, repeated, rendered>>
\* Fault: the file is closed after its stream has been looked at.
IgnoresCloseFailure ==
    /\ stage = "writing"
    /\ stage' = "exited" /\ status' = 0
    /\ Keep /\ UNCHANGED stdout
CannotWrite == stage = "writing" /\ Throw

-----------------------------------------------------------------------------

Init ==
    /\ arguments \in CommandLines /\ index = 1 /\ endOfOptions = FALSE /\ options = NoOptions
    /\ stage = "parsing" /\ files = [p \in Texts |-> p] /\ stdout = Null
    /\ compiled = Null /\ partials = [n \in {} |-> Null] /\ data = Null
    /\ repeated = 0 /\ rendered = Null /\ status = Null

ParseStep ==
    \/ EndOfOptions \/ Readable \/ ReadsValue \/ RefuseValue \/ Informs
    \/ RefuseArgument \/ EndOfArguments \/ RefuseNoTemplate
RunStep ==
    \/ Warn \/ CannotWarn \/ Inform \/ CannotInform
    \/ ReadTemplate \/ ReadPartial \/ PartialsRead \/ ReadData \/ CannotRead
    \/ RenderAgain \/ CannotRender \/ Rendered
    \/ PrintOutput \/ CannotPrint \/ OpenOutput \/ CannotOpen \/ WriteOutput \/ CannotWrite
Next == ParseStep \/ RunStep
Spec == Init /\ [][Next]_vars

=============================================================================
