--------------------------- MODULE CommandLine_proofs ---------------------------
(***************************************************************************)
(* The command line tool reads its arguments as they are meant, writes     *)
(* last, and its exit status is true: for every set of command lines,      *)
(* whatever the files hold and whatever fails.                             *)
(*                                                                         *)
(* The inductive invariant follows a run through its stages: until the     *)
(* output is written nothing has changed, what has been read so far is     *)
(* what the files held at first, and an exit is one of four.               *)
(*                                                                         *)
(* While arguments are read, none before the next decides, and the options *)
(* hold what those before the next say.  An argument is a value exactly if *)
(* the one before takes it and is none itself.                             *)
(***************************************************************************)
EXTENDS CommandLineReference, SequenceTheorems, FiniteSetTheorems, TLAPS

Contents == [p \in Texts |-> p]
OptionsType ==
    [action : {"render", "help", "version"}, template : Texts, data : Texts, output : Texts, partials : Tables,
     repetitions : Nat \ {0}, repetitionsSet : BOOLEAN, readable : BOOLEAN]
Before == {"parsing", "parsed", "informing", "template", "partials", "data", "rendering", "printing", "opening"}
Rendering == options.action = "render"
ToFile == options.output # Empty
AllRendered == repeated = options.repetitions /\ rendered = Expected
Written(contents) == [Contents EXCEPT ![options.output] = contents]

Typed ==
    /\ arguments \in Seq(Spellings) /\ index \in Nat \ {0}
    /\ options \in OptionsType /\ repeated \in Nat
    /\ stage \in Before \cup {"writing", "exited"}
Untouched == stage \in Before => files = Contents /\ stdout = Null
Asked ==
    /\ stage = "parsing" => Rendering
    /\ stage = "informing" => ~Rendering
    /\ stage \in {"template", "partials", "data", "rendering", "printing", "opening", "writing"} => Rendering
PartialsSoFar ==
    /\ stage \in {"parsing", "parsed", "template"} => DOMAIN partials = {}
    /\ stage = "partials" =>
          \E names \in SUBSET DOMAIN options.partials : partials = [n \in names |-> options.partials[n]]
InputsRead ==
    /\ stage \in {"partials", "data", "rendering"} => compiled = options.template
    /\ stage \in {"data", "rendering"} => partials = options.partials
    /\ stage = "rendering" => data = Expected.data
RenderedSoFar ==
    /\ stage \in {"parsing", "parsed", "template", "partials", "data"} => repeated = 0
    /\ stage = "rendering" /\ repeated > 0 => rendered = Expected
    /\ stage \in {"printing", "opening", "writing"} => AllRendered
Writes ==
    /\ stage = "printing" => ~ToFile
    /\ stage \in {"opening", "writing"} => ToFile
    /\ stage = "writing" => files = Written(Truncated) /\ stdout = Null
Exits ==
    stage = "exited" =>
        \/ /\ status = 1 /\ files = Contents /\ stdout \in {Null, Truncated}
           /\ Rendering /\ stdout # Null => ~ToFile /\ AllRendered
        \/ status = 1 /\ Rendering /\ ToFile /\ AllRendered /\ files = Written(Truncated) /\ stdout = Null
        \/ /\ status = 0 /\ files = Contents
           /\ IF Rendering THEN ~ToFile /\ AllRendered /\ stdout = Expected
              ELSE stdout = IF options.action = "help" THEN Usage ELSE Version
        \/ status = 0 /\ Rendering /\ ToFile /\ AllRendered /\ files = Written(Expected) /\ stdout = Null
RunInv == Typed /\ Untouched /\ Asked /\ PartialsSoFar /\ InputsRead /\ RenderedSoFar /\ Writes /\ Exits

-----------------------------------------------------------------------------

\* What is read from files that were not touched is the name of what they held.
LEMMA FilesHoldThemselves == \A p \in Texts : Contents[p] = p
BY DEF Contents

\* What a render gives is no path, and neither nothing nor something unfinished.
LEMMA RenderingsAreRenderings ==
    ASSUME Typed
    PROVE  Expected \in Renderings
<1>1. options.template \in Texts /\ options.partials \in Tables /\ options.data \in Texts
  BY DEF Typed, OptionsType
<1> QED BY <1>1 DEF Expected, Renderings

LEMMA InitRuns == Init => RunInv
<1> SUFFICES ASSUME Init PROVE RunInv
  OBVIOUS
<1>1. arguments \in Seq(Spellings)
  BY ArgumentsAssumption DEF Init
<1>2. [n \in {} |-> Empty] \in [{} -> Texts] /\ {} \in SUBSET PartialNames
  OBVIOUS
<1>3. [n \in {} |-> Empty] \in Tables
  BY <1>2 DEF Tables
<1>4. options \in OptionsType
  BY <1>3, ArgumentsAssumption DEF Init, NoOptions, OptionsType
<1>5. stage = "parsing" /\ options.action = "render" /\ DOMAIN partials = {} /\ repeated = 0
  BY DEF Init, NoOptions
<1>6. Typed /\ Untouched
  <2>1. Typed
    BY <1>1, <1>4, <1>5 DEF Init, Typed, Before
  <2>2. Untouched
    BY DEF Init, Untouched, Contents
  <2> QED BY <2>1, <2>2
<1>7. Asked /\ PartialsSoFar /\ InputsRead /\ RenderedSoFar /\ Writes /\ Exits
  BY <1>5 DEF Asked, Rendering, PartialsSoFar, InputsRead, RenderedSoFar, Writes, Exits
<1> QED BY <1>6, <1>7 DEF RunInv

-----------------------------------------------------------------------------
(* Reading the arguments *)

\* An argument, and the value of its option, are what arguments can be.
LEMMA ArgumentsTyped ==
    ASSUME Typed, AtArgument
    PROVE  /\ Argument \in Spellings
           /\ TakesNext /\ HasValue => OptionValue \in Texts
           /\ ~TakesNext => OptionValue \in Texts
<1>1. arguments \in Seq(Spellings) /\ index \in 1..Len(arguments) /\ Len(arguments) \in Nat
  BY LenProperties DEF Typed, AtArgument
<1>2. Argument \in Spellings
  BY <1>1, ElementOfSeq DEF Argument
<1>3. ASSUME TakesNext, HasValue PROVE OptionValue \in Texts
  <2>1. index + 1 \in 1..Len(arguments)
    BY <1>1, <1>3 DEF HasValue
  <2>2. arguments[index + 1] \in Spellings
    BY <1>1, <2>1, ElementOfSeq
  <2> QED BY <1>3, <2>2 DEF OptionValue, Spellings
<1>4. ASSUME ~TakesNext PROVE OptionValue \in Texts
  BY <1>2, <1>4 DEF OptionValue, Spellings
<1> QED BY <1>2, <1>3, <1>4

\* A value that is taken leaves options that are options.
LEMMA ValuesKeepType ==
    ASSUME Typed, NEW option \in ValueOptions, NEW value \in Texts, Allowed(option, value)
    PROVE  With(option, value) \in OptionsType /\ With(option, value).action = options.action
<1>1. options \in OptionsType
  BY DEF Typed
<1>2. CASE option \in {"template", "data", "output"}
  BY <1>1, <1>2 DEF With, OptionsType
<1>3. CASE option = "repeat"
  <2>1. AllowsCount(value)
    BY <1>3 DEF Allowed
  <2>2. Count[value] \in Nat \ {0}
    BY <2>1, ArgumentsAssumption DEF AllowsCount
  <2> QED BY <1>1, <1>3, <2>2 DEF With, OptionsType
<1>4. CASE option = "partial"
  <2> DEFINE name == Partial[value][1]
             table == [n \in DOMAIN options.partials \cup {name} |-> IF n = name THEN Partial[value][2] ELSE options.partials[n]]
  <2>1. Partial[value] # <<>>
    BY <1>4 DEF Allowed, AllowsPartial
  <2>2. name \in PartialNames /\ Partial[value][2] \in Texts
    BY <2>1, ValuesAssumption DEF PartialNames
  <2>3. PICK names \in SUBSET PartialNames : options.partials \in [names -> Texts]
    BY <1>1 DEF OptionsType, Tables
  <2>4. table \in [names \cup {name} -> Texts] /\ names \cup {name} \in SUBSET PartialNames
    BY <2>2, <2>3
  <2>5. table \in Tables
    BY <2>4 DEF Tables
  <2>6. With(option, value) = [options EXCEPT !.partials = table]
    BY <1>4 DEF With
  <2> QED BY <1>1, <2>5, <2>6 DEF OptionsType
<1> QED BY <1>2, <1>3, <1>4 DEF ValueOptions

\* An argument that was read changes nothing else.
LEMMA ContinueRuns ==
    ASSUME RunInv, stage = "parsing", NEW o \in OptionsType, NEW next \in Nat \ {0}, NEW ended,
           o.action = options.action, Continue(o, next, ended)
    PROVE  RunInv'
<1>1. Typed'
  BY DEF RunInv, Typed, Continue, Before
<1>2. Untouched' /\ Asked' /\ InputsRead' /\ RenderedSoFar' /\ Writes' /\ Exits'
  BY DEF RunInv, Continue, Untouched, Asked, Rendering, InputsRead, RenderedSoFar, Writes, Exits, inputs, Before
<1>3. PartialsSoFar'
  BY DEF RunInv, Continue, PartialsSoFar, inputs
<1> QED BY <1>1, <1>2, <1>3 DEF RunInv

LEMMA ParseRuns ==
    ASSUME RunInv, ParseStep
    PROVE  RunInv' \/ Throw
<1> USE DEF Parses
<1>1. CASE EndOfOptions
  <2>1. stage = "parsing"
    BY <1>1 DEF EndOfOptions, IsOption, AtArgument
  <2>2. Continue(options, index + 1, TRUE)
    BY <1>1 DEF EndOfOptions
  <2>3. index + 1 \in Nat \ {0} /\ options \in OptionsType
    BY DEF RunInv, Typed
  <2> QED BY <2>1, <2>2, <2>3, ContinueRuns
<1>2. CASE Readable
  <2> DEFINE o == [options EXCEPT !.readable = TRUE]
  <2>1. stage = "parsing"
    BY <1>2 DEF Readable, IsOption, AtArgument
  <2>2. Continue(o, index + 1, FALSE)
    BY <1>2 DEF Readable
  <2>3. index + 1 \in Nat \ {0} /\ options \in OptionsType
    BY DEF RunInv, Typed
  <2>4. o \in OptionsType /\ o.action = options.action
    BY <2>3 DEF OptionsType
  <2> QED BY <2>1, <2>2, <2>3, <2>4, ContinueRuns
<1>3. CASE ReadsValue
  <2> DEFINE o == With(Argument.option, OptionValue)
             next == IF TakesNext THEN index + 2 ELSE index + 1
  <2>1. /\ stage = "parsing" /\ AtArgument /\ HasValue /\ Allowed(Argument.option, OptionValue)
        /\ Argument.form \in {"separate", "attached", "equals"} /\ Continue(o, next, FALSE)
    BY <1>3 DEF ReadsValue, TakesValue, Accepts, IsOption, AtArgument
  <2>2. OptionValue \in Texts /\ Argument.option \in ValueOptions
    BY <2>1, ArgumentsTyped DEF RunInv, Spellings
  <2>3. o \in OptionsType /\ o.action = options.action
    BY <2>1, <2>2, ValuesKeepType DEF RunInv
  <2>4. next \in Nat \ {0}
    BY DEF RunInv, Typed
  <2> QED BY <2>1, <2>3, <2>4, ContinueRuns
<1>4. CASE Informs
  <2>1. stage = "parsing" /\ Argument.form \in {"help", "version"}
    BY <1>4 DEF Informs, IsOption, AtArgument
  <2>2. Typed'
    BY <1>4, <2>1 DEF Informs, Proceed, RunInv, Typed, OptionsType, inputs, Before
  <2>3. Untouched' /\ Asked' /\ InputsRead' /\ RenderedSoFar' /\ Writes' /\ Exits'
    BY <1>4, <2>1 DEF Informs, Proceed, RunInv, Untouched, Asked, Rendering, InputsRead, RenderedSoFar, Writes, Exits,
       inputs, Before
  <2>4. PartialsSoFar'
    BY <1>4, <2>1 DEF Informs, Proceed, RunInv, PartialsSoFar, inputs
  <2> QED BY <2>2, <2>3, <2>4 DEF RunInv
<1>5. CASE EndOfArguments
  <2>1. stage = "parsing" /\ stage' = "parsed"
    BY <1>5 DEF EndOfArguments, Proceed
  <2>2. Typed'
    BY <1>5, <2>1 DEF EndOfArguments, RunInv, Typed, inputs, parsing, Before
  <2>3. Untouched' /\ Asked' /\ InputsRead' /\ RenderedSoFar' /\ Writes' /\ Exits'
    BY <1>5, <2>1 DEF EndOfArguments, RunInv, Untouched, Asked, Rendering, InputsRead, RenderedSoFar, Writes, Exits,
       inputs, parsing, Before
  <2>4. PartialsSoFar'
    BY <1>5, <2>1 DEF EndOfArguments, RunInv, PartialsSoFar, inputs
  <2> QED BY <2>2, <2>3, <2>4 DEF RunInv
<1> QED BY <1>1, <1>2, <1>3, <1>4, <1>5 DEF ParseStep, RefuseValue, RefuseArgument, RefuseNoTemplate

-----------------------------------------------------------------------------
(* Running *)

\* What run throws leaves things as they are, but for an output that was opened.
LEMMA ThrowRuns ==
    ASSUME RunInv, stage # "exited", Throw
    PROVE  RunInv'
<1>1. stage' = "exited" /\ status' = 1 /\ UNCHANGED <<arguments, index, options, files, stdout, repeated, rendered>>
  BY DEF Throw, parsing
<1>2. Typed'
  BY <1>1 DEF RunInv, Typed
<1>3. Exits'
  <2>1. CASE stage = "writing"
    <3>1. Rendering /\ AllRendered /\ ToFile /\ files = Written(Truncated) /\ stdout = Null
      BY <2>1 DEF RunInv, Asked, RenderedSoFar, Writes
    <3>2. Rendering' /\ AllRendered' /\ ToFile' /\ files' = Written(Truncated)' /\ stdout' = Null
      BY <1>1, <3>1 DEF Rendering, AllRendered, ToFile, Written, Expected
    <3> QED BY <1>1, <3>2 DEF Exits
  <2>2. CASE stage # "writing"
    <3>1. files = Contents /\ stdout = Null
      BY <2>2 DEF RunInv, Untouched, Typed
    <3>2. files' = Contents /\ stdout' = Null
      BY <1>1, <3>1
    <3> QED BY <1>1, <3>2 DEF Exits
  <2> QED BY <2>1, <2>2
<1>4. Untouched' /\ Asked' /\ PartialsSoFar' /\ InputsRead' /\ RenderedSoFar' /\ Writes'
  BY <1>1 DEF Untouched, Before, Asked, PartialsSoFar, InputsRead, RenderedSoFar, Writes
<1> QED BY <1>2, <1>3, <1>4 DEF RunInv

\* Up to the output, a step that only reads and renders.
LEMMA QuietStep ==
    ASSUME RunInv, stage \in Before, stage' \in Before, repeated' \in Nat,
           UNCHANGED <<arguments, index, options, files, stdout>>,
           (Asked /\ PartialsSoFar /\ InputsRead /\ RenderedSoFar /\ Writes)'
    PROVE  RunInv'
<1>1. Typed'
  BY DEF RunInv, Typed
<1>2. Untouched'
  BY DEF RunInv, Untouched
<1>3. Exits'
  BY DEF Exits, Before
<1> QED BY <1>1, <1>2, <1>3 DEF RunInv

LEMMA ReadingRuns ==
    ASSUME RunInv, Warn \/ ReadTemplate \/ ReadPartial \/ PartialsRead \/ ReadData
    PROVE  RunInv'
<1>1. CASE Warn
  <2>1. /\ stage = "parsed" /\ stage' = (IF Rendering THEN "template" ELSE "informing")
        /\ UNCHANGED <<arguments, index, options, files, stdout, compiled, partials, data, repeated, rendered>>
    BY <1>1 DEF Warn, Proceed, Keep, parsing, inputs, Rendering
  <2>2. stage \in Before /\ stage' \in Before /\ repeated' \in Nat
    BY <2>1 DEF Before, RunInv, Typed
  <2>3. Asked' /\ PartialsSoFar' /\ InputsRead' /\ RenderedSoFar' /\ Writes'
    BY <2>1 DEF RunInv, Asked, Rendering, PartialsSoFar, InputsRead, RenderedSoFar, Writes
  <2> QED BY <2>1, <2>2, <2>3, QuietStep
<1>2. CASE ReadTemplate
  <2>1. /\ stage = "template" /\ stage' = "partials" /\ compiled' = files[options.template]
        /\ UNCHANGED <<arguments, index, options, files, stdout, partials, data, repeated, rendered>>
    BY <1>2 DEF ReadTemplate, Proceed, parsing
  <2>2. stage \in Before /\ stage' \in Before /\ repeated' \in Nat
    BY <2>1 DEF Before, RunInv, Typed
  <2>3. compiled' = options.template
    <3>1. files = Contents /\ options.template \in Texts
      BY <2>2 DEF RunInv, Untouched, Typed, OptionsType
    <3> QED BY <2>1, <3>1, FilesHoldThemselves
  <2>4. PartialsSoFar'
    <3>1. DOMAIN partials = {}
      BY <2>1 DEF RunInv, PartialsSoFar
    <3>2. partials = [n \in {} |-> options.partials[n]]
      BY <2>1, <3>1 DEF RunInv, PartialsSoFar
    <3> QED BY <2>1, <3>2 DEF PartialsSoFar
  <2>5. Asked' /\ InputsRead' /\ RenderedSoFar' /\ Writes'
    BY <2>1, <2>3 DEF RunInv, Asked, Rendering, InputsRead, RenderedSoFar, Writes
  <2> QED BY <2>1, <2>2, <2>4, <2>5, QuietStep
<1>3. CASE ReadPartial
  <2>1. /\ stage = "partials" /\ stage' = stage
        /\ UNCHANGED <<arguments, index, options, files, stdout, compiled, data, repeated, rendered>>
    BY <1>3 DEF ReadPartial, parsing
  <2>2. stage \in Before /\ stage' \in Before /\ repeated' \in Nat
    BY <2>1 DEF Before, RunInv, Typed
  <2>3. PICK n \in DOMAIN options.partials \ DOMAIN partials :
           partials' = [m \in DOMAIN partials \cup {n} |-> IF m = n THEN files[options.partials[n]] ELSE partials[m]]
    BY <1>3 DEF ReadPartial
  <2>4. PICK names \in SUBSET DOMAIN options.partials : partials = [m \in names |-> options.partials[m]]
    BY <2>1 DEF RunInv, PartialsSoFar
  <2>5. files[options.partials[n]] = options.partials[n]
    <3>1. files = Contents /\ options.partials \in Tables
      BY <2>2 DEF RunInv, Untouched, Typed, OptionsType
    <3>2. options.partials[n] \in Texts
      BY <3>1, <2>3 DEF Tables
    <3> QED BY <3>1, <3>2, FilesHoldThemselves
  <2>6. partials' = [m \in names \cup {n} |-> options.partials[m]] /\ names \cup {n} \in SUBSET DOMAIN options.partials
    BY <2>3, <2>4, <2>5
  <2>7. PartialsSoFar'
    BY <2>1, <2>6 DEF PartialsSoFar
  <2>8. Asked' /\ InputsRead' /\ RenderedSoFar' /\ Writes'
    BY <2>1 DEF RunInv, Asked, Rendering, InputsRead, RenderedSoFar, Writes
  <2> QED BY <2>1, <2>2, <2>7, <2>8, QuietStep
<1>4. CASE PartialsRead
  <2>1. /\ stage = "partials" /\ stage' = "data" /\ DOMAIN partials = DOMAIN options.partials
        /\ UNCHANGED <<arguments, index, options, files, stdout, compiled, partials, data, repeated, rendered>>
    BY <1>4 DEF PartialsRead, Proceed, Keep, parsing, inputs
  <2>2. stage \in Before /\ stage' \in Before /\ repeated' \in Nat
    BY <2>1 DEF Before, RunInv, Typed
  <2>3. partials = options.partials
    <3>1. PICK names \in SUBSET DOMAIN options.partials : partials = [m \in names |-> options.partials[m]]
      BY <2>1 DEF RunInv, PartialsSoFar
    <3>2. options.partials \in Tables
      BY DEF RunInv, Typed, OptionsType
    <3> QED BY <2>1, <3>1, <3>2 DEF Tables
  <2>4. Asked' /\ PartialsSoFar' /\ InputsRead' /\ RenderedSoFar' /\ Writes'
    BY <2>1, <2>3 DEF RunInv, Asked, Rendering, PartialsSoFar, InputsRead, RenderedSoFar, Writes
  <2> QED BY <2>1, <2>2, <2>4, QuietStep
<1>5. CASE ReadData
  <2>1. /\ stage = "data" /\ stage' = "rendering"
        /\ data' = IF options.data = Empty THEN Null ELSE files[options.data]
        /\ UNCHANGED <<arguments, index, options, files, stdout, compiled, partials, repeated, rendered>>
    BY <1>5 DEF ReadData, Proceed, parsing
  <2>2. stage \in Before /\ stage' \in Before /\ repeated' \in Nat
    BY <2>1 DEF Before, RunInv, Typed
  <2>3. data' = Expected'.data
    <3>1. files = Contents /\ options.data \in Texts
      BY <2>2 DEF RunInv, Untouched, Typed, OptionsType
    <3>2. files[options.data] = options.data
      BY <3>1, FilesHoldThemselves
    <3> QED BY <2>1, <3>2 DEF Expected
  <2>4. Asked' /\ PartialsSoFar' /\ RenderedSoFar' /\ Writes'
    BY <2>1 DEF RunInv, Asked, Rendering, PartialsSoFar, RenderedSoFar, Writes
  <2>5. InputsRead'
    BY <2>1, <2>3 DEF RunInv, InputsRead
  <2> QED BY <2>1, <2>2, <2>4, <2>5, QuietStep
<1> QED BY <1>1, <1>2, <1>3, <1>4, <1>5

LEMMA RenderingRuns ==
    ASSUME RunInv, RenderAgain \/ Rendered \/ OpenOutput
    PROVE  RunInv'
<1>1. CASE RenderAgain
  <2>1. /\ stage = "rendering" /\ stage' = stage /\ repeated' = repeated + 1
        /\ rendered' = [template |-> compiled, partials |-> partials, data |-> data]
        /\ UNCHANGED <<arguments, index, options, files, stdout, compiled, partials, data>>
    BY <1>1 DEF RenderAgain, parsing, inputs
  <2>2. stage \in Before /\ stage' \in Before /\ repeated' \in Nat
    BY <2>1 DEF Before, RunInv, Typed
  <2>3. compiled = options.template /\ partials = options.partials /\ data = Expected.data
    BY <2>1 DEF RunInv, InputsRead
  <2>4. rendered' = Expected'
    BY <2>1, <2>3 DEF Expected
  <2>5. Asked' /\ PartialsSoFar' /\ InputsRead' /\ Writes'
    BY <2>1 DEF RunInv, Asked, Rendering, PartialsSoFar, InputsRead, Expected, Writes
  <2>6. RenderedSoFar'
    BY <2>1, <2>4 DEF RenderedSoFar
  <2> QED BY <2>1, <2>2, <2>5, <2>6, QuietStep
<1>2. CASE Rendered
  <2>1. /\ stage = "rendering" /\ stage' = (IF ToFile THEN "opening" ELSE "printing")
        /\ repeated = options.repetitions
        /\ UNCHANGED <<arguments, index, options, files, stdout, compiled, partials, data, repeated, rendered>>
    BY <1>2 DEF Rendered, Proceed, Keep, parsing, inputs, ToFile
  <2>2. stage \in Before /\ stage' \in Before /\ repeated' \in Nat
    BY <2>1 DEF Before, RunInv, Typed
  <2>3. repeated \in Nat \ {0}
    BY <2>1 DEF RunInv, Typed, OptionsType
  <2>4. AllRendered
    BY <2>1, <2>3 DEF RunInv, RenderedSoFar, AllRendered
  <2>5. AllRendered' /\ (ToFile' = ToFile)
    BY <2>1, <2>4 DEF AllRendered, Expected, ToFile
  <2>6. Asked' /\ PartialsSoFar' /\ InputsRead' /\ RenderedSoFar' /\ Writes'
    BY <2>1, <2>5 DEF RunInv, Asked, Rendering, PartialsSoFar, InputsRead, RenderedSoFar, Writes
  <2> QED BY <2>1, <2>2, <2>6, QuietStep
<1>3. CASE OpenOutput
  <2>1. /\ stage = "opening" /\ stage' = "writing" /\ files' = [files EXCEPT ![options.output] = Truncated]
        /\ UNCHANGED <<arguments, index, options, stdout, repeated, rendered>>
    BY <1>3 DEF OpenOutput, Proceed, parsing
  <2>2. Rendering /\ AllRendered /\ ToFile /\ files = Contents /\ stdout = Null
    BY <2>1 DEF RunInv, Asked, RenderedSoFar, Writes, Untouched, Before
  <2>3. Rendering' /\ AllRendered' /\ ToFile' /\ files' = Written(Truncated)' /\ stdout' = Null
    BY <2>1, <2>2 DEF Rendering, AllRendered, ToFile, Written, Expected
  <2>4. Typed'
    BY <2>1 DEF RunInv, Typed
  <2>5. Untouched' /\ Asked' /\ PartialsSoFar' /\ InputsRead' /\ RenderedSoFar' /\ Writes' /\ Exits'
    BY <2>1, <2>3 DEF Untouched, Before, Asked, PartialsSoFar, InputsRead, RenderedSoFar, Writes, Exits
  <2> QED BY <2>4, <2>5 DEF RunInv
<1> QED BY <1>1, <1>2, <1>3

\* The process ends with what it has written.
LEMMA ExitStep ==
    ASSUME RunInv, stage' = "exited", UNCHANGED <<arguments, index, options, repeated>>, Exits'
    PROVE  RunInv'
<1>1. Typed'
  BY DEF RunInv, Typed
<1>2. Untouched' /\ Asked' /\ PartialsSoFar' /\ InputsRead' /\ RenderedSoFar' /\ Writes'
  BY DEF Untouched, Before, Asked, PartialsSoFar, InputsRead, RenderedSoFar, Writes
<1> QED BY <1>1, <1>2 DEF RunInv

LEMMA ExitRuns ==
    ASSUME RunInv, Inform \/ CannotInform \/ PrintOutput \/ CannotPrint \/ WriteOutput
    PROVE  RunInv'
<1>1. CASE Inform \/ CannotInform
  <2>1. /\ stage = "informing" /\ stage' = "exited"
        /\ \/ status' = 0 /\ stdout' = IF options.action = "help" THEN Usage ELSE Version
           \/ status' = 1 /\ stdout' \in {stdout, Truncated}
        /\ UNCHANGED <<arguments, index, options, files, repeated, rendered>>
    BY <1>1 DEF Inform, CannotInform, Keep, parsing
  <2>2. ~Rendering /\ files = Contents /\ stdout = Null
    BY <2>1 DEF RunInv, Asked, Untouched, Before
  <2>3. ~Rendering' /\ files' = Contents
    BY <2>1, <2>2 DEF Rendering
  <2>4. Exits'
    BY <2>1, <2>2, <2>3 DEF Exits
  <2> QED BY <2>1, <2>4, ExitStep
<1>2. CASE PrintOutput \/ CannotPrint
  <2>1. /\ stage = "printing" /\ stage' = "exited"
        /\ \/ status' = 0 /\ stdout' = rendered
           \/ status' = 1 /\ stdout' \in {stdout, Truncated}
        /\ UNCHANGED <<arguments, index, options, files, repeated, rendered>>
    BY <1>2 DEF PrintOutput, CannotPrint, Keep, parsing
  <2>2. Rendering /\ AllRendered /\ ~ToFile /\ files = Contents /\ stdout = Null
    BY <2>1 DEF RunInv, Asked, RenderedSoFar, Writes, Untouched, Before
  <2>3. Rendering' /\ AllRendered' /\ ~ToFile' /\ files' = Contents /\ rendered = Expected'
    BY <2>1, <2>2 DEF Rendering, AllRendered, ToFile, Expected
  <2>4. Exits'
    BY <2>1, <2>2, <2>3 DEF Exits
  <2> QED BY <2>1, <2>4, ExitStep
<1>3. CASE WriteOutput
  <2>1. /\ stage = "writing" /\ stage' = "exited" /\ status' = 0 /\ files' = [files EXCEPT ![options.output] = rendered]
        /\ UNCHANGED <<arguments, index, options, stdout, repeated, rendered>>
    BY <1>3 DEF WriteOutput, parsing
  <2>2. Rendering /\ AllRendered /\ ToFile /\ files = Written(Truncated) /\ stdout = Null
    BY <2>1 DEF RunInv, Asked, RenderedSoFar, Writes
  <2>3. files' = Written(Expected)
    BY <2>1, <2>2 DEF Written, AllRendered, Contents
  <2>4. Rendering' /\ AllRendered' /\ ToFile' /\ files' = Written(Expected)' /\ stdout' = Null
    BY <2>1, <2>2, <2>3 DEF Rendering, AllRendered, ToFile, Expected, Written
  <2>5. Exits'
    BY <2>1, <2>4 DEF Exits
  <2> QED BY <2>1, <2>5, ExitStep
<1> QED BY <1>1, <1>2, <1>3

\* Every step of the tool keeps the invariant.
LEMMA StepRuns ==
    ASSUME RunInv, [Next]_vars
    PROVE  RunInv'
<1>1. CASE ParseStep
  <2>1. stage = "parsing"
    BY <1>1 DEF ParseStep, EndOfOptions, Readable, ReadsValue, RefuseValue, Informs, RefuseArgument, EndOfArguments,
       RefuseNoTemplate, TakesValue, WrongValue, WrongArgument, NoTemplate, IsOption, AtArgument, Parses
  <2>2. Throw => RunInv'
    BY <2>1, ThrowRuns
  <2> QED BY <1>1, <2>2, ParseRuns
<1>2. CASE Warn \/ ReadTemplate \/ ReadPartial \/ PartialsRead \/ ReadData
  BY <1>2, ReadingRuns
<1>3. CASE RenderAgain \/ Rendered \/ OpenOutput
  BY <1>3, RenderingRuns
<1>4. CASE Inform \/ CannotInform \/ PrintOutput \/ CannotPrint \/ WriteOutput
  BY <1>4, ExitRuns
<1>5. CASE CannotWarn \/ CannotRead \/ CannotRender \/ CannotOpen \/ CannotWrite
  <2>1. stage # "exited" /\ Throw
    BY <1>5 DEF CannotWarn, CannotRead, CannotRender, CannotOpen, CannotWrite
  <2> QED BY <2>1, ThrowRuns
<1>6. CASE UNCHANGED vars
  <2>1. UNCHANGED <<arguments, index, options, stage, files, stdout, compiled, partials, data, repeated, rendered, status>>
    BY <1>6 DEF vars, parsing, inputs
  <2>2. Typed' /\ Untouched' /\ Asked'
    BY <2>1 DEF RunInv, Typed, Untouched, Asked, Rendering
  <2>3. PartialsSoFar' /\ InputsRead' /\ RenderedSoFar'
    BY <2>1 DEF RunInv, PartialsSoFar, InputsRead, RenderedSoFar, AllRendered, Expected
  <2>4. Writes' /\ Exits'
    BY <2>1 DEF RunInv, Writes, Exits, ToFile, Written, Rendering, AllRendered, Expected
  <2> QED BY <2>2, <2>3, <2>4 DEF RunInv
<1> QED BY <1>1, <1>2, <1>3, <1>4, <1>5, <1>6 DEF Next, RunStep

LEMMA AlwaysRuns == Spec => []RunInv
<1>1. RunInv /\ [Next]_vars => RunInv'
  BY StepRuns
<1> QED BY <1>1, InitRuns, PTL DEF Spec

-----------------------------------------------------------------------------

\* Writing one path leaves the others as they were.
LEMMA WrittenIsElsewhere ==
    ASSUME NEW contents, options.output \in Texts
    PROVE  /\ Written(contents)[options.output] = contents
           /\ \A p \in Texts : p # options.output => Written(contents)[p] = p
BY DEF Written, Contents

LEMMA RunsWriteLast == RunInv => WritesLast
<1> SUFFICES ASSUME RunInv PROVE WritesLast
  OBVIOUS
<1>1. options.output \in Texts
  BY DEF RunInv, Typed, OptionsType
<1>2. CASE files = Contents /\ stdout = Null
  BY <1>2, FilesHoldThemselves DEF WritesLast
<1>3. CASE /\ Rendering /\ ToFile /\ AllRendered /\ stdout = Null
           /\ files = Written(Truncated) \/ files = Written(Expected)
  <2>1. \A p \in Texts : files[p] # p => p = options.output /\ files[p] \in {Truncated, Expected}
    BY <1>1, <1>3, WrittenIsElsewhere
  <2> QED BY <1>3, <2>1 DEF WritesLast, AllRendered
<1>4. CASE /\ files = Contents /\ stdout \in {Truncated, Expected}
           /\ Rendering => ~ToFile /\ AllRendered
  BY <1>4, FilesHoldThemselves DEF WritesLast, Rendering, ToFile, AllRendered
<1>5. CASE files = Contents /\ ~Rendering
  BY <1>5, FilesHoldThemselves DEF WritesLast, Rendering
<1>6. CASE stage \in Before
  BY <1>2, <1>6 DEF RunInv, Untouched
<1>7. CASE stage = "writing"
  BY <1>3, <1>7 DEF RunInv, Asked, RenderedSoFar, Writes
<1>8. CASE stage = "exited"
  BY <1>2, <1>3, <1>4, <1>5, <1>8 DEF RunInv, Exits
<1> QED BY <1>6, <1>7, <1>8 DEF RunInv, Typed

LEMMA RunsExitTruly == RunInv => StatusIsTrue
<1> SUFFICES ASSUME RunInv, stage = "exited" PROVE (status = 0) = Delivered
  BY DEF StatusIsTrue
<1>1. options.output \in Texts /\ options.action \in {"render", "help", "version"}
  BY DEF RunInv, Typed, OptionsType
<1>2. Expected \in Renderings
  BY RenderingsAreRenderings DEF RunInv
<1>3. Expected \notin Texts \cup {Null, Truncated} /\ {Usage, Version} \cap {Null, Truncated} = {}
  BY <1>2, OutputsAssumption
<1>4. CASE /\ status = 1 /\ files = Contents /\ stdout \in {Null, Truncated}
  <2>1. files[options.output] \in Texts
    BY <1>1, <1>4, FilesHoldThemselves
  <2>2. stdout # Usage /\ stdout # Version /\ stdout # Expected /\ files[options.output] # Expected
    BY <1>3, <1>4, <2>1
  <2> QED BY <1>4, <2>2 DEF Delivered
<1>5. CASE status = 1 /\ Rendering /\ ToFile /\ files = Written(Truncated)
  <2>1. files[options.output] = Truncated
    BY <1>1, <1>5, WrittenIsElsewhere
  <2> QED BY <1>3, <1>5, <2>1 DEF Delivered, Rendering, ToFile
<1>6. CASE /\ status = 0
           /\ IF Rendering THEN ~ToFile /\ stdout = Expected
              ELSE stdout = IF options.action = "help" THEN Usage ELSE Version
  BY <1>1, <1>6 DEF Delivered, Rendering, ToFile
<1>7. CASE status = 0 /\ Rendering /\ ToFile /\ files = Written(Expected)
  <2>1. files[options.output] = Expected
    BY <1>1, <1>7, WrittenIsElsewhere
  <2> QED BY <1>7, <2>1 DEF Delivered, Rendering, ToFile
<1> QED BY <1>4, <1>5, <1>6, <1>7 DEF RunInv, Exits

\* Whatever a run of the tool is asked for and whatever fails, it changes no file and prints nothing of a
\* render before it has read and rendered everything, and then writes only where it was told to.
THEOREM ToolWritesLast == Spec => []WritesLast
BY AlwaysRuns, RunsWriteLast, PTL

\* The exit status is 0 exactly when what was asked for is where it was asked for.
THEOREM StatusIsNeverFalse == Spec => []StatusIsTrue
BY AlwaysRuns, RunsExitTruly, PTL

-----------------------------------------------------------------------------
(* Which arguments are values *)

\* The options with a separate value that stand in a row right before i.
Row(i) == {j \in 1..(i - 1) : \A k \in j..(i - 1) : Form(k) = "separate"}

LEMMA TakenIsOdd == \A i : IsTaken(i) <=> Cardinality(Row(i)) % 2 = 1
BY DEF IsTaken, Row, Form

\* An argument is taken exactly if the one before it takes it and is not taken itself.
LEMMA TakenInTurn ==
    ASSUME NEW i \in Nat \ {0}
    PROVE  IsTaken(i + 1) <=> (Form(i) = "separate" /\ ~IsTaken(i))
<1>1. (i + 1) - 1 = i /\ i - 1 \in Nat /\ i - 1 < i
  OBVIOUS
<1>2. IsFiniteSet(Row(i)) /\ Cardinality(Row(i)) \in Nat
  <2>1. IsFiniteSet(1..(i - 1)) /\ Row(i) \subseteq 1..(i - 1)
    BY <1>1, FS_Interval DEF Row
  <2> QED BY <2>1, FS_Subset, FS_CardinalityType
<1>3. CASE Form(i) = "separate"
  <2>1. Row(i + 1) = Row(i) \cup {i} /\ i \notin Row(i)
    <3>1. ASSUME NEW j \in 1..i PROVE (\A k \in j..i : Form(k) = "separate") <=> (\A k \in j..(i - 1) : Form(k) = "separate")
      <4>1. \A k \in j..i : k = i \/ k \in j..(i - 1)
        OBVIOUS
      <4>2. j..(i - 1) \subseteq j..i
        OBVIOUS
      <4> QED BY <1>3, <4>1, <4>2
    <3>2. i \in 1..i /\ \A k \in i..(i - 1) : FALSE
      OBVIOUS
    <3>3. \A j \in 1..i : j = i \/ j \in 1..(i - 1)
      OBVIOUS
    <3>4. 1..(i - 1) \subseteq 1..i /\ i \notin 1..(i - 1)
      OBVIOUS
    <3> QED BY <1>1, <3>1, <3>2, <3>3, <3>4 DEF Row
  <2>2. Cardinality(Row(i + 1)) = Cardinality(Row(i)) + 1
    BY <1>2, <2>1, FS_AddElement
  <2>3. PICK c \in Nat : c = Cardinality(Row(i))
    BY <1>2
  <2>4. (c + 1) % 2 = 1 <=> ~(c % 2 = 1)
    BY <2>3
  <2> QED BY <1>3, <2>2, <2>3, <2>4, TakenIsOdd
<1>4. CASE Form(i) # "separate"
  <2>1. Row(i + 1) = {}
    <3>1. \A j \in 1..i : i \in j..i
      OBVIOUS
    <3> QED BY <1>1, <1>4, <3>1 DEF Row
  <2>2. Cardinality(Row(i + 1)) = 0
    BY <2>1, FS_EmptySet
  <2>3. ~(0 % 2 = 1)
    OBVIOUS
  <2> QED BY <1>4, <2>2, <2>3, TakenIsOdd
<1> QED BY <1>3, <1>4

LEMMA FirstIsFree == ~IsTaken(1)
<1>1. Row(1) = {}
  <2>1. \A j \in 1..(1 - 1) : FALSE
    OBVIOUS
  <2> QED BY <2>1 DEF Row
<1>2. Cardinality(Row(1)) = 0 /\ ~(0 % 2 = 1)
  BY <1>1, FS_EmptySet
<1> QED BY <1>2, TakenIsOdd

\* Where the next option stands.
LEMMA Advances ==
    ASSUME arguments \in Seq(Spellings), NEW n \in 1..Len(arguments), ~IsTaken(n), NEW m,
           m = (IF Form(n) = "separate" THEN n + 2 ELSE n + 1)
    PROVE  /\ n \in Options /\ m \in Nat \ {0} /\ ~IsTaken(m)
           /\ \A i \in Options : i < m <=> (i < n \/ i = n)
<1>1. DOMAIN arguments = 1..Len(arguments) /\ Len(arguments) \in Nat /\ n \in Nat \ {0} /\ n + 1 \in Nat \ {0}
  OBVIOUS
<1>2. n \in Options
  BY <1>1 DEF Options
<1>3. \A i \in Options : i \in Nat
  BY <1>1 DEF Options
<1>4. CASE Form(n) = "separate"
  <2>1. IsTaken(n + 1) /\ n + 1 \notin Options
    BY <1>1, <1>4, TakenInTurn DEF Options
  <2>2. ~IsTaken((n + 1) + 1)
    BY <1>1, <2>1, TakenInTurn
  <2>3. (n + 1) + 1 = n + 2
    BY <1>1
  <2>4. \A i \in Nat : i < n + 2 <=> (i < n \/ i = n \/ i = n + 1)
    BY <1>1
  <2>5. ~IsTaken(n + 2)
    BY <2>2, <2>3
  <2> QED BY <1>1, <1>2, <1>3, <1>4, <2>1, <2>4, <2>5
<1>5. CASE Form(n) # "separate"
  <2>1. ~IsTaken(n + 1)
    BY <1>1, <1>5, TakenInTurn
  <2>2. \A i \in Nat : i < n + 1 <=> (i < n \/ i = n)
    BY <1>1
  <2> QED BY <1>1, <1>2, <1>3, <1>5, <2>1, <2>2
<1> QED BY <1>4, <1>5

-----------------------------------------------------------------------------
(* What has been read so far *)

SeenAt(n) == {i \in Options : i < n}
GivenAt(option, n) == {i \in Given(option) : i < n}
Holds(value, option, n) ==
    /\ GivenAt(option, n) = {} => value = Empty
    /\ \A i \in GivenAt(option, n) : value = ValueAt(i)

\* The arguments before n are read, none of them decides, and o holds what they say.
ParsedUpTo(n, o, ended) ==
    /\ n \in 1..(Len(arguments) + 1) /\ ~IsTaken(n)
    /\ \A i \in SeenAt(n) : ~Wrong(i) /\ Form(i) \notin {"help", "version"}
    /\ ended <=> \E i \in SeenAt(n) : Form(i) = "end"
    /\ o.readable <=> \E i \in SeenAt(n) : Form(i) = "readable"
    /\ o.action = "render"
    /\ Holds(o.template, "template", n) /\ Holds(o.data, "data", n) /\ Holds(o.output, "output", n)
    /\ o.repetitionsSet <=> GivenAt("repeat", n) # {}
    /\ GivenAt("repeat", n) = {} => o.repetitions = 1
    /\ \A i \in GivenAt("repeat", n) : o.repetitions = Count[ValueAt(i)]
    /\ DOMAIN o.partials = {NamesPartial(i) : i \in GivenAt("partial", n)}
    /\ \A i \in GivenAt("partial", n) : o.partials[NamesPartial(i)] = Partial[ValueAt(i)][2]
Parsed == ParsedUpTo(index, options, endOfOptions)

LEMMA SeenGrows ==
    ASSUME arguments \in Seq(Spellings), NEW n \in 1..Len(arguments), ~IsTaken(n), NEW m,
           m = (IF Form(n) = "separate" THEN n + 2 ELSE n + 1)
    PROVE  /\ SeenAt(m) = SeenAt(n) \cup {n}
           /\ \A option : n \in Given(option) => GivenAt(option, m) = GivenAt(option, n) \cup {n}
           /\ \A option : n \notin Given(option) => GivenAt(option, m) = GivenAt(option, n)
<1>1. n \in Options /\ \A i \in Options : i < m <=> (i < n \/ i = n)
  BY Advances
<1>2. \A option : Given(option) \subseteq Options
  BY DEF Given
<1> QED BY <1>1, <1>2 DEF SeenAt, GivenAt

\* The argument that is read, and its value, in the words of both.
LEMMA ArgumentMeans ==
    ASSUME Typed, Parsed, AtArgument
    PROVE  /\ index \in 1..Len(arguments) /\ index \in Options /\ Form(index) = Argument.form
           /\ Argument.form \in {"separate", "attached", "equals", "help", "version", "end", "readable", "other"}
           /\ \A option : index \in Given(option) <=> Argument.form \in {"separate", "attached"} /\ Argument.option = option
           /\ HasValue => ValueAt(index) = OptionValue
           /\ Argument.form \in {"separate", "attached", "equals"} =>
                 /\ Argument.option \in ValueOptions
                 /\ HasValue <=> Argument.form # "equals" /\ ValueAt(index) # Empty
<1>1. index \in 1..Len(arguments) /\ Len(arguments) \in Nat /\ DOMAIN arguments = 1..Len(arguments) /\ ~IsTaken(index)
  BY DEF Typed, AtArgument, Parsed, ParsedUpTo
<1>l. index < Len(arguments) <=> index # Len(arguments)
  <2>1. PICK i, n : i = index /\ n = Len(arguments)
    OBVIOUS
  <2>2. i \in 1..n /\ n \in Nat
    BY <1>1, <2>1
  <2>3. i < n <=> i # n
    BY <2>2
  <2> QED BY <2>1, <2>3
<1>2. index \in Options /\ Form(index) = Argument.form
  BY <1>1 DEF Options, Form, Argument
<1>3. Argument \in Spellings
  BY ArgumentsTyped
<1>4. /\ Argument.form \in {"separate", "attached", "equals", "help", "version", "end", "readable", "other"}
      /\ Argument.form \in {"separate", "attached", "equals"} => Argument.option \in ValueOptions
  BY <1>3 DEF Spellings
<1>5. \A option : index \in Given(option) <=> Argument.form \in {"separate", "attached"} /\ Argument.option = option
  BY <1>2 DEF Given, Argument
<1>6. HasValue => ValueAt(index) = OptionValue
  BY <1>l, <1>2 DEF HasValue, ValueAt, OptionValue, TakesNext, Argument
<1>7. Argument.form \in {"separate", "attached", "equals"} => (HasValue <=> Argument.form # "equals" /\ ValueAt(index) # Empty)
  <2>1. CASE Argument.form = "separate"
    <3>2. ValueAt(index) = IF index = Len(arguments) THEN Empty ELSE arguments[index + 1].text
      BY <1>2, <2>1 DEF ValueAt
    <3> QED BY <1>l, <2>1, <3>2 DEF HasValue, TakesNext
  <2>2. CASE Argument.form # "separate"
    <3>1. ValueAt(index) = Argument.value
      BY <1>2, <2>2 DEF ValueAt, Argument
    <3>2. HasValue <=> Argument.form = "attached" /\ Argument.value # Empty
      BY <2>2 DEF HasValue, TakesNext
    <3> QED BY <2>2, <3>1, <3>2
  <2> QED BY <2>1, <2>2
<1> QED BY <1>1, <1>2, <1>4, <1>5, <1>6, <1>7

\* An argument after --, whatever it is, repeats it.
LEMMA EndedIsWrong ==
    ASSUME Typed, Parsed, AtArgument
    PROVE  endOfOptions <=> \E j \in Options : j < index /\ Form(j) = "end"
BY DEF Parsed, ParsedUpTo, SeenAt

\* What an option was given before is what the options hold.
LEMMA GivenBefore ==
    ASSUME Typed, Parsed
    PROVE  /\ \A j \in GivenAt("template", index) : options.template = ValueAt(j) /\ ValueAt(j) # Empty
           /\ \A j \in GivenAt("data", index) : options.data = ValueAt(j) /\ ValueAt(j) # Empty
           /\ \A j \in GivenAt("output", index) : options.output = ValueAt(j) /\ ValueAt(j) # Empty
           /\ \A j \in GivenAt("partial", index) : Partial[ValueAt(j)] # <<>>
<1>1. ASSUME NEW option, NEW j \in GivenAt(option, index)
      PROVE  ValueAt(j) # Empty /\ (option = "partial" => Partial[ValueAt(j)] # <<>>)
  <2>1. j \in SeenAt(index) /\ j \in Given(option) /\ Form(j) \in {"separate", "attached"}
    BY <1>1 DEF GivenAt, SeenAt, Given
  <2>2. ~Malformed(j)
    BY <2>1 DEF Parsed, ParsedUpTo, Wrong
  <2> QED BY <2>1, <2>2 DEF Malformed
<1>2. /\ \A j \in GivenAt("template", index) : options.template = ValueAt(j)
      /\ \A j \in GivenAt("data", index) : options.data = ValueAt(j)
      /\ \A j \in GivenAt("output", index) : options.output = ValueAt(j)
  BY DEF Parsed, ParsedUpTo, Holds
<1> QED BY <1>1, <1>2

\* An option is repeated exactly if the code finds its place taken.
LEMMA TakenPlaces ==
    ASSUME Typed, Parsed
    PROVE  /\ options.template # Empty <=> GivenAt("template", index) # {}
           /\ options.data # Empty <=> GivenAt("data", index) # {}
           /\ options.output # Empty <=> GivenAt("output", index) # {}
           /\ options.repetitionsSet <=> GivenAt("repeat", index) # {}
           /\ \A name : name \in DOMAIN options.partials <=> \E j \in GivenAt("partial", index) : NamesPartial(j) = name
<1>1. /\ GivenAt("template", index) = {} => options.template = Empty
      /\ GivenAt("data", index) = {} => options.data = Empty
      /\ GivenAt("output", index) = {} => options.output = Empty
  BY DEF Parsed, ParsedUpTo, Holds
<1>2. options.repetitionsSet <=> GivenAt("repeat", index) # {}
  BY DEF Parsed, ParsedUpTo
<1>3. DOMAIN options.partials = {NamesPartial(i) : i \in GivenAt("partial", index)}
  BY DEF Parsed, ParsedUpTo
<1>4. \A name : name \in DOMAIN options.partials <=> \E j \in GivenAt("partial", index) : NamesPartial(j) = name
  BY <1>3
<1> QED BY <1>1, <1>2, <1>4, GivenBefore

\* A value is refused exactly if its argument is wrong.
LEMMA AcceptsWhatIsRight ==
    ASSUME Typed, Parsed, TakesValue
    PROVE  Accepts <=> ~Wrong(index)
<1>a. AtArgument /\ ~endOfOptions /\ Argument.form \in {"separate", "attached", "equals"}
  BY DEF TakesValue, IsOption
<1>o. PICK o : o = Argument.option
  OBVIOUS
<1>v. PICK v : v = ValueAt(index)
  OBVIOUS
<1>1. /\ index \in 1..Len(arguments) /\ index \in Options /\ Form(index) = Argument.form
      /\ \A option : index \in Given(option) <=> Argument.form \in {"separate", "attached"} /\ o = option
      /\ HasValue => v = OptionValue
      /\ o \in ValueOptions
      /\ HasValue <=> Argument.form # "equals" /\ v # Empty
  BY <1>a, <1>o, <1>v, ArgumentMeans
<1>2. CASE ~HasValue
  <2>1. Malformed(index)
    BY <1>a, <1>1, <1>2, <1>v DEF Malformed
  <2> QED BY <1>2, <2>1 DEF Accepts, Wrong
<1>3. CASE HasValue
  <2>1. /\ v = OptionValue /\ v # Empty /\ Form(index) \in {"separate", "attached"}
        /\ \A option : index \in Given(option) <=> o = option
    BY <1>a, <1>1, <1>3
  <2>2. ~(\E j \in Options : j < index /\ Form(j) = "end")
    BY <1>a, EndedIsWrong
  <2>3. Malformed(index) <=> \/ o = "repeat" /\ ~AllowsCount(v)
                             \/ o = "partial" /\ Partial[v] = <<>>
    BY <1>v, <2>1 DEF Malformed, AllowsCount
  <2>4. ASSUME NEW option, o = option
        PROVE  \A j : j \in GivenAt(option, index) <=> j \in Options /\ j < index /\ {index, j} \subseteq Given(option)
    BY <2>1, <2>4 DEF GivenAt, Given
  <2>5. Accepts <=> Allowed(o, v)
    BY <1>3, <1>o, <2>1 DEF Accepts
  <2>6. ASSUME o \in {"template", "data", "output", "repeat"}
        PROVE  Repeats(index) <=> GivenAt(o, index) # {}
    <3>1. Repeats(index) <=> \E j \in Options : j < index /\ {index, j} \subseteq Given(o)
      <4>1. index \notin Given("partial")
        BY <2>1, <2>6
      <4>2. \A option : index \in Given(option) => option = o
        BY <2>1
      <4> QED BY <2>2, <2>6, <4>1, <4>2 DEF Repeats
    <3> QED BY <2>4, <3>1
  <2>7. ASSUME o = "partial"
        PROVE  Repeats(index) <=> \E j \in GivenAt("partial", index) :
                                     Partial[v] # <<>> /\ NamesPartial(j) = Partial[v][1]
    <3>1. \A option \in {"template", "data", "output", "repeat"} : index \notin Given(option)
      BY <2>1, <2>7
    <3>2. Repeats(index) <=> \E j \in Options : j < index /\ {index, j} \subseteq Given("partial")
                                /\ Partial[v] # <<>> /\ Partial[ValueAt(j)] # <<>> /\ NamesPartial(index) = NamesPartial(j)
      BY <1>v, <2>2, <3>1 DEF Repeats
    <3>3. NamesPartial(index) = Partial[v][1]
      BY <1>v DEF NamesPartial
    <3>4. \A j \in GivenAt("partial", index) : Partial[ValueAt(j)] # <<>>
      BY GivenBefore
    <3> QED BY <2>4, <2>7, <3>2, <3>3, <3>4
  <2>8. CASE o = "template"
    BY <2>3, <2>5, <2>6, <2>8, TakenPlaces DEF Allowed, Wrong
  <2>9. CASE o = "data"
    BY <2>3, <2>5, <2>6, <2>9, TakenPlaces DEF Allowed, Wrong
  <2>10. CASE o = "output"
    BY <2>3, <2>5, <2>6, <2>10, TakenPlaces DEF Allowed, Wrong
  <2>11. CASE o = "repeat"
    BY <2>3, <2>5, <2>6, <2>11, TakenPlaces DEF Allowed, Wrong
  <2>12. CASE o = "partial"
    <3>1. Allowed(o, v) <=> Partial[v] # <<>> /\ Partial[v][1] \notin DOMAIN options.partials
      BY <2>12 DEF Allowed, AllowsPartial
    <3>2. Partial[v][1] \in DOMAIN options.partials <=> \E j \in GivenAt("partial", index) : NamesPartial(j) = Partial[v][1]
      BY TakenPlaces
    <3>3. Malformed(index) <=> Partial[v] = <<>>
      BY <2>3, <2>12
    <3> QED BY <2>5, <2>7, <2>12, <3>1, <3>2, <3>3 DEF Wrong
  <2> QED BY <1>1, <2>8, <2>9, <2>10, <2>11, <2>12 DEF ValueOptions
<1> QED BY <1>2, <1>3

\* Past an argument that decides nothing.
LEMMA Passes ==
    ASSUME Typed, Parsed, AtArgument, ~Wrong(index), Form(index) \notin {"help", "version"},
           NEW m, m = (IF Form(index) = "separate" THEN index + 2 ELSE index + 1)
    PROVE  /\ m \in 1..(Len(arguments) + 1) /\ ~IsTaken(m)
           /\ SeenAt(m) = SeenAt(index) \cup {index}
           /\ \A i \in SeenAt(m) : ~Wrong(i) /\ Form(i) \notin {"help", "version"}
           /\ \A option : index \in Given(option) => GivenAt(option, m) = GivenAt(option, index) \cup {index}
           /\ \A option : index \notin Given(option) => GivenAt(option, m) = GivenAt(option, index)
<1>1. /\ arguments \in Seq(Spellings) /\ Len(arguments) \in Nat /\ index \in 1..Len(arguments) /\ ~IsTaken(index)
      /\ \A i \in SeenAt(index) : ~Wrong(i) /\ Form(i) \notin {"help", "version"}
  BY ArgumentMeans DEF Typed, Parsed, ParsedUpTo
<1>2. /\ SeenAt(m) = SeenAt(index) \cup {index}
      /\ \A option : index \in Given(option) => GivenAt(option, m) = GivenAt(option, index) \cup {index}
      /\ \A option : index \notin Given(option) => GivenAt(option, m) = GivenAt(option, index)
  <2>1. PICK n : n = index
    OBVIOUS
  <2>2. arguments \in Seq(Spellings) /\ n \in 1..Len(arguments) /\ ~IsTaken(n) /\ m = (IF Form(n) = "separate" THEN n + 2 ELSE n + 1)
    BY <1>1, <2>1
  <2>3. /\ SeenAt(m) = SeenAt(n) \cup {n}
        /\ \A option : n \in Given(option) => GivenAt(option, m) = GivenAt(option, n) \cup {n}
        /\ \A option : n \notin Given(option) => GivenAt(option, m) = GivenAt(option, n)
    BY <2>2, SeenGrows
  <2> QED BY <2>1, <2>3
<1>3. ~IsTaken(m)
  BY <1>1, Advances
<1>4. m \in 1..(Len(arguments) + 1)
  <2>1. PICK i, n : i = index /\ n = Len(arguments)
    OBVIOUS
  <2>2. i \in 1..n /\ n \in Nat
    BY <1>1, <2>1
  <2>3. CASE Form(index) = "separate"
    <3>1. ~Malformed(index)
      BY DEF Wrong
    <3>2. ValueAt(index) # Empty
      BY <2>3, <3>1 DEF Malformed
    <3>3. i # n
      BY <2>1, <2>3, <3>2 DEF ValueAt
    <3>4. i + 2 \in 1..(n + 1)
      BY <2>2, <3>3
    <3> QED BY <2>1, <2>3, <3>4
  <2>4. CASE Form(index) # "separate"
    <3>1. i + 1 \in 1..(n + 1)
      BY <2>2
    <3> QED BY <2>1, <2>4, <3>1
  <2> QED BY <2>3, <2>4
<1> QED BY <1>1, <1>2, <1>3, <1>4

\* A mark: -- or -r.
LEMMA ReadsMark ==
    ASSUME Typed, Parsed, IsOption, NEW o, NEW ended \in BOOLEAN,
           \/ Argument.form = "end" /\ o = options /\ ended
           \/ Argument.form = "readable" /\ o = [options EXCEPT !.readable = TRUE] /\ ~ended
    PROVE  ParsedUpTo(index + 1, o, ended)
<1>1. AtArgument /\ ~endOfOptions /\ Form(index) = Argument.form /\ Form(index) \in {"end", "readable"} /\ index \in Options
  BY ArgumentMeans DEF IsOption
<1>2. \A option : index \notin Given(option)
  BY <1>1 DEF Given
<1>3. ~Wrong(index)
  <2>1. ~Malformed(index)
    BY <1>1, <1>2 DEF Malformed
  <2>2. ~Repeats(index)
    BY <1>1, <1>2, EndedIsWrong DEF Repeats
  <2> QED BY <2>1, <2>2 DEF Wrong
<1>m. PICK m : m = index + 1
  OBVIOUS
<1>4. /\ m \in 1..(Len(arguments) + 1) /\ ~IsTaken(m)
      /\ SeenAt(m) = SeenAt(index) \cup {index}
      /\ \A i \in SeenAt(m) : ~Wrong(i) /\ Form(i) \notin {"help", "version"}
      /\ \A option : GivenAt(option, m) = GivenAt(option, index)
  BY <1>1, <1>2, <1>3, <1>m, Passes
<1>5. options \in OptionsType
  BY DEF Typed
<1>6. /\ o.action = options.action /\ o.template = options.template /\ o.data = options.data /\ o.output = options.output
      /\ o.repetitionsSet = options.repetitionsSet /\ o.repetitions = options.repetitions /\ o.partials = options.partials
      /\ o.readable <=> options.readable \/ Argument.form = "readable"
  <2>1. CASE Argument.form = "end" /\ o = options
    BY <2>1
  <2>2. CASE Argument.form = "readable" /\ o = [options EXCEPT !.readable = TRUE]
    BY <1>5, <2>2 DEF OptionsType
  <2> QED BY <2>1, <2>2
<1>7. /\ ended <=> \E i \in SeenAt(m) : Form(i) = "end"
      /\ o.readable <=> \E i \in SeenAt(m) : Form(i) = "readable"
  <2>1. /\ ~\E i \in SeenAt(index) : Form(i) = "end"
        /\ options.readable <=> \E i \in SeenAt(index) : Form(i) = "readable"
    BY <1>1 DEF Parsed, ParsedUpTo
  <2>2. ended <=> Form(index) = "end"
    BY <1>1
  <2> QED BY <1>1, <1>4, <1>6, <2>1, <2>2
<1>8. /\ o.action = "render"
      /\ Holds(o.template, "template", m) /\ Holds(o.data, "data", m) /\ Holds(o.output, "output", m)
      /\ o.repetitionsSet <=> GivenAt("repeat", m) # {}
      /\ GivenAt("repeat", m) = {} => o.repetitions = 1
      /\ \A i \in GivenAt("repeat", m) : o.repetitions = Count[ValueAt(i)]
      /\ DOMAIN o.partials = {NamesPartial(i) : i \in GivenAt("partial", m)}
      /\ \A i \in GivenAt("partial", m) : o.partials[NamesPartial(i)] = Partial[ValueAt(i)][2]
  BY <1>4, <1>6 DEF Parsed, ParsedUpTo, Holds
<1>9. ParsedUpTo(m, o, ended)
  BY <1>4, <1>7, <1>8 DEF ParsedUpTo
<1> QED BY <1>9, <1>m

\* An option with its value.
LEMMA ReadsOption ==
    ASSUME Typed, Parsed, TakesValue, Accepts,
           NEW m, m = (IF TakesNext THEN index + 2 ELSE index + 1), NEW o, o = With(Argument.option, OptionValue)
    PROVE  ParsedUpTo(m, o, FALSE)
<1>a. AtArgument /\ ~endOfOptions /\ Argument.form \in {"separate", "attached", "equals"}
  BY DEF TakesValue, IsOption
<1>p. PICK p : p = Argument.option
  OBVIOUS
<1>v. PICK v : v = OptionValue
  OBVIOUS
<1>1. /\ index \in 1..Len(arguments) /\ index \in Options /\ Form(index) = Argument.form
      /\ \A option : index \in Given(option) <=> Argument.form \in {"separate", "attached"} /\ p = option
      /\ HasValue => ValueAt(index) = v
      /\ p \in ValueOptions
      /\ HasValue <=> Argument.form # "equals" /\ ValueAt(index) # Empty
  BY <1>a, <1>p, <1>v, ArgumentMeans
<1>2. /\ HasValue /\ Allowed(p, v) /\ ValueAt(index) = v /\ o = With(p, v) /\ Argument.form \in {"separate", "attached"}
      /\ \A option : index \in Given(option) <=> p = option
  BY <1>1, <1>a, <1>p, <1>v DEF Accepts
<1>3. ~Wrong(index)
  BY AcceptsWhatIsRight
<1>4. /\ m \in 1..(Len(arguments) + 1) /\ ~IsTaken(m)
      /\ SeenAt(m) = SeenAt(index) \cup {index}
      /\ \A i \in SeenAt(m) : ~Wrong(i) /\ Form(i) \notin {"help", "version"}
      /\ GivenAt(p, m) = GivenAt(p, index) \cup {index}
      /\ \A option : option # p => GivenAt(option, m) = GivenAt(option, index)
  <2>1. m = (IF Form(index) = "separate" THEN index + 2 ELSE index + 1) /\ Form(index) \notin {"help", "version"}
    BY <1>1, <1>2 DEF TakesNext
  <2> QED BY <1>a, <1>2, <1>3, <2>1, Passes
<1>5. options \in OptionsType
  BY DEF Typed
<1>6. (\A i \in SeenAt(m) : Form(i) # "end") /\ (options.readable <=> \E i \in SeenAt(m) : Form(i) = "readable")
  <2>1. /\ ~\E i \in SeenAt(index) : Form(i) = "end"
        /\ options.readable <=> \E i \in SeenAt(index) : Form(i) = "readable"
    BY <1>a DEF Parsed, ParsedUpTo
  <2> QED BY <1>1, <1>2, <1>4, <2>1
<1>7. /\ options.action = "render"
      /\ Holds(options.template, "template", index) /\ Holds(options.data, "data", index) /\ Holds(options.output, "output", index)
      /\ options.repetitionsSet <=> GivenAt("repeat", index) # {}
      /\ GivenAt("repeat", index) = {} => options.repetitions = 1
      /\ \A i \in GivenAt("repeat", index) : options.repetitions = Count[ValueAt(i)]
      /\ DOMAIN options.partials = {NamesPartial(i) : i \in GivenAt("partial", index)}
      /\ \A i \in GivenAt("partial", index) : options.partials[NamesPartial(i)] = Partial[ValueAt(i)][2]
  BY DEF Parsed, ParsedUpTo
<1>8. ASSUME NEW option \in {"template", "data", "output"}
      PROVE  /\ p = option /\ GivenAt(option, index) = {} => Holds(v, option, m)
             /\ \A value : p # option /\ Holds(value, option, index) => Holds(value, option, m)
  BY <1>2, <1>4 DEF Holds
<1>9. CASE p \in {"template", "data", "output"}
  <2>1. /\ o.action = "render" /\ (o.readable <=> options.readable)
        /\ o.repetitionsSet = options.repetitionsSet /\ o.repetitions = options.repetitions /\ o.partials = options.partials
        /\ o.template = IF p = "template" THEN v ELSE options.template
        /\ o.data = IF p = "data" THEN v ELSE options.data
        /\ o.output = IF p = "output" THEN v ELSE options.output
    BY <1>2, <1>5, <1>7, <1>9 DEF With, OptionsType
  <2>2. GivenAt(p, index) = {}
    BY <1>2, <1>9, TakenPlaces DEF Allowed
  <2>3. Holds(o.template, "template", m) /\ Holds(o.data, "data", m) /\ Holds(o.output, "output", m)
    BY <1>7, <1>8, <2>1, <2>2
  <2>4. GivenAt("repeat", m) = GivenAt("repeat", index) /\ GivenAt("partial", m) = GivenAt("partial", index)
    BY <1>4, <1>9
  <2> QED BY <1>4, <1>6, <1>7, <2>1, <2>3, <2>4 DEF ParsedUpTo
<1>10. CASE p = "repeat"
  <2>1. /\ o.action = "render" /\ (o.readable <=> options.readable)
        /\ o.repetitionsSet /\ o.repetitions = Count[v] /\ o.partials = options.partials
        /\ o.template = options.template /\ o.data = options.data /\ o.output = options.output
    BY <1>2, <1>5, <1>7, <1>10 DEF With, OptionsType
  <2>2. GivenAt("repeat", index) = {}
    BY <1>2, <1>10, TakenPlaces DEF Allowed
  <2>3. Holds(o.template, "template", m) /\ Holds(o.data, "data", m) /\ Holds(o.output, "output", m)
    BY <1>7, <1>8, <1>10, <2>1
  <2>4. GivenAt("repeat", m) = {index} /\ GivenAt("partial", m) = GivenAt("partial", index)
    BY <1>4, <1>10, <2>2
  <2> QED BY <1>2, <1>4, <1>6, <1>7, <2>1, <2>3, <2>4 DEF ParsedUpTo
<1>11. CASE p = "partial"
  <2>t. PICK t : t = [n \in DOMAIN options.partials \cup {Partial[v][1]} |-> IF n = Partial[v][1] THEN Partial[v][2] ELSE options.partials[n]]
    OBVIOUS
  <2>1. o = [options EXCEPT !.partials = t]
    BY <1>2, <1>11, <2>t DEF With
  <2>2. /\ o.action = "render" /\ (o.readable <=> options.readable)
        /\ o.repetitionsSet = options.repetitionsSet /\ o.repetitions = options.repetitions /\ o.partials = t
        /\ o.template = options.template /\ o.data = options.data /\ o.output = options.output
    BY <1>5, <1>7, <2>1 DEF OptionsType
  <2>3. Partial[v][1] \notin DOMAIN options.partials
    BY <1>2, <1>11 DEF Allowed, AllowsPartial
  <2>4. NamesPartial(index) = Partial[v][1] /\ GivenAt("partial", m) = GivenAt("partial", index) \cup {index}
    BY <1>2, <1>4, <1>11 DEF NamesPartial
  <2>5. Holds(o.template, "template", m) /\ Holds(o.data, "data", m) /\ Holds(o.output, "output", m)
    BY <1>7, <1>8, <1>11, <2>2
  <2>6. DOMAIN t = {NamesPartial(i) : i \in GivenAt("partial", m)}
    BY <1>7, <2>t, <2>4
  <2>7. ASSUME NEW i \in GivenAt("partial", m) PROVE t[NamesPartial(i)] = Partial[ValueAt(i)][2]
    <3>1. CASE i = index
      BY <1>2, <2>t, <2>4, <3>1
    <3>2. CASE i # index
      <4>1. i \in GivenAt("partial", index)
        BY <2>4, <3>2
      <4>2. NamesPartial(i) \in DOMAIN options.partials /\ options.partials[NamesPartial(i)] = Partial[ValueAt(i)][2]
        BY <1>7, <4>1
      <4> QED BY <2>t, <2>3, <4>2
    <3> QED BY <3>1, <3>2
  <2>8. GivenAt("repeat", m) = GivenAt("repeat", index)
    BY <1>4, <1>11
  <2> QED BY <1>4, <1>6, <1>7, <2>2, <2>5, <2>6, <2>7, <2>8 DEF ParsedUpTo
<1> QED BY <1>1, <1>9, <1>10, <1>11 DEF ValueOptions

-----------------------------------------------------------------------------
(* What a line means does not change while it is read *)

FirstOf(S) == CHOOSE i \in S : \A j \in S : i <= j
OneOf(S) == CHOOSE i \in S : TRUE

LEMMA MeaningStays ==
    ASSUME arguments' = arguments
    PROVE  /\ \A i : IsTaken(i)' <=> IsTaken(i)
           /\ Options' = Options
           /\ \A i : Form(i)' = Form(i)
           /\ \A i : ValueAt(i)' = ValueAt(i)
           /\ \A option : Given(option)' = Given(option)
           /\ \A i : NamesPartial(i)' = NamesPartial(i)
           /\ \A i : Wrong(i)' <=> Wrong(i)
           /\ Decisive' = Decisive
           /\ Meaning' = Meaning
           /\ \A option : TheValue(option)' = TheValue(option)
<1>1. \A i : Row(i)' = Row(i)
  BY DEF Row, Form
<1>2. \A i : IsTaken(i)' <=> IsTaken(i)
  <2> TAKE i
  <2>1. Row(i)' = Row(i)
    BY <1>1
  <2>2. Cardinality(Row(i)') % 2 = 1 <=> Cardinality(Row(i)) % 2 = 1
    BY <2>1
  <2> QED BY <2>2 DEF IsTaken, Row, Form
<1>3. \A i : Form(i)' = Form(i)
  BY DEF Form
<1>4. Options' = Options
  BY <1>2 DEF Options
<1>5. \A i : ValueAt(i)' = ValueAt(i)
  BY DEF ValueAt, Form
<1>6. \A option : Given(option)' = Given(option)
  BY <1>3, <1>4 DEF Given
<1>7. \A i : NamesPartial(i)' = NamesPartial(i)
  BY <1>5 DEF NamesPartial
<1>8. \A i : Malformed(i)' <=> Malformed(i)
  BY <1>3, <1>5, <1>6 DEF Malformed
<1>9. \A i : Repeats(i)' <=> Repeats(i)
  BY <1>3, <1>4, <1>5, <1>6, <1>7 DEF Repeats
<1>10. \A i : Wrong(i)' <=> Wrong(i)
  BY <1>8, <1>9 DEF Wrong
<1>11. Decisive' = Decisive
  BY <1>3, <1>4, <1>10 DEF Decisive
<1>12. First = FirstOf(Decisive) /\ First' = FirstOf(Decisive')
  BY DEF First, FirstOf
<1>13. First' = First
  BY <1>11, <1>12
<1>14. Meaning' = Meaning
  <2>1. PICK f : f = First
    OBVIOUS
  <2>2. f = First' /\ (Wrong(f)' <=> Wrong(f)) /\ Form(f)' = Form(f)
    BY <1>3, <1>10, <1>13, <2>1
  <2>3. Given("template")' = Given("template")
    BY <1>6
  <2> QED BY <1>11, <2>1, <2>2, <2>3 DEF Meaning
<1>15. \A option : TheValue(option)' = TheValue(option)
  <2> TAKE option
  <2>1. PICK g : g = Given(option)
    OBVIOUS
  <2>2. g = Given(option)'
    BY <1>6, <2>1
  <2>3. TheValue(option) = IF g = {} THEN Empty ELSE ValueAt(OneOf(g))
    BY <2>1 DEF TheValue, OneOf
  <2>4. TheValue(option)' = IF g = {} THEN Empty ELSE ValueAt(OneOf(g))'
    BY <2>2 DEF TheValue, OneOf
  <2> QED BY <1>5, <2>3, <2>4
<1> QED BY <1>2, <1>3, <1>4, <1>5, <1>6, <1>7, <1>10, <1>11, <1>14, <1>15

\* What was read stays read.
LEMMA ReadStays ==
    ASSUME arguments' = arguments, NEW n, NEW o, NEW ended, ParsedUpTo(n, o, ended),
           index' = n, options' = o, endOfOptions' = ended
    PROVE  Parsed'
<1>1. /\ \A i : IsTaken(i)' <=> IsTaken(i)
      /\ Options' = Options
      /\ \A i : Form(i)' = Form(i)
      /\ \A i : ValueAt(i)' = ValueAt(i)
      /\ \A option : Given(option)' = Given(option)
      /\ \A i : NamesPartial(i)' = NamesPartial(i)
      /\ \A i : Wrong(i)' <=> Wrong(i)
  BY MeaningStays
<1>2. SeenAt(n)' = SeenAt(n)
  BY <1>1 DEF SeenAt
<1>3. \A option : GivenAt(option, n)' = GivenAt(option, n)
  BY <1>1 DEF GivenAt
<1>4. \A value, option : Holds(value, option, n)' <=> Holds(value, option, n)
  BY <1>1, <1>3 DEF Holds
<1>5. ParsedUpTo(n, o, ended)'
  BY <1>1, <1>2, <1>3, <1>4 DEF ParsedUpTo
<1> QED BY <1>5 DEF Parsed

\* What was meant stays meant.
LEMMA MeantStays ==
    ASSUME arguments' = arguments, NEW o, options' = o,
           o.action = Meaning,
           o.readable \in BOOLEAN,
           o.readable <=> \E i \in Options : Form(i) = "readable" /\ \A j \in Decisive : i < j,
           Meaning = "render" =>
               /\ o.template = TheValue("template")
               /\ o.data = TheValue("data") /\ o.output = TheValue("output")
               /\ o.repetitions = (IF Given("repeat") = {} THEN 1 ELSE Count[TheValue("repeat")])
               /\ DOMAIN o.partials = {NamesPartial(i) : i \in Given("partial")}
               /\ \A i \in Given("partial") : o.partials[NamesPartial(i)] = Partial[ValueAt(i)][2]
    PROVE  Meant'
<1>1. /\ Options' = Options /\ Decisive' = Decisive /\ Meaning' = Meaning
      /\ \A i : Form(i)' = Form(i)
      /\ \A i : ValueAt(i)' = ValueAt(i)
      /\ \A i : NamesPartial(i)' = NamesPartial(i)
      /\ \A option : Given(option)' = Given(option)
      /\ \A option : TheValue(option)' = TheValue(option)
  BY MeaningStays
<1>2. (o.readable = (\E i \in Options : Form(i) = "readable" /\ \A j \in Decisive : i < j))'
  <2>1. o.readable <=> (\E i \in Options' : Form(i)' = "readable" /\ \A j \in Decisive' : i < j)
    BY <1>1
  <2> QED BY <2>1
<1>3. (o.action = Meaning)'
  BY <1>1
<1>4. (Meaning = "render" =>
          /\ o.template = TheValue("template")
          /\ o.data = TheValue("data") /\ o.output = TheValue("output")
          /\ o.repetitions = (IF Given("repeat") = {} THEN 1 ELSE Count[TheValue("repeat")])
          /\ DOMAIN o.partials = {NamesPartial(i) : i \in Given("partial")}
          /\ \A i \in Given("partial") : o.partials[NamesPartial(i)] = Partial[ValueAt(i)][2])'
  BY <1>1
<1> QED BY <1>2, <1>3, <1>4 DEF Meant

-----------------------------------------------------------------------------
(* What decides *)

LEMMA OptionsAreNumbered ==
    ASSUME Typed
    PROVE  /\ Options \subseteq Nat \ {0} /\ Decisive \subseteq Options /\ index \in Nat \ {0}
           /\ \A i \in Options : i <= Len(arguments)
<1>1. DOMAIN arguments = 1..Len(arguments) /\ Len(arguments) \in Nat
  BY DEF Typed
<1> QED BY <1>1 DEF Options, Decisive, Typed

\* The first thing that decides is the one that was not passed.
LEMMA FirstDecides ==
    ASSUME Typed, Parsed, index \in Decisive
    PROVE  /\ First = index /\ Decisive # {}
           /\ \A i : i \in SeenAt(index) <=> i \in Options /\ \A j \in Decisive : i < j
<1>n. PICK n : n = index
  OBVIOUS
<1>1. n \in Decisive /\ n \in Nat /\ Options \subseteq Nat /\ Decisive \subseteq Options
  BY <1>n, OptionsAreNumbered
<1>2. \A i \in Options : i < n => i \notin Decisive
  BY <1>n DEF Parsed, ParsedUpTo, SeenAt, Decisive
<1>3. \A j \in Decisive : n <= j
  BY <1>1, <1>2
<1>4. \A i \in Decisive : (\A j \in Decisive : i <= j) => i = n
  BY <1>1, <1>3
<1>5. First = n
  BY <1>1, <1>3, <1>4 DEF First
<1>6. \A i \in Options : i < n <=> \A j \in Decisive : i < j
  BY <1>1, <1>3
<1> QED BY <1>1, <1>5, <1>6, <1>n DEF SeenAt

\* Without anything that decides all options have been seen at the end.
LEMMA NothingDecides ==
    ASSUME Typed, Parsed, index > Len(arguments)
    PROVE  /\ Decisive = {} /\ SeenAt(index) = Options
           /\ \A option : GivenAt(option, index) = Given(option)
<1>1. PICK n, m : n = index /\ m = Len(arguments)
  OBVIOUS
<1>2. n \in Nat /\ m \in Nat /\ n > m /\ Options \subseteq Nat /\ \A i \in Options : i <= m
  <2>1. Len(arguments) \in Nat
    BY DEF Typed
  <2> QED BY <1>1, <2>1, OptionsAreNumbered
<1>3. \A i \in Options : i < n
  BY <1>2
<1>4. SeenAt(index) = Options
  BY <1>1, <1>3 DEF SeenAt
<1>5. \A option : Given(option) \subseteq Options
  BY DEF Given
<1>6. \A option : GivenAt(option, index) = Given(option)
  BY <1>1, <1>3, <1>5 DEF GivenAt
<1>7. Decisive = {}
  BY <1>4 DEF Parsed, ParsedUpTo, Decisive
<1> QED BY <1>4, <1>6, <1>7

\* What is refused is meant to be refused.
LEMMA RefusesWhatIsWrong ==
    ASSUME Typed, Parsed
    PROVE  WrongValue \/ WrongArgument \/ NoTemplate => Meaning = "refused"
<1>1. ASSUME AtArgument, Wrong(index) PROVE Meaning = "refused"
  <2>1. index \in Decisive
    BY <1>1, ArgumentMeans DEF Decisive
  <2>2. First = index /\ Decisive # {}
    BY <2>1, FirstDecides
  <2>3. PICK n : n = index
    OBVIOUS
  <2>4. Wrong(n) /\ First = n
    BY <1>1, <2>2, <2>3
  <2> QED BY <2>2, <2>4 DEF Meaning
<1>2. WrongValue => AtArgument /\ Wrong(index)
  BY AcceptsWhatIsRight DEF WrongValue, TakesValue, IsOption
<1>3. ASSUME WrongArgument PROVE AtArgument /\ Wrong(index)
  <2>1. AtArgument /\ Form(index) = Argument.form
    BY <1>3, ArgumentMeans DEF WrongArgument
  <2>2. CASE Argument.form = "other"
    BY <2>1, <2>2 DEF Wrong, Malformed
  <2>3. CASE endOfOptions
    BY <2>1, <2>3, EndedIsWrong DEF Wrong, Repeats
  <2> QED BY <1>3, <2>1, <2>2, <2>3 DEF WrongArgument
<1>4. ASSUME NoTemplate PROVE Meaning = "refused"
  <2>1. index > Len(arguments) /\ options.template = Empty
    BY <1>4 DEF NoTemplate
  <2>2. Decisive = {} /\ GivenAt("template", index) = Given("template")
    BY <2>1, NothingDecides
  <2>3. Given("template") = {}
    BY <2>1, <2>2, TakenPlaces
  <2> QED BY <2>2, <2>3 DEF Meaning
<1> QED BY <1>1, <1>2, <1>3, <1>4

LEMMA InformsAsMeant ==
    ASSUME Typed, Parsed, Informs
    PROVE  Meant'
<1>o. PICK o : o = [options EXCEPT !.action = Argument.form]
  OBVIOUS
<1>1. AtArgument /\ ~endOfOptions /\ Argument.form \in {"help", "version"} /\ options' = o /\ arguments' = arguments
  BY <1>o DEF Informs, IsOption
<1>2. index \in Options /\ Form(index) = Argument.form
  BY <1>1, ArgumentMeans
<1>3. o.action = Argument.form /\ o.readable = options.readable /\ options.readable \in BOOLEAN
  BY <1>o DEF Typed, OptionsType
<1>4. ~Wrong(index)
  <2>1. \A option : index \notin Given(option)
    BY <1>1, <1>2 DEF Given
  <2>2. ~Malformed(index)
    BY <1>1, <1>2, <2>1 DEF Malformed
  <2>3. ~Repeats(index)
    BY <1>1, <2>1, EndedIsWrong DEF Repeats
  <2> QED BY <2>2, <2>3 DEF Wrong
<1>5. index \in Decisive
  BY <1>1, <1>2 DEF Decisive
<1>6. /\ First = index /\ Decisive # {}
      /\ \A i : i \in SeenAt(index) <=> i \in Options /\ \A j \in Decisive : i < j
  BY <1>5, FirstDecides
<1>7. Meaning = Argument.form
  <2>1. PICK n : n = index
    OBVIOUS
  <2>2. ~Wrong(n) /\ First = n /\ Form(n) = Argument.form
    BY <1>2, <1>4, <1>6, <2>1
  <2> QED BY <1>6, <2>2 DEF Meaning
<1>8. options.readable <=> \E i \in SeenAt(index) : Form(i) = "readable"
  BY DEF Parsed, ParsedUpTo
<1>9. o.readable <=> \E i \in Options : Form(i) = "readable" /\ \A j \in Decisive : i < j
  BY <1>3, <1>6, <1>8
<1>10. Meaning # "render"
  BY <1>1, <1>7
<1> QED BY <1>1, <1>3, <1>7, <1>9, <1>10, MeantStays

LEMMA EndsAsMeant ==
    ASSUME Typed, Parsed, EndOfArguments
    PROVE  Meant'
<1>1. index > Len(arguments) /\ options.template # Empty /\ options' = options /\ arguments' = arguments
  BY DEF EndOfArguments, parsing
<1>2. Decisive = {} /\ SeenAt(index) = Options /\ \A option : GivenAt(option, index) = Given(option)
  BY <1>1, NothingDecides
<1>3. Given("template") # {}
  BY <1>1, <1>2, TakenPlaces
<1>4. Meaning = "render"
  BY <1>2, <1>3 DEF Meaning
<1>o. PICK o : o = options
  OBVIOUS
<1>5. o.readable \in BOOLEAN /\ options' = o
  BY <1>1, <1>o DEF Typed, OptionsType
<1>6. /\ o.action = "render"
      /\ o.readable <=> \E i \in Options : Form(i) = "readable"
      /\ Holds(o.template, "template", index) /\ Holds(o.data, "data", index) /\ Holds(o.output, "output", index)
      /\ Given("repeat") = {} => o.repetitions = 1
      /\ \A i \in Given("repeat") : o.repetitions = Count[ValueAt(i)]
      /\ DOMAIN o.partials = {NamesPartial(i) : i \in Given("partial")}
      /\ \A i \in Given("partial") : o.partials[NamesPartial(i)] = Partial[ValueAt(i)][2]
  BY <1>2, <1>o DEF Parsed, ParsedUpTo
<1>7. o.readable <=> \E i \in Options : Form(i) = "readable" /\ \A j \in Decisive : i < j
  BY <1>2, <1>6
<1>8. ASSUME NEW option, Given(option) # {}
      PROVE  \E i \in Given(option) : TheValue(option) = ValueAt(i)
  <2>1. PICK i : i = OneOf(Given(option))
    OBVIOUS
  <2>2. i \in Given(option)
    BY <1>8, <2>1 DEF OneOf
  <2>3. TheValue(option) = ValueAt(i)
    BY <1>8, <2>1 DEF TheValue, OneOf
  <2> QED BY <2>2, <2>3
<1>9. ASSUME NEW value, NEW option, Holds(value, option, index)
      PROVE  value = TheValue(option)
  <2>1. CASE Given(option) = {}
    BY <1>2, <1>9, <2>1 DEF Holds, TheValue
  <2>2. CASE Given(option) # {}
    BY <1>2, <1>8, <1>9, <2>2 DEF Holds
  <2> QED BY <2>1, <2>2
<1>10. o.template = TheValue("template") /\ o.data = TheValue("data") /\ o.output = TheValue("output")
  BY <1>6, <1>9
<1>11. o.repetitions = (IF Given("repeat") = {} THEN 1 ELSE Count[TheValue("repeat")])
  BY <1>6, <1>8
<1> QED BY <1>1, <1>4, <1>5, <1>6, <1>7, <1>10, <1>11, MeantStays

-----------------------------------------------------------------------------
(* Reading exactly *)

ParseInv == RunInv /\ (stage = "parsing" => Parsed) /\ (stage = "parsed" => Meant)

LEMMA InitParses == Init => ParseInv
<1> SUFFICES ASSUME Init PROVE Parsed
  BY InitRuns DEF Init, ParseInv
<1>1. Typed
  BY InitRuns DEF RunInv
<1>2. SeenAt(1) = {}
  <2>1. \A i \in Nat \ {0} : ~(i < 1)
    OBVIOUS
  <2> QED BY <1>1, <2>1, OptionsAreNumbered DEF SeenAt
<1>3. \A option : GivenAt(option, 1) = {}
  BY <1>2 DEF GivenAt, SeenAt, Given
<1>4. 1 \in 1..(Len(arguments) + 1)
  BY <1>1 DEF Typed
<1>5. DOMAIN NoOptions.partials = {}
  BY DEF NoOptions
<1>6. ParsedUpTo(1, NoOptions, FALSE)
  BY <1>2, <1>3, <1>4, <1>5, FirstIsFree DEF ParsedUpTo, Holds, NoOptions
<1> QED BY <1>6 DEF Init, Parsed

LEMMA ParsesOn == ParseInv /\ [Next]_vars => ParseInv'
<1> SUFFICES ASSUME ParseInv, [Next]_vars PROVE ParseInv'
  OBVIOUS
<1>1. Typed /\ RunInv' /\ (stage = "parsing" => Parsed)
  BY StepRuns DEF ParseInv, RunInv
<1>2. CASE EndOfOptions
  <2>1. Parsed /\ IsOption /\ Argument.form = "end" /\ arguments' = arguments
        /\ stage' = "parsing" /\ index' = index + 1 /\ options' = options /\ endOfOptions' = TRUE
    BY <1>1, <1>2 DEF EndOfOptions, Continue, IsOption, AtArgument, Parses
  <2>2. PICK n, o, e : n = index + 1 /\ o = options /\ e = TRUE
    OBVIOUS
  <2>3. ParsedUpTo(index + 1, o, e)
    BY <1>1, <2>1, <2>2, ReadsMark
  <2>4. ParsedUpTo(n, o, e)
    BY <2>2, <2>3
  <2>5. Parsed'
    BY <2>1, <2>2, <2>4, ReadStays
  <2> QED BY <1>1, <2>1, <2>5 DEF ParseInv
<1>3. CASE Readable
  <2>1. Parsed /\ IsOption /\ Argument.form = "readable" /\ arguments' = arguments
        /\ stage' = "parsing" /\ index' = index + 1 /\ options' = [options EXCEPT !.readable = TRUE] /\ endOfOptions' = FALSE
    BY <1>1, <1>3 DEF Readable, Continue, IsOption, AtArgument, Parses
  <2>2. PICK n, o, e : n = index + 1 /\ o = [options EXCEPT !.readable = TRUE] /\ e = FALSE
    OBVIOUS
  <2>3. ParsedUpTo(index + 1, o, e)
    BY <1>1, <2>1, <2>2, ReadsMark
  <2>4. ParsedUpTo(n, o, e)
    BY <2>2, <2>3
  <2>5. Parsed'
    BY <2>1, <2>2, <2>4, ReadStays
  <2> QED BY <1>1, <2>1, <2>5 DEF ParseInv
<1>4. CASE ReadsValue
  <2>1. Parsed /\ TakesValue /\ Accepts /\ arguments' = arguments /\ stage' = "parsing"
        /\ index' = (IF TakesNext THEN index + 2 ELSE index + 1)
        /\ options' = With(Argument.option, OptionValue) /\ endOfOptions' = FALSE
    BY <1>1, <1>4 DEF ReadsValue, Continue, TakesValue, IsOption, AtArgument, Parses
  <2>2. PICK n, o, e : n = (IF TakesNext THEN index + 2 ELSE index + 1) /\ o = With(Argument.option, OptionValue) /\ e = FALSE
    OBVIOUS
  <2>3. ParsedUpTo(n, o, FALSE)
    BY <1>1, <2>1, <2>2, ReadsOption
  <2>4. ParsedUpTo(n, o, e)
    BY <2>2, <2>3
  <2>5. Parsed'
    BY <2>1, <2>2, <2>4, ReadStays
  <2> QED BY <1>1, <2>1, <2>5 DEF ParseInv
<1>5. CASE Informs
  <2>1. Parsed /\ stage' = "parsed"
    BY <1>1, <1>5 DEF Informs, Proceed, IsOption, AtArgument, Parses
  <2>2. Meant'
    BY <1>1, <1>5, <2>1, InformsAsMeant
  <2> QED BY <1>1, <2>1, <2>2 DEF ParseInv
<1>6. CASE EndOfArguments
  <2>1. Parsed /\ stage' = "parsed"
    BY <1>1, <1>6 DEF EndOfArguments, Proceed, Parses
  <2>2. Meant'
    BY <1>1, <1>6, <2>1, EndsAsMeant
  <2> QED BY <1>1, <2>1, <2>2 DEF ParseInv
<1>7. CASE RefuseValue \/ RefuseArgument \/ RefuseNoTemplate
  <2>1. stage' = "exited"
    BY <1>7 DEF RefuseValue, RefuseArgument, RefuseNoTemplate, Throw
  <2> QED BY <1>1, <2>1 DEF ParseInv
<1>8. CASE RunStep
  <2>1. stage' \notin {"parsing", "parsed"}
    BY <1>8 DEF RunStep, Warn, CannotWarn, Inform, CannotInform, ReadTemplate, ReadPartial, PartialsRead, ReadData, CannotRead,
                RenderAgain, CannotRender, Rendered, PrintOutput, CannotPrint, OpenOutput, CannotOpen, WriteOutput, CannotWrite,
                Proceed, Throw
  <2> QED BY <1>1, <2>1 DEF ParseInv
<1>9. CASE UNCHANGED vars
  <2>1. arguments' = arguments /\ stage' = stage /\ index' = index /\ options' = options /\ endOfOptions' = endOfOptions
    BY <1>9 DEF vars, parsing
  <2>2. ASSUME stage = "parsing" PROVE Parsed'
    <3>1. PICK n, o, e : n = index /\ o = options /\ e = endOfOptions
      OBVIOUS
    <3>2. ParsedUpTo(n, o, e)
      BY <1>1, <2>2, <3>1 DEF Parsed
    <3> QED BY <2>1, <3>1, <3>2, ReadStays
  <2>3. ASSUME stage = "parsed" PROVE Meant'
    <3>1. Meant
      BY <2>3 DEF ParseInv
    <3>2. PICK o : o = options
      OBVIOUS
    <3>3. o.readable \in BOOLEAN
      BY <1>1, <3>2 DEF Typed, OptionsType
    <3>4. /\ o.action = Meaning
          /\ o.readable <=> \E i \in Options : Form(i) = "readable" /\ \A j \in Decisive : i < j
          /\ Meaning = "render" =>
               /\ o.template = TheValue("template")
               /\ o.data = TheValue("data") /\ o.output = TheValue("output")
               /\ o.repetitions = (IF Given("repeat") = {} THEN 1 ELSE Count[TheValue("repeat")])
               /\ DOMAIN o.partials = {NamesPartial(i) : i \in Given("partial")}
               /\ \A i \in Given("partial") : o.partials[NamesPartial(i)] = Partial[ValueAt(i)][2]
      BY <3>1, <3>2 DEF Meant
    <3> QED BY <2>1, <3>2, <3>3, <3>4, MeantStays
  <2> QED BY <1>1, <2>1, <2>2, <2>3 DEF ParseInv
<1> QED BY <1>2, <1>3, <1>4, <1>5, <1>6, <1>7, <1>8, <1>9 DEF Next, ParseStep

LEMMA AlwaysParses == Spec => []ParseInv
BY InitParses, ParsesOn, PTL DEF Spec

LEMMA ParsedExactly == ParseInv => ParsesExactly
<1> SUFFICES ASSUME ParseInv PROVE ParsesExactly
  OBVIOUS
<1>1. WrongValue \/ WrongArgument \/ NoTemplate => stage = "parsing"
  BY DEF WrongValue, WrongArgument, NoTemplate, TakesValue, IsOption, AtArgument, Parses
<1>2. WrongValue \/ WrongArgument \/ NoTemplate => Meaning = "refused"
  BY <1>1, RefusesWhatIsWrong DEF ParseInv, RunInv
<1> QED BY <1>2 DEF ParsesExactly, ParseInv

\* parseOptions reads every command line as it is meant as a whole, and refuses exactly those that mean nothing:
\* whichever argument decides first, however options and values are mixed, and whatever a value looks like.
THEOREM CommandLineIsReadAsMeant == Spec => []ParsesExactly
BY AlwaysParses, ParsedExactly, PTL

=============================================================================
