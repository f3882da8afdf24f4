--------------------------- MODULE CommandLineReference ---------------------------
(***************************************************************************)
(* What a command line means, read as a whole, and what running it must    *)
(* leave behind.                                                           *)
(***************************************************************************)
EXTENDS CommandLine, FiniteSets

\* An argument is a value if the option before it wants one and is not a value itself.
IsTaken(i) == Cardinality({j \in 1..(i - 1) : \A k \in j..(i - 1) : arguments[k].form = "separate"}) % 2 = 1
Options == {i \in DOMAIN arguments : ~IsTaken(i)}
Form(i) == arguments[i].form
ValueAt(i) ==
    IF Form(i) # "separate" THEN arguments[i].value
    ELSE IF i = Len(arguments) THEN Empty ELSE arguments[i + 1].text
Given(option) == {i \in Options : Form(i) \in {"separate", "attached"} /\ arguments[i].option = option}
NamesPartial(i) == Partial[ValueAt(i)][1]

Malformed(i) ==
    \/ Form(i) \in {"other", "equals"}
    \/ Form(i) \in {"separate", "attached"} /\ ValueAt(i) = Empty
    \/ i \in Given("repeat") /\ (Count[ValueAt(i)] = Null \/ Count[ValueAt(i)] \notin 1..MaxRepetitions)
    \/ i \in Given("partial") /\ Partial[ValueAt(i)] = <<>>
Repeats(i) ==
    \E j \in Options : j < i /\
        \/ Form(j) = "end"
        \/ \E option \in {"template", "data", "output", "repeat"} : {i, j} \subseteq Given(option)
        \/ /\ {i, j} \subseteq Given("partial")
           /\ Partial[ValueAt(i)] # <<>> /\ Partial[ValueAt(j)] # <<>>
           /\ NamesPartial(i) = NamesPartial(j)
Wrong(i) == Malformed(i) \/ Repeats(i)
Decisive == {i \in Options : Wrong(i) \/ Form(i) \in {"help", "version"}}
First == CHOOSE i \in Decisive : \A j \in Decisive : i <= j
Meaning ==
    IF Decisive = {} THEN IF Given("template") = {} THEN "refused" ELSE "render"
    ELSE IF Wrong(First) THEN "refused" ELSE Form(First)

TheValue(option) == IF Given(option) = {} THEN Empty ELSE ValueAt(CHOOSE i \in Given(option) : TRUE)
Meant ==
    /\ options.action = Meaning
    /\ options.readable = (\E i \in Options : Form(i) = "readable" /\ \A j \in Decisive : i < j)
    /\ Meaning = "render" =>
          /\ options.template = TheValue("template")
          /\ options.data = TheValue("data") /\ options.output = TheValue("output")
          /\ options.repetitions = (IF Given("repeat") = {} THEN 1 ELSE Count[TheValue("repeat")])
          /\ DOMAIN options.partials = {NamesPartial(i) : i \in Given("partial")}
          /\ \A i \in Given("partial") : options.partials[NamesPartial(i)] = Partial[ValueAt(i)][2]

\* parseOptions: a command line is refused exactly when the first thing that decides is wrong, whatever
\* stands where, and is otherwise read as meant.
ParsesExactly ==
    /\ stage = "parsed" => Meant
    /\ WrongValue \/ WrongArgument \/ NoTemplate => Meaning = "refused"

Expected ==
    [template |-> options.template,
     partials |-> options.partials,
     data |-> IF options.data = Empty THEN Null ELSE options.data]
Delivered ==
    CASE options.action = "help" -> stdout = Usage
      [] options.action = "version" -> stdout = Version
      [] OTHER -> IF options.output = Empty THEN stdout = Expected ELSE files[options.output] = Expected
\* The status is 0 exactly when what was asked for is where it was asked for, rendered from what the files
\* held before, though the output may replace one of them.
StatusIsTrue == stage = "exited" => (status = 0) = Delivered

\* Nothing is written, and no file harmed, unless everything was read and rendered; and then only one thing is.
WritesLast ==
    /\ \A p \in Texts : files[p] # p =>
          /\ p = options.output /\ repeated = options.repetitions
          /\ files[p] \in {Truncated, Expected} /\ stdout = Null
    /\ options.action = "render" /\ stdout # Null =>
          options.output = Empty /\ repeated = options.repetitions /\ stdout \in {Truncated, Expected}

=============================================================================
