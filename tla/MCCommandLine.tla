----------------------------- MODULE MCCommandLine -----------------------------
(* Every short command line over a few arguments, for model-checking CommandLine. *)
EXTENDS CommandLineReference, SequencesExt

CONSTANTS f, g, p1f, p1g, p2f, two, zero, many, odd, none

MCTexts == {f, g, p1f, p1g, p2f, two, zero, many, odd, none}
MCCount == [t \in MCTexts |-> CASE t = two -> 2 [] t = zero -> 0 [] t = many -> 3 [] OTHER -> Null]
MCPartial == [t \in MCTexts |-> CASE t = p1f -> <<1, f>> [] t = p1g -> <<1, g>> [] t = p2f -> <<2, f>> [] OTHER -> <<>>]
MCFormat == [t \in MCTexts |-> CASE t = f -> "json" [] t = g -> "yaml" [] OTHER -> Null]

Spelled(form, option, value, text) == [form |-> form, option |-> option, value |-> value, text |-> text]
\* -t f, --template=f or -tf; written out, each is an unusual path
Separate(option) == Spelled("separate", option, none, odd)
Attached(option, value) == Spelled("attached", option, value, odd)
Equals == Spelled("equals", "template", none, odd)
Other(form) == Spelled(form, "none", none, odd)
Plain(text) == Spelled("other", "none", none, text)

Common == {Separate("template"), Attached("template", f), Attached("template", none), Equals, Separate("output"),
           Other("help"), Other("end"), Other("readable"), Other("other"), Plain(f), Plain(none)}
Values == {Attached("template", f), Attached("template", g), Attached("data", f), Attached("data", g),
           Attached("output", f), Separate("data"), Attached("repeat", two), Attached("repeat", zero), Attached("repeat", many),
           Attached("repeat", f), Separate("partial"), Attached("partial", p1f), Attached("partial", p1g),
           Attached("partial", p2f), Attached("partial", f), Plain(p2f), Other("version")}
MCCommandLines == BoundedSeq(Common, 4) \cup BoundedSeq(Common \cup Values, 3)
                  \cup {<<Attached("template", f)>> \o v : v \in [1..3 -> Values]}

=============================================================================
