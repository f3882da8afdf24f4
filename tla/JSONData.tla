-------------------------------- MODULE JSONData --------------------------------
(***************************************************************************)
(* Data::fromJSON: nlohmann's parser reads the text and calls the handlers *)
(* of JSONDataBuilder, which assemble the value in a stack of open         *)
(* containers and charge a ParseBudget for it.  A document is the sequence *)
(* of events the parser derives from it; at any moment the parser may find *)
(* a syntax error instead.  The builder lives as long as one call, and a   *)
(* behaviour is one call.                                                  *)
(***************************************************************************)
EXTENDS ParseBudget, Sequences

CONSTANT Documents      \* the texts: their size, whether they may be read, and their events

Scalars == {"scalar", "string", "float", "integer"}
Starts == {"startArray", "startObject"}
Ends == {"endArray", "endObject"}
Kinds == Scalars \cup Starts \cup Ends \cup {"key"}

\* The event that starts the container an event, or the end of the text, lies in; 0 outside of all.
Around(events) ==
    LET around[p \in 0..(Len(events) + 1)] ==
            IF p <= 1 THEN 0
            ELSE IF events[p - 1].kind \in Starts THEN p - 1
            ELSE IF events[p - 1].kind \in Ends THEN around[around[p - 1]]
            ELSE around[p - 1]
    IN around

\* What the parser reports is the events of one value: containers end as they started, and in an
\* object there are names, each followed by its value.
IsValue(events) ==
    LET around == Around(events)
        kind(p) == events[p].kind
        inObject(p) == around[p] # 0 /\ kind(around[p]) = "startObject"
    IN /\ events # <<>> /\ kind(1) \in Scalars \cup Starts
       /\ around[Len(events) + 1] = 0 /\ \A p \in 2..Len(events) : around[p] # 0
       /\ \A p \in 1..Len(events) :
             /\ kind(p) = "endArray" => kind(around[p]) = "startArray"
             /\ kind(p) = "endObject" => inObject(p)
             /\ kind(p) = "key" => inObject(p) /\ kind(p + 1) \in Scalars \cup Starts
             /\ kind(p) \in Scalars \cup Starts /\ inObject(p) => kind(p - 1) = "key"

ASSUME DocumentsAssumption ==
    \A d \in Documents :
        /\ d.events \in Seq({d.events[p] : p \in DOMAIN d.events})
        /\ \A p \in DOMAIN d.events :
              d.events[p].kind \in Kinds /\ d.events[p].size \in Nat /\ d.events[p].inRange \in BOOLEAN
        /\ IsValue(d.events)

VARIABLES
    document,
    position,       \* the next event
    frames,         \* frames_
    parsed,         \* result_: nothing or the value
    budget,         \* budget_
    outcome

jsonVars == <<document, limits, position, frames, parsed, budget, outcome>>

-----------------------------------------------------------------------------
(* Values and frames *)

ScalarValue(event) == [type |-> event.kind, text |-> event.text]
\* A frame's key is nothing or a name.
Frame(type) ==
    IF type = "array" THEN [value |-> [type |-> "array", items |-> <<>>], key |-> <<>>]
    ELSE [value |-> [type |-> "map", map |-> <<>>], key |-> <<>>]

LastFrame == frames[Len(frames)]
Below == SubSeq(frames, 1, Len(frames) - 1)
InArray == frames # <<>> /\ LastFrame.value.type = "array"

\* Fault: a name that occurs twice keeps its first value.
StoredOnce(map, name, value) ==
    [n \in DOMAIN map \cup {name} |-> IF n \in DOMAIN map THEN map[n] ELSE value]
\* Data::set
Stored(map, name, value) ==
    [n \in DOMAIN map \cup {name} |-> IF n = name THEN value ELSE map[n]]
\* addValue, in a container: the next element of an array, or the value of the pending key.
Filled(frame, value) ==
    IF frame.value.type = "array"
    THEN [frame EXCEPT !.value.items = Append(@, value)]
    ELSE [value |-> [frame.value EXCEPT !.map = Stored(@, frame.key[1], value)], key |-> <<>>]
HasPlace(stack) ==
    IF stack = <<>> THEN parsed = <<>>
    ELSE stack[Len(stack)].value.type = "array" \/ stack[Len(stack)].key # <<>>
AddValue(stack, value) ==
    IF stack = <<>> THEN frames' = <<>> /\ parsed' = <<value>>
    ELSE frames' = [stack EXCEPT ![Len(stack)] = Filled(@, value)] /\ UNCHANGED parsed

-----------------------------------------------------------------------------
(* The handlers *)

Parsing == outcome = "parsing"
Handles(kinds) == Parsing /\ position <= Len(document.events) /\ document.events[position].kind \in kinds
Handled == document.events[position]

Throw(why) ==
    /\ outcome' = why
    /\ UNCHANGED <<document, limits, position, frames, parsed, budget>>
Advance == position' = position + 1 /\ UNCHANGED <<document, limits, outcome>>

\* Fault: the elements of arrays are not charged as entries.
BeginCostUnlisted(strings) == Cost(1, strings, 0)
\* beginValue and the string it may hold
BeginCost(strings) == Cost(1, strings, IF InArray THEN 1 ELSE 0)
MayBegin(strings) == ~TooDeep(Len(frames)) /\ Affordable(budget, BeginCost(strings))

\* null, boolean, number_integer, number_unsigned, number_float and string.  A float or
\* a string is charged for its text; a number may be out of range.
ScalarHandler ==
    /\ Handles(Scalars)
    /\ LET strings == IF Handled.kind \in {"string", "float"} THEN Handled.size ELSE 0 IN
       \/ ~MayBegin(strings) /\ Throw("rejected")
       \/ MayBegin(strings) /\ ~Handled.inRange /\ Throw("rejected")
       \/ MayBegin(strings) /\ Handled.inRange /\ ~HasPlace(frames) /\ Throw("protocol")
       \/ /\ MayBegin(strings) /\ Handled.inRange /\ HasPlace(frames)
          /\ AddValue(frames, ScalarValue(Handled))
          /\ budget' = Consume(budget, BeginCost(strings))
          /\ Advance

StartFrame ==
    /\ Handles(Starts)
    /\ \/ ~MayBegin(0) /\ Throw("rejected")
       \/ /\ MayBegin(0)
          /\ frames' = Append(frames, Frame(IF Handled.kind = "startArray" THEN "array" ELSE "map"))
          /\ budget' = Consume(budget, BeginCost(0))
          /\ Advance /\ UNCHANGED parsed

Key ==
    /\ Handles({"key"})
    /\ LET expected == frames # <<>> /\ LastFrame.value.type = "map" /\ LastFrame.key = <<>>
           cost == Cost(0, Handled.size, 1) IN
       \/ ~expected /\ Throw("protocol")
       \/ expected /\ ~Affordable(budget, cost) /\ Throw("rejected")
       \/ /\ expected /\ Affordable(budget, cost)
          /\ frames' = [frames EXCEPT ![Len(frames)].key = <<Handled.text>>]
          /\ budget' = Consume(budget, cost)
          /\ Advance /\ UNCHANGED parsed

EndFrame ==
    /\ Handles(Ends)
    /\ LET type == IF Handled.kind = "endArray" THEN "array" ELSE "map"
           complete == frames # <<>> /\ LastFrame.value.type = type /\ LastFrame.key = <<>> IN
       \/ ~(complete /\ HasPlace(Below)) /\ Throw("protocol")
       \/ /\ complete /\ HasPlace(Below)
          /\ AddValue(Below, LastFrame.value)
          /\ Advance /\ UNCHANGED budget

\* parse_error, which trailing text causes too
ParseError == Parsing /\ Throw("syntax")

TakeResult ==
    /\ Parsing /\ position > Len(document.events)
    /\ \/ ~(parsed # <<>> /\ frames = <<>>) /\ Throw("protocol")
       \/ /\ parsed # <<>> /\ frames = <<>>
          /\ outcome' = "done"
          /\ UNCHANGED <<document, limits, position, frames, parsed, budget>>

-----------------------------------------------------------------------------
JSONInit ==
    /\ document \in Documents /\ limits \in ParseLimits
    /\ position = 1 /\ frames = <<>> /\ parsed = <<>> /\ budget = Unused
    /\ outcome = IF Readable(document) THEN "parsing" ELSE "rejected"

\* fromJSON has returned or thrown.
Returned == ~Parsing /\ UNCHANGED jsonVars
JSONNext == ScalarHandler \/ StartFrame \/ Key \/ EndFrame \/ ParseError \/ TakeResult \/ Returned
JSONSpec == JSONInit /\ [][JSONNext]_jsonVars

=============================================================================
