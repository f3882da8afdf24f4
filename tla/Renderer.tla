-------------------------------- MODULE Renderer --------------------------------
(***************************************************************************)
(* The render engine: class Renderer and template RenderEngine.            *)
(*                                                                         *)
(* The C++ engine is a recursive tree walk whose scope guards undo every   *)
(* change of renderer state.  Here the call stack is the variable control: *)
(* a sequence of pending calls whose head runs next.  A call is replaced   *)
(* by the calls it makes, followed by the guards it left on the C++ stack. *)
(* An exception (throwing) discards pending calls and still runs guards,   *)
(* until user code - a lambda callback - catches it or the render ends.    *)
(*                                                                         *)
(* A byte is one element of a sequence of characters.  Templates, data and *)
(* the parse of every text a lambda may return are constant tables.        *)
(***************************************************************************)
EXTENDS Naturals, FiniteSets, Sequences, SequencesExt

CONSTANTS
    NodeTable,          \* node -> [type, escape, lambdaOnly, indent, data, parts, children, source, delims]
    DataTable,          \* value -> [type, text, items, map]
    TemplateTable,      \* text a lambda may return -> [root, nodes]; root = Null: it does not parse
    Resolvers,          \* what an application passes to setPartialResolver: name -> node
    Externals,          \* what it passes to init and setPartials: name -> node
    RootPartials,       \* partials owned by a root: root -> name -> node
    Null,               \* the null pointer
    Roots, Inputs,      \* the nodes and values an application renders
    Outputs,            \* contents of a caller's buffer before a render
    LimitChoices,       \* the RenderLimits an application passes
    HelperNodes,        \* nodes a callback passes to renderForLambda
    NestingCeiling,     \* detail::renderNestingCeiling
    TokenizerMaxNodes,  \* Tokenizer::Limits::maxNodes
    MaxRenders,         \* bound: calls of render()
    MaxCalls            \* bound: calls that user code makes within one render

Texts == DOMAIN TemplateTable
Nodes == DOMAIN NodeTable
Values == DOMAIN DataTable
Sequence(s) == s \in Seq(Range(s))
Strings(s) == Sequence(s) /\ \A i \in DOMAIN s : Sequence(s[i])

ASSUME LimitsAssumption == LimitChoices \subseteq [output : Nat, depth : Nat, visits : Nat, lambda : Nat]
ASSUME CeilingAssumption == NestingCeiling \in Nat
\* The tables are what the C++ types make them: pointers lead to nodes and values, or to none.
ASSUME NodesAssumption ==
    \A n \in Nodes : LET node == NodeTable[n] IN
        /\ Strings(node.data) /\ Strings(node.source)
        /\ node.children \in Seq(Nodes \cup {Null})
        /\ node.delims \in {<<>>} \cup (Nat \X Nat)
        /\ Sequence(node.parts) /\ (node.data # <<>> => node.type \in {"None", "Root", "Container", "Output"} \/ node.parts # <<>>)
ASSUME DataAssumption ==
    \A d \in Values :
        /\ Sequence(DataTable[d].text)
        /\ DataTable[d].items \in Seq(Values \cup {Null})
        /\ \A key \in DOMAIN DataTable[d].map : DataTable[d].map[key] \in Values \cup {Null}
ASSUME TemplatesAssumption ==
    \A t \in Texts :
        Sequence(t) /\ TemplateTable[t].nodes \in Nat /\ TemplateTable[t].root \in Nodes \cup {Null}
ASSUME PartialsAssumption ==
    /\ \A source \in Resolvers \cup Externals : \A name \in DOMAIN source : source[name] \in Nodes \cup {Null}
    /\ \A r \in Roots : \A name \in DOMAIN RootPartials[r] : RootPartials[r][name] \in Nodes \cup {Null}
ASSUME ApplicationAssumption ==
    Roots \subseteq Nodes /\ HelperNodes \subseteq Nodes /\ Inputs \subseteq Values /\ \A s \in Outputs : Sequence(s)

VARIABLES
    config,         \* _node, _data, _partials, _partialResolver, _limits and _lambdaStringMode
    rendering, output, stack, indentation, activeDepth, callbackDepth,
    spent,          \* _outputBytes, _nodeVisits and _lambdaTemplateBytes
    buffers,        \* live strings; _output is an index into them, buffers[1] is the caller's
    contexts,       \* LambdaRenderContext states ever created: TRUE while renderer # NULL
    scopes,         \* this renderer's entries in the ActiveEngineScope registry
    returned,       \* the LambdaResult of the callback that returned last
    rendered,       \* text the last renderForLambda call produced for its caller
    control, throwing,
    outcome, renders, calls

settings == <<config, rendering, outcome, renders>>
cursors == <<stack, indentation, activeDepth>>
sinks == <<output, buffers>>
callbacks == <<callbackDepth, contexts, scopes, returned, rendered, calls>>
machine == <<control, throwing>>
vars == <<settings, cursors, sinks, spent, callbacks, machine>>

-----------------------------------------------------------------------------
(* Pending calls and guards *)

NodeCall(n, d, indent, meta) == [op |-> "node", node |-> n, depth |-> d, indent |-> indent, meta |-> meta]
ChildrenOf(n, d) == [op |-> "children", node |-> n, depth |-> d, at |-> 1]
At(op, n, d) == [op |-> op, node |-> n, depth |-> d]
Write(op, text) == [op |-> op, text |-> text]
Charge(n) == [op |-> "charge", bytes |-> n]
Op(op) == [op |-> op]

UserOps == {"callback", "interpolation"}
GuardOps == {"restoreDepth", "popContext", "popIndentation", "restoreOutput", "dropBuffer",
             "endHelper", "endCallback", "leaveScope", "endRoot"}

Running(op) == control # <<>> /\ ~throwing /\ Head(control).op = op
Guarding(op) == control # <<>> /\ Head(control).op = op
InCallback == control # <<>> /\ ~throwing /\ Head(control).op \in UserOps
Continue(items) == control' = items \o Tail(control) /\ throwing' = FALSE
Raise == throwing' = TRUE /\ UNCHANGED control

-----------------------------------------------------------------------------
(* Data lookup *)

Find(d, key) ==
    IF d # Null /\ DataTable[d].type = "map" /\ key \in DOMAIN DataTable[d].map
    THEN DataTable[d].map[key] ELSE Null

\* Fault: the search runs from the outermost context.
LookupOutermost(n) ==
    LET parts == NodeTable[n].parts
        hits == {i \in DOMAIN stack : Find(stack[i], parts[1]) # Null}
        outermost == CHOOSE i \in hits : \A j \in hits : i <= j
    IN IF NodeTable[n].data = <<<<".">>>> THEN Last(stack)
       ELSE IF hits = {} THEN Null
       ELSE FoldLeft(Find, Find(stack[outermost], parts[1]), Tail(parts))
\* Only the first component of a dotted name searches the enclosing contexts.
Lookup(n) ==
    LET parts == NodeTable[n].parts
        hits == {i \in DOMAIN stack : Find(stack[i], parts[1]) # Null}
        innermost == CHOOSE i \in hits : \A j \in hits : j <= i
    IN IF NodeTable[n].data = <<<<".">>>> THEN Last(stack)
       ELSE IF hits = {} THEN Null
       ELSE FoldLeft(Find, Find(stack[innermost], parts[1]), Tail(parts))

IsEmpty(d) ==
    \/ d = Null
    \/ DataTable[d].type \in {"none", "false"}
    \/ DataTable[d].type = "string" /\ DataTable[d].text = <<>>
    \/ DataTable[d].type = "list" /\ DataTable[d].items = <<>>
    \/ DataTable[d].type = "map" /\ DOMAIN DataTable[d].map = {}

\* No map, no resolver, and a null entry come to the same: the next source is asked.
NoPartials == <<>>
Supplies(source, name) == name \in DOMAIN source /\ source[name] # Null
Resolve(name) ==
    IF Supplies(config.resolver, name) THEN config.resolver[name]
    ELSE IF Supplies(config.partials, name) THEN config.partials[name]
    ELSE IF Supplies(RootPartials[config.node], name) THEN RootPartials[config.node][name]
    ELSE Null

-----------------------------------------------------------------------------
(* Budgets *)

EscapedValue(c) ==
    CASE c = "<" -> <<"&", "l", "t", ";">>
      [] c = "&" -> <<"&", "a", "m", "p", ";">>
      [] c = "'" -> <<"&", "#", "0", "3", "9", ";">>
      [] c = "dq" -> <<"&", "q", "u", "o", "t", ";">>
      [] c = ">" -> <<"&", "g", "t", ";">>
      [] OTHER -> <<c>>
Escaped(text) == FlattenSeq([i \in DOMAIN text |-> EscapedValue(text[i])])

limits == config.limits
TooDeep(d) == d >= limits.depth \/ d >= NestingCeiling
CanVisit == spent.visits < limits.visits
CanCharge(n) == spent.lambda + n <= limits.lambda
\* Fault: only the buffer at hand is measured.
CanAppendToBuffer(bytes, charged) == output # 0 /\ Len(buffers[output] \o bytes) <= limits.output
CanAppend(bytes, charged) ==
    /\ output # 0
    /\ Len(buffers[output] \o bytes) <= limits.output
    /\ spent.output + charged <= limits.output

\* _tokenizeLambda: the parsed nodes and their root must fit what is left of the visit budget.
CanParse(text) ==
    /\ CanVisit
    /\ TemplateTable[text].root # Null
    /\ TemplateTable[text].nodes <= TokenizerMaxNodes
    /\ spent.visits + TemplateTable[text].nodes + 1 <= limits.visits
ParsedCharge(text) ==
    [spent EXCEPT !.lambda = @ + Len(text), !.visits = @ + TemplateTable[text].nodes + 1]

-----------------------------------------------------------------------------
(* Indentation of standalone partials *)

NewFrame(components) == [components |-> components, atLineStart |-> TRUE]
AtLineStart == indentation # <<>> /\ Last(indentation).atLineStart
\* Fault: the line start is recorded but never cleared.
SetLineStartOnly(b) ==
    indentation' = IF indentation = <<>> \/ ~b THEN indentation
                   ELSE [indentation EXCEPT ![Len(indentation)].atLineStart = TRUE]
SetLineStart(b) ==
    indentation' = IF indentation = <<>> THEN <<>>
                   ELSE [indentation EXCEPT ![Len(indentation)].atLineStart = b]

\* _beginTemplateTag, and the head of _appendTemplateOutput's loop.
StartLine(rest) ==
    IF AtLineStart
    THEN /\ SetLineStart(FALSE)
         /\ Continue([i \in DOMAIN Last(indentation).components |->
                         Write("append", Last(indentation).components[i])] \o rest)
    ELSE UNCHANGED indentation /\ Continue(rest)

Blank(text) == \A i \in DOMAIN text : text[i] \in {" ", "tab"}
MetadataShape(n) ==
    /\ NodeTable[n].type = "Output" /\ NodeTable[n].lambdaOnly /\ ~NodeTable[n].escape
    /\ NodeTable[n].data # <<>> /\ Blank(NodeTable[n].data[1])
IsMetadata(n) == n # Null /\ NodeTable[n].indent
\* validatePartialIndentation: metadata stands immediately before its partial.
BadMetadata(children, k) ==
    /\ IsMetadata(children[k])
    /\ ~ /\ MetadataShape(children[k])
         /\ k < Len(children)
         /\ children[k + 1] # Null
         /\ NodeTable[children[k + 1]].type = "Partial"

-----------------------------------------------------------------------------
(* What a node's case of renderNode's switch calls, value being the data it found *)

Emit(n, text) == Write(IF NodeTable[n].escape THEN "escape" ELSE "append", text)

ValueCalls(n, d, value) ==
    CASE DataTable[value].type \in {"string", "number", "true"} -> <<Emit(n, DataTable[value].text)>>
      [] DataTable[value].type = "lambda" -> <<At("interpolate", n, d)>>
      [] OTHER -> <<>>

ContextCall(n, d, value) == [op |-> "context", node |-> n, depth |-> d, data |-> value]
SectionCalls(n, d, value) ==
    CASE DataTable[value].type = "list" ->
            [i \in DOMAIN DataTable[value].items |-> ContextCall(n, d, DataTable[value].items[i])]
      [] DataTable[value].type = "lambda" -> <<At("lambda", n, d)>>
      [] OTHER -> <<ContextCall(n, d, value)>>

BeginTag == <<Op("beginTag")>>
Body(n, d, indent) ==
    LET node == NodeTable[n]
        value == Lookup(n)
    IN CASE node.type = "Root" -> <<ChildrenOf(n, d)>>
         [] node.type = "Output" ->
              <<Write(IF node.lambdaOnly THEN "source" ELSE "template", node.data[1])>>
         [] node.type = "Container" -> <<NodeCall(node.children[1], d + 1, <<>>, FALSE)>>
         [] node.type = "Variable" -> BeginTag \o IF IsEmpty(value) THEN <<>> ELSE ValueCalls(n, d, value)
         [] node.type = "Negate" -> BeginTag \o IF IsEmpty(value) THEN <<ChildrenOf(n, d)>> ELSE <<>>
         [] node.type = "Section" -> BeginTag \o IF IsEmpty(value) THEN <<>> ELSE SectionCalls(n, d, value)
         [] node.type = "Partial" ->
              BeginTag \o <<[op |-> "partial", node |-> n, depth |-> d, indent |-> indent]>>
         [] node.type = "None" -> <<>>
         [] OTHER -> BeginTag

\* Types in Node::TypeHasNoString need no data.
MissingData(n) == NodeTable[n].type \notin {"None", "Root", "Container"} /\ NodeTable[n].data = <<>>
MissingChild(n) == NodeTable[n].type = "Container" /\ NodeTable[n].children = <<>>

EnterNode ==
    /\ Running("node")
    /\ LET call == Head(control)
           refused == call.node = Null \/ TooDeep(call.depth) \/ ~CanVisit
           malformed == \/ IsMetadata(call.node) /\ ~(call.meta /\ MetadataShape(call.node))
                        \/ stack = <<>> \/ MissingData(call.node) \/ MissingChild(call.node)
       IN \/ refused /\ Raise /\ UNCHANGED <<spent, activeDepth>>
          \/ /\ ~refused
             /\ spent' = [spent EXCEPT !.visits = @ + 1]
             /\ \/ malformed /\ Raise /\ UNCHANGED activeDepth
                \/ /\ ~malformed
                   /\ activeDepth' = call.depth
                   /\ Continue(Append(Body(call.node, call.depth, call.indent),
                          [op |-> "restoreDepth", depth |-> call.depth, parent |-> activeDepth]))
    /\ UNCHANGED <<settings, stack, indentation, sinks, callbacks>>

RenderChildren ==
    /\ Running("children")
    /\ LET call == Head(control)
           children == NodeTable[call.node].children
           k == call.at
           Child(i, indent, meta) == NodeCall(children[i], call.depth + 1, indent, meta)
       IN \/ k > Len(children) /\ Continue(<<>>)
          \/ k <= Len(children) /\ BadMetadata(children, k) /\ Raise
          \/ /\ k <= Len(children) /\ ~BadMetadata(children, k) /\ IsMetadata(children[k])
             /\ Continue(<<Child(k, <<>>, TRUE), Child(k + 1, NodeTable[children[k]].data, FALSE),
                           [call EXCEPT !.at = k + 2]>>)
          \/ /\ k <= Len(children) /\ ~IsMetadata(children[k])
             /\ Continue(<<Child(k, <<>>, FALSE), [call EXCEPT !.at = k + 1]>>)
    /\ UNCHANGED <<settings, cursors, sinks, spent, callbacks>>

\* renderWithContext: one pass over a section's children with value on top of the stack.
PushContext ==
    /\ Running("context")
    /\ stack' = Append(stack, Head(control).data)
    /\ Continue(<<ChildrenOf(Head(control).node, Head(control).depth), Op("popContext")>>)
    /\ UNCHANGED <<settings, indentation, activeDepth, sinks, spent, callbacks>>

\* Fault: a standalone partial forgets the indentation of the partial around it.
RenderPartialUninherited ==
    /\ Running("partial")
    /\ LET call == Head(control)
           target == Resolve(NodeTable[call.node].data[1])
           components == IF call.indent \in {<<>>, <<<<>>>>} THEN <<>> ELSE call.indent
       IN \/ target = Null /\ Continue(<<>>) /\ UNCHANGED indentation
          \/ /\ target # Null
             /\ indentation' = Append(indentation, NewFrame(components))
             /\ Continue(<<NodeCall(target, call.depth + 1, <<>>, FALSE), Op("popIndentation")>>)
    /\ UNCHANGED <<settings, stack, activeDepth, sinks, spent, callbacks>>
\* A partial nobody supplies renders nothing.  A standalone one adds its own
\* indentation to what it inherits; any other starts from none.
RenderPartial ==
    /\ Running("partial")
    /\ LET call == Head(control)
           target == Resolve(NodeTable[call.node].data[1])
           inherited == IF indentation = <<>> THEN <<>> ELSE Last(indentation).components
           components == IF call.indent = <<>> THEN <<>>
                         ELSE inherited \o IF call.indent[1] = <<>> THEN <<>> ELSE call.indent
       IN \/ target = Null /\ Continue(<<>>) /\ UNCHANGED indentation
          \/ /\ target # Null
             /\ indentation' = Append(indentation, NewFrame(components))
             /\ Continue(<<NodeCall(target, call.depth + 1, <<>>, FALSE), Op("popIndentation")>>)
    /\ UNCHANGED <<settings, stack, activeDepth, sinks, spent, callbacks>>

-----------------------------------------------------------------------------
(* Output *)

BeginTemplateTag ==
    /\ Running("beginTag")
    /\ StartLine(<<>>)
    /\ UNCHANGED <<settings, stack, activeDepth, sinks, spent, callbacks>>

\* One turn of _appendTemplateOutput's loop, which writes up to the next newline.
AppendTemplateOutput ==
    /\ Running("template")
    /\ LET text == Head(control).text
           newlines == {i \in DOMAIN text : text[i] = "nl"}
           first == CHOOSE i \in newlines : \A j \in newlines : i <= j
       IN \/ text = <<>> /\ Continue(<<>>) /\ UNCHANGED indentation
          \/ /\ text # <<>> /\ AtLineStart
             /\ StartLine(<<Head(control)>>)
          \/ /\ text # <<>> /\ ~AtLineStart /\ (indentation = <<>> \/ newlines = {})
             /\ Continue(<<Write("append", text)>>) /\ UNCHANGED indentation
          \/ /\ text # <<>> /\ ~AtLineStart /\ indentation # <<>> /\ newlines # {}
             /\ SetLineStart(TRUE)
             /\ Continue(<<Write("append", SubSeq(text, 1, first)),
                           Write("template", SubSeq(text, first + 1, Len(text)))>>)
    /\ UNCHANGED <<settings, stack, activeDepth, sinks, spent, callbacks>>

\* _consumeTemplateSource: suppressed text still moves the line-start state.
ConsumeTemplateSource ==
    /\ Running("source")
    /\ LET text == Head(control).text IN SetLineStart(text # <<>> /\ Last(text) = "nl")
    /\ Continue(<<>>)
    /\ UNCHANGED <<settings, stack, activeDepth, sinks, spent, callbacks>>

AppendBytes(bytes, charged) ==
    \/ /\ CanAppend(bytes, charged)
       /\ buffers' = [buffers EXCEPT ![output] = @ \o bytes]
       /\ spent' = [spent EXCEPT !.output = @ + charged]
       /\ Continue(<<>>)
    \/ ~CanAppend(bytes, charged) /\ Raise /\ UNCHANGED <<buffers, spent>>

AppendText ==
    /\ Running("append")
    /\ AppendBytes(Head(control).text, Len(Head(control).text))
    /\ UNCHANGED <<settings, cursors, output, callbacks>>

\* _appendEscaped sizes the whole value before it writes any of it.
AppendEscaped ==
    /\ Running("escape")
    /\ LET bytes == Escaped(Head(control).text) IN AppendBytes(bytes, Len(bytes))
    /\ UNCHANGED <<settings, cursors, output, callbacks>>

\* Fault: the evaluated text is charged a second time.
AppendEvaluatedInFull ==
    /\ Running("evaluated")
    /\ LET bytes == Escaped(Last(buffers)) IN AppendBytes(bytes, Len(bytes))
    /\ UNCHANGED <<settings, cursors, output, callbacks>>
\* The evaluated interpolation was charged while it was rendered: only the
\* growth through escaping is new.
AppendEvaluated ==
    /\ Running("evaluated")
    /\ LET bytes == Escaped(Last(buffers))
       IN AppendBytes(bytes, Len(bytes) - Len(Last(buffers)))
    /\ UNCHANGED <<settings, cursors, output, callbacks>>

-----------------------------------------------------------------------------
(* Lambdas *)

\* The text of a lambda section: its original source, or its subtree written
\* out again, charged piece by piece.
SectionText ==
    /\ Running("lambda")
    /\ LET call == Head(control)
           node == NodeTable[call.node]
           invoke == At("invoke", call.node, call.depth)
       IN \/ node.delims = <<>> /\ Raise
          \/ node.delims # <<>> /\ node.source # <<>> /\ Continue(<<Charge(Len(node.source[1])), invoke>>)
          \/ /\ node.delims # <<>> /\ node.source = <<>>
             /\ Continue(<<[op |-> "rebuild", node |-> call.node, depth |-> call.depth, at |-> 1,
                            delims |-> node.delims, top |-> TRUE], invoke>>)
    /\ UNCHANGED <<settings, cursors, sinks, spent, callbacks>>

SigilBytes(node) == IF node.type = "Variable" /\ node.escape THEN <<>> ELSE <<Charge(1)>>
Pieces(n, delims) ==
    LET node == NodeTable[n] IN
    CASE node.type = "Output" -> <<Charge(Len(node.data[1]))>>
      [] node.type \in {"Comment", "Partial", "Negate", "Section", "Stop", "Variable"} ->
            <<Charge(delims[1])>> \o SigilBytes(node) \o <<Charge(Len(node.data[1])), Charge(delims[2])>>
      [] OTHER -> <<>>
RebuildsChildren(n) == NodeTable[n].type \in {"Root", "Negate", "Section", "Stop", "Variable"}

\* One child of lambdaSectionText (top) or appendLambdaNodeTemplate.
RebuildChild ==
    /\ Running("rebuild")
    /\ LET call == Head(control)
           children == NodeTable[call.node].children
           k == call.at
           child == children[k]
           refused == \/ BadMetadata(children, k) \/ child = Null
                      \/ TooDeep(call.depth + 1) \/ ~CanVisit
           skipped == call.top /\ NodeTable[child].type = "Stop"
           malformed == ~skipped /\ MissingData(child)
           pieces == IF skipped THEN <<>>
                     ELSE Pieces(child, call.delims) \o
                          IF RebuildsChildren(child)
                          THEN <<[call EXCEPT !.node = child, !.depth = @ + 1, !.at = 1, !.top = FALSE]>>
                          ELSE <<>>
       IN \/ k > Len(children) /\ Continue(<<>>) /\ UNCHANGED spent
          \/ k <= Len(children) /\ refused /\ Raise /\ UNCHANGED spent
          \/ /\ k <= Len(children) /\ ~refused
             /\ spent' = [spent EXCEPT !.visits = @ + 1]
             /\ \/ malformed /\ Raise
                \/ ~malformed /\ Continue(pieces \o <<[call EXCEPT !.at = k + 1]>>)
    /\ UNCHANGED <<settings, cursors, sinks, callbacks>>

ConsumeLambdaTemplate ==
    /\ Running("charge")
    /\ LET n == Head(control).bytes IN
       \/ CanCharge(n) /\ spent' = [spent EXCEPT !.lambda = @ + n] /\ Continue(<<>>)
       \/ ~CanCharge(n) /\ Raise /\ UNCHANGED spent
    /\ UNCHANGED <<settings, cursors, sinks, callbacks>>

\* _invokeSectionLambda: the scope outlives the guard that ends the callback.
InvokeSectionLambda ==
    /\ Running("invoke")
    /\ LET id == Len(contexts) + 1
       IN /\ contexts' = Append(contexts, TRUE)
          /\ Continue(<<[op |-> "callback", context |-> id], [op |-> "endCallback", context |-> id],
                        Op("leaveScope"), At("result", Head(control).node, Head(control).depth)>>)
    /\ scopes' = scopes + 1
    /\ callbackDepth' = callbackDepth + 1
    /\ UNCHANGED <<settings, cursors, sinks, spent, returned, rendered, calls>>

\* renderValue calls an interpolated lambda without a context or a callback guard.
InvokeInterpolationLambda ==
    /\ Running("interpolate")
    /\ Continue(<<Op("interpolation"), At("result", Head(control).node, Head(control).depth)>>)
    /\ UNCHANGED <<settings, cursors, sinks, spent, callbacks>>

IsLiteral == returned.kind = "literal" \/ (returned.kind = "inherit" /\ config.mode = "literal")

\* The tail of renderValue's and renderSection's lambda cases.
ConsumeResult ==
    /\ Running("result")
    /\ LET call == Head(control)
           text == returned.text
           inSection == NodeTable[call.node].type = "Section"
           evaluates == ~inSection /\ NodeTable[call.node].escape
           rendersRoot == NodeCall(TemplateTable[text].root, call.depth + 1, <<>>, FALSE)
       IN \/ /\ IsLiteral
             /\ Continue(<<IF inSection THEN Write("append", text) ELSE Emit(call.node, text)>>)
             /\ UNCHANGED <<indentation, sinks, spent>>
          \/ ~IsLiteral /\ ~CanCharge(Len(text)) /\ Raise /\ UNCHANGED <<indentation, sinks, spent>>
          \/ /\ ~IsLiteral /\ CanCharge(Len(text)) /\ ~CanParse(text)
             /\ spent' = [spent EXCEPT !.lambda = @ + Len(text)]
             /\ Raise /\ UNCHANGED <<indentation, sinks>>
          \/ /\ ~IsLiteral /\ CanCharge(Len(text)) /\ CanParse(text)
             /\ spent' = ParsedCharge(text)
             /\ indentation' = Append(indentation, NewFrame(<<>>))
             /\ \/ /\ ~evaluates
                   /\ Continue(<<rendersRoot, Op("popIndentation")>>)
                   /\ UNCHANGED sinks
                \/ /\ evaluates
                   /\ buffers' = Append(buffers, <<>>)
                   /\ output' = Len(buffers) + 1
                   /\ Continue(<<rendersRoot, [op |-> "restoreOutput", to |-> output], Op("evaluated"),
                                 Op("dropBuffer"), Op("popIndentation")>>)
    /\ UNCHANGED <<settings, stack, activeDepth, callbacks>>

-----------------------------------------------------------------------------
(* User code inside a callback *)

UserCall == calls < MaxCalls /\ calls' = calls + 1

ReturnFromCallback ==
    /\ InCallback
    /\ \/ \E kind \in {"inherit", "literal", "template"}, text \in Texts :
             returned' = [kind |-> kind, text |-> text]
       \/ returned' = [kind |-> "literal", text |-> rendered]
    /\ Continue(<<>>)
    /\ UNCHANGED <<settings, cursors, sinks, spent, callbackDepth, contexts, scopes, rendered, calls>>

CallbackThrows ==
    /\ InCallback /\ UserCall /\ Raise
    /\ UNCHANGED <<settings, cursors, sinks, spent, callbackDepth, contexts, scopes, returned, rendered>>

CallbackCatches ==
    /\ throwing /\ control # <<>> /\ Head(control).op \in UserOps
    /\ throwing' = FALSE
    /\ UNCHANGED <<settings, cursors, sinks, spent, callbacks, control>>

\* renderForLambda, reached through a context or through a raw Renderer *.
HelperAllowed(s) == rendering /\ callbackDepth > 0 /\ Len(s) <= limits.output /\ scopes > 0
EnterHelper(n, s) ==
    /\ buffers' = Append(buffers, s)
    /\ output' = Len(buffers) + 1
    /\ indentation' = Append(indentation, NewFrame(<<>>))
    /\ control' = <<NodeCall(n, activeDepth + 1, <<>>, FALSE), Op("popIndentation"),
                    [op |-> "restoreOutput", to |-> output], Op("endHelper")>> \o control
    /\ throwing' = FALSE
RenderForLambda(n, s) ==
    \/ HelperAllowed(s) /\ EnterHelper(n, s)
    \/ ~HelperAllowed(s) /\ Raise /\ UNCHANGED <<sinks, indentation>>

LegacyRender(n, s) ==
    /\ InCallback /\ UserCall
    /\ RenderForLambda(n, s)
    /\ UNCHANGED <<settings, stack, activeDepth, spent, callbackDepth, contexts, scopes, returned, rendered>>

ContextRender(c, n, s) ==
    /\ InCallback /\ UserCall
    /\ \/ contexts[c] /\ RenderForLambda(n, s)
       \/ ~contexts[c] /\ Raise /\ UNCHANGED <<sinks, indentation>>
    /\ UNCHANGED <<settings, stack, activeDepth, spent, callbackDepth, contexts, scopes, returned, rendered>>

ContextRenderTemplate(c, text) ==
    /\ InCallback /\ UserCall
    /\ \/ /\ ~contexts[c] \/ ~CanCharge(Len(text))
          /\ Raise /\ UNCHANGED <<sinks, indentation, spent>>
       \/ /\ contexts[c] /\ CanCharge(Len(text)) /\ ~CanParse(text)
          /\ spent' = [spent EXCEPT !.lambda = @ + Len(text)]
          /\ Raise /\ UNCHANGED <<sinks, indentation>>
       \/ /\ contexts[c] /\ CanCharge(Len(text)) /\ CanParse(text)
          /\ spent' = ParsedCharge(text)
          /\ RenderForLambda(TemplateTable[text].root, <<>>)
    /\ UNCHANGED <<settings, stack, activeDepth, callbackDepth, contexts, scopes, returned, rendered>>

-----------------------------------------------------------------------------
(* Scope guards, run by a return and by an exception alike *)

Unwound == control' = Tail(control) /\ UNCHANGED throwing

\* Fault: the depth guard resets instead of restoring.
ResetDepth ==
    /\ Guarding("restoreDepth") /\ Unwound
    /\ activeDepth' = 0
    /\ UNCHANGED <<settings, stack, indentation, sinks, spent, callbacks>>
RestoreDepth ==
    /\ Guarding("restoreDepth") /\ Unwound
    /\ activeDepth' = Head(control).parent
    /\ UNCHANGED <<settings, stack, indentation, sinks, spent, callbacks>>
PopContext ==
    /\ Guarding("popContext") /\ Unwound
    /\ stack' = Front(stack)
    /\ UNCHANGED <<settings, indentation, activeDepth, sinks, spent, callbacks>>
PopIndentation ==
    /\ Guarding("popIndentation") /\ Unwound
    /\ indentation' = Front(indentation)
    /\ UNCHANGED <<settings, stack, activeDepth, sinks, spent, callbacks>>
RestoreOutput ==
    /\ Guarding("restoreOutput") /\ Unwound
    /\ output' = Head(control).to
    /\ UNCHANGED <<settings, cursors, buffers, spent, callbacks>>
\* Fault: the temporary outlives its scope.
KeepBuffer ==
    /\ Guarding("dropBuffer") /\ Unwound
    /\ UNCHANGED <<settings, cursors, sinks, spent, callbacks>>
DropBuffer ==
    /\ Guarding("dropBuffer") /\ Unwound
    /\ buffers' = Front(buffers)
    /\ UNCHANGED <<settings, cursors, output, spent, callbacks>>
\* The caller of renderForLambda keeps the text, complete or not.
EndHelper ==
    /\ Guarding("endHelper") /\ Unwound
    /\ rendered' = Last(buffers)
    /\ buffers' = Front(buffers)
    /\ UNCHANGED <<settings, cursors, output, spent, callbackDepth, contexts, scopes, returned, calls>>
\* Fault: the context stays usable after its callback.
EndCallbackKeepingContext ==
    /\ Guarding("endCallback") /\ Unwound
    /\ callbackDepth' = callbackDepth - 1
    /\ UNCHANGED <<settings, cursors, sinks, spent, contexts, scopes, returned, rendered, calls>>
EndCallback ==
    /\ Guarding("endCallback") /\ Unwound
    /\ contexts' = [contexts EXCEPT ![Head(control).context] = FALSE]
    /\ callbackDepth' = callbackDepth - 1
    /\ UNCHANGED <<settings, cursors, sinks, spent, scopes, returned, rendered, calls>>
LeaveScope ==
    /\ Guarding("leaveScope") /\ Unwound
    /\ scopes' = scopes - 1
    /\ UNCHANGED <<settings, cursors, sinks, spent, callbackDepth, contexts, returned, rendered, calls>>
\* renderRoot's guard.  The exception, if any, leaves render().
EndRoot ==
    /\ Guarding("endRoot")
    /\ control' = Tail(control) /\ throwing' = FALSE
    /\ stack' = <<>> /\ indentation' = <<>> /\ activeDepth' = 0 /\ callbackDepth' = 0
    /\ rendering' = FALSE
    /\ outcome' = IF throwing THEN "failed" ELSE "done"
    /\ UNCHANGED <<config, renders, sinks, spent, contexts, scopes, returned, rendered, calls>>

\* Calls that an exception abandons: pending work, and a callback that does not catch it.
Discard ==
    /\ throwing /\ control # <<>> /\ Head(control).op \notin GuardOps
    /\ control' = Tail(control)
    /\ UNCHANGED <<settings, cursors, sinks, spent, callbacks, throwing>>

-----------------------------------------------------------------------------
(* The application *)

UserCode == control = <<>> \/ InCallback
\* Fault: the setters forget to look.
AlwaysUnlocked == TRUE
Unlocked == ~rendering

NoSpending == [output |-> 0, visits |-> 0, lambda |-> 0]
\* init clears first, so it takes the resolver away.
InitRenderer(n, d, p, s, l) ==
    /\ UserCode /\ Unlocked
    /\ config' = [config EXCEPT !.node = n, !.data = d, !.partials = p, !.resolver = NoPartials, !.limits = l]
    /\ buffers' = s /\ output' = Len(s)
    /\ stack' = <<>> /\ indentation' = <<>> /\ activeDepth' = 0 /\ callbackDepth' = 0
    /\ spent' = NoSpending
    /\ rendering' = FALSE /\ outcome' = "none"
    /\ UNCHANGED <<renders, contexts, scopes, returned, rendered, calls, machine>>

\* clear() leaves the limits and the string mode alone.
Clear ==
    /\ UserCode /\ Unlocked
    /\ config' = [config EXCEPT !.node = Null, !.data = Null, !.partials = NoPartials, !.resolver = NoPartials]
    /\ buffers' = <<>> /\ output' = 0
    /\ stack' = <<>> /\ indentation' = <<>> /\ activeDepth' = 0 /\ callbackDepth' = 0
    /\ spent' = NoSpending
    /\ rendering' = FALSE /\ outcome' = "none"
    /\ UNCHANGED <<renders, contexts, scopes, returned, rendered, calls, machine>>

\* setNode, setData, setPartials, setPartialResolver, setLambdaStringMode
Configure(field, value) ==
    /\ UserCode /\ Unlocked
    /\ config' = [config EXCEPT ![field] = value]
    /\ UNCHANGED <<rendering, outcome, renders, cursors, sinks, spent, callbacks, machine>>

SetOutput(s) ==
    /\ UserCode /\ Unlocked
    /\ buffers' = s /\ output' = Len(s)
    /\ UNCHANGED <<settings, cursors, spent, callbacks, machine>>

\* Every setter, init, clear and render() itself refuse to run inside a render.
RejectWhileRendering ==
    /\ InCallback /\ ~Unlocked /\ UserCall /\ Raise
    /\ UNCHANGED <<settings, cursors, sinks, spent, callbackDepth, contexts, scopes, returned, rendered>>

Ready ==
    /\ Unlocked /\ config.node # Null /\ config.data # Null /\ output # 0
    /\ Len(buffers[output]) <= limits.output

\* Fault: the visits of the render before are still charged.
StartRenderCarryingVisits ==
    /\ UserCode /\ Ready /\ renders < MaxRenders
    /\ rendering' = TRUE /\ outcome' = "none" /\ renders' = renders + 1 /\ calls' = 0
    /\ spent' = [NoSpending EXCEPT !.output = Len(buffers[output]), !.visits = spent.visits]
    /\ stack' = <<config.data>> /\ indentation' = <<>> /\ activeDepth' = 0 /\ callbackDepth' = 0
    /\ control' = <<NodeCall(config.node, 0, <<>>, FALSE), Op("endRoot")>> \o control
    /\ UNCHANGED <<config, sinks, contexts, scopes, returned, rendered, throwing>>
StartRender ==
    /\ UserCode /\ Ready /\ renders < MaxRenders
    /\ rendering' = TRUE /\ outcome' = "none" /\ renders' = renders + 1 /\ calls' = 0
    /\ spent' = [NoSpending EXCEPT !.output = Len(buffers[output])]
    /\ stack' = <<config.data>> /\ indentation' = <<>> /\ activeDepth' = 0 /\ callbackDepth' = 0
    /\ control' = <<NodeCall(config.node, 0, <<>>, FALSE), Op("endRoot")>> \o control
    /\ UNCHANGED <<config, sinks, contexts, scopes, returned, rendered, throwing>>

RejectRender ==
    /\ control = <<>> /\ ~Ready
    /\ outcome' = "rejected"
    /\ UNCHANGED <<config, rendering, renders, cursors, sinks, spent, callbacks, machine>>

-----------------------------------------------------------------------------
Modes == {"template", "literal"}

Init ==
    /\ \E l \in LimitChoices :
          config = [node |-> Null, data |-> Null, partials |-> NoPartials, resolver |-> NoPartials,
                    limits |-> l, mode |-> "template"]
    /\ rendering = FALSE /\ outcome = "none" /\ renders = 0 /\ calls = 0
    /\ output = 0 /\ buffers = <<>> /\ spent = NoSpending
    /\ stack = <<>> /\ indentation = <<>> /\ activeDepth = 0
    /\ callbackDepth = 0 /\ contexts = <<>> /\ scopes = 0
    /\ returned = [kind |-> "literal", text |-> <<>>] /\ rendered = <<>>
    /\ control = <<>> /\ throwing = FALSE

Traverse == EnterNode \/ RenderChildren \/ PushContext \/ RenderPartial
WriteOutput == \/ BeginTemplateTag \/ AppendTemplateOutput \/ ConsumeTemplateSource
               \/ AppendText \/ AppendEscaped \/ AppendEvaluated
CallLambda == \/ SectionText \/ RebuildChild \/ ConsumeLambdaTemplate
              \/ InvokeSectionLambda \/ InvokeInterpolationLambda \/ ConsumeResult
Guard == \/ RestoreDepth \/ PopContext \/ PopIndentation \/ RestoreOutput \/ DropBuffer
         \/ EndHelper \/ EndCallback \/ LeaveScope \/ EndRoot
Callback ==
    \/ ReturnFromCallback \/ CallbackThrows \/ CallbackCatches \/ RejectWhileRendering
    \/ \E n \in HelperNodes, s \in {<<>>, rendered} :
          LegacyRender(n, s) \/ \E c \in DOMAIN contexts : ContextRender(c, n, s)
    \/ \E c \in DOMAIN contexts, text \in Texts : ContextRenderTemplate(c, text)
Application ==
    \/ \E n \in Roots, d \in Inputs, p \in Externals, s \in Outputs, l \in LimitChoices : InitRenderer(n, d, p, <<s>>, l)
    \/ Clear \/ StartRender \/ RejectRender
    \/ \E n \in Roots : Configure("node", n)
    \/ \E d \in Inputs : Configure("data", d)
    \/ \E p \in Externals : Configure("partials", p)
    \/ \E r \in Resolvers : Configure("resolver", r)
    \/ \E m \in Modes : Configure("mode", m)
    \/ \E s \in Outputs : SetOutput(<<s>>)

Render == Traverse \/ WriteOutput \/ CallLambda \/ Guard \/ Discard \/ Callback
Next == Render \/ Application
Spec == Init /\ [][Next]_vars
\* The rendering thread keeps running, and a callback eventually returns or throws.
FairSpec == Spec /\ WF_vars(Render)

-----------------------------------------------------------------------------
(* Properties *)

Count(pending, op) == Cardinality({i \in DOMAIN pending : pending[i].op = op})
\* The C++ stack below a pending call.
CallersOf(i) == SubSeq(control, i + 1, Len(control))

\* No aggregate limit is ever exceeded, whatever partials, lambdas and callbacks
\* do (README: "Every field is a hard maximum and zero never means unlimited").
ChargesWithinLimits ==
    rendering =>
      spent.output <= limits.output /\ spent.visits <= limits.visits /\ spent.lambda <= limits.lambda

\* maxOutputBytes pays for what the caller receives: every byte once, however
\* many buffers it passed through, and an escaped interpolation is charged its
\* evaluated text plus the growth of escaping, not both texts.
ChargedOnce ==
    Guarding("endRoot") =>
      /\ Len(buffers[1]) <= spent.output
      /\ ~throwing /\ calls = 0 => Len(buffers[1]) = spent.output

\* _activeDepth is the number of renderNode calls on the C++ stack less one, also
\* below callbacks and after exceptions they caught, so the ceiling bounds the stack.
DepthCountsFrames ==
    LET frames == Count(control, "restoreDepth") IN
    /\ \A i \in DOMAIN control :
          control[i].op = "restoreDepth" => control[i].depth = Count(CallersOf(i), "restoreDepth")
    /\ activeDepth = IF frames = 0 THEN 0 ELSE frames - 1
    /\ frames > 0 => ~TooDeep(frames - 1)

\* A context is usable exactly while its own callback frame exists; the callback
\* counter counts those frames, and each has an engine in the registry.
Owners(pending) == {i \in DOMAIN pending : pending[i].op = "endCallback"}
CapabilitiesMatchFrames ==
    /\ {c \in DOMAIN contexts : contexts[c]} = {control[i].context : i \in Owners(control)}
    /\ callbackDepth = Count(control, "endCallback")
    /\ scopes = Count(control, "leaveScope")
    /\ callbackDepth <= scopes

\* Each lookup context, indentation frame and temporary buffer has the guard that
\* removes it, output is the innermost buffer whose guard has not run, and a
\* renderer at rest holds none of them: a failed render leaves it reusable.
Temporaries(pending) == Count(pending, "dropBuffer") + Count(pending, "endHelper")
GuardsAccountForState ==
    /\ Len(indentation) = Count(control, "popIndentation")
    /\ rendering => Len(stack) = 1 + Count(control, "popContext")
    /\ rendering => Len(buffers) = 1 + Temporaries(control)
    /\ rendering => output = 1 + Count(control, "restoreOutput")
    /\ ~rendering => control = <<>> /\ stack = <<>> /\ Len(buffers) = output

\* Nothing that runs inside a render - a setter, init, clear or a second render
\* called from a callback - changes its inputs or refunds what it spent.
RenderIsolated ==
    [][rendering /\ rendering' =>
          /\ config' = config /\ renders' = renders
          /\ spent'.output >= spent.output /\ spent'.visits >= spent.visits
          /\ spent'.lambda >= spent.lambda]_vars

\* Every render ends, whatever recursion its partials and lambdas contain.
RenderTerminates == rendering ~> ~rendering

=============================================================================
