# A TLA+ model of libmustache

libmustache renders logic-less templates. A template is tokenized into a tree of
nodes; data comes from JSON, YAML or the application; a renderer walks the tree with a
stack of data contexts and writes to a string under hard resource limits. Lambdas are
user code called in the middle of that walk, and a section lambda receives a context
through which it may render again, also from another thread. Trees are serialized in a
legacy byte format, and whole templates in archives that are mapped and read in place.

This directory models those parts in TLA+, checks the models with TLC on small
instances, and proves some of their properties with TLAPS for all instances.
`PROJECT.json` maps every definition to the lines of code it stands for.

## 1. Inventory

| Component | Code (under `src/`) | State | Operations |
|---|---|---|---|
| Renderer, render engine | `src/renderer.cpp`, `src/render_engine.hpp` | inputs and settings, limits, three aggregate counters, context stack, indentation frames, current output, active depth, callback depth | setters, `init`, `clear`, `render`, `renderForLambda`, the recursive walk and its scope guards |
| Lambda contexts | `src/lambda.cpp` | per context: a recursive mutex and a `Renderer *` that becomes null | `render`, `renderTemplate`, `legacyRenderer`, `invalidate` |
| Active engines | `ActiveEngineScope` in `src/render_engine.hpp` | a process-wide linked list under one mutex | constructor, destructor, `find` |
| Partial sources | `src/render_engine.hpp`, `src/compiled_template.cpp`, `src/archive/cista.cpp` | none | ordered lookup of a name |
| Tokenizer | `src/tokenizer.cpp` | delimiters, escaping, limits; per parse: frames, buffer, tree | `tokenize`, setters |
| Node | `src/node.cpp` | the tree | legacy `serialize`, `unserialize`, reconstruction of section text, moves |
| Data | `src/data.cpp` | a value | `isEmpty`, `find`, factories |
| Parsers of data | `src/json_parser.cpp`, `src/data.cpp`, `src/parse_budget.hpp` | a budget, frames of open containers, the set of YAML nodes being expanded | SAX events; YAML preflight and build; resolution of scalars |
| Template handles | `src/compiled_template.cpp`, `src/archived_template.hpp`, `src/archive/cista.cpp` | shared immutable states, the caller's map of partials | compile, load, archive, copy, move, render |
| Template archive | `src/archive/cista.cpp` | none between calls; tables while writing, a walk while validating | `serialize`, `load`, validation, views |
| Command line tool | `bin/cli.cpp`, `bin/mustache.cpp` | options, what was read so far, files and streams | parse of the arguments, one run |
| Facade, utilities | `src/mustache.cpp`, `src/utils.cpp` | none of their own | delegation, string helpers |

**How they interact.** A renderer reads a tree through one of two views (owned nodes or
archive records) and finds partials through the matching source. It calls a lambda
synchronously. An interpolation lambda's text is tokenized and rendered within the same
budgets. A section lambda gets a `LambdaRenderContext`, and `render` through it locks the
context, finds the engine of the current `render()` in the registry and runs it on the
calling thread. The writer of an archive and `serialize` read what the tokenizer built;
the renderer trusts what the tokenizer, `unserialize` and the archive validator accept,
among other things that indentation metadata stands directly before a partial. A template
handle shares its state with its copies; a render reads that state, and those of the
partials it calls, through plain pointers while callbacks may replace every handle.

**What is hard here.**

- *Callbacks in the middle of a walk.* A callback can throw, catch, render again, keep
  its context, call setters or `render()`; every pushed context, frame, buffer and depth
  must be undone on the way out, and nothing it does may change the render it runs in.
- *Threads.* The renderer's own state has no lock. Contexts have a recursive mutex,
  invalidation waits for it, and engines of several threads leave the registry in any
  order.
- *Resource limits.* Output, visits and lambda text are counted across nested renders,
  intermediate buffers and failures. Nesting, nodes and bytes are counted by the
  tokenizer, by the parsers of data and, with slightly different rules, by the writer and
  the reader of an archive.
- *Bytes nobody vouches for.* `unserialize` and the archive validator must accept exactly
  what the writers produce, though the lengths, counts and links they read are arbitrary.
- *Standalone lines.* The tokenizer decides after the fact that a line it has buffered is
  to be hidden, and moves its indentation into metadata for a partial.
- *YAML.* A short text with aliases may expand to a huge or infinite value, and a plain
  scalar is a number, a word or a string by rules that overlap.
- *Ownership.* A callback may replace, move or clear the handle being rendered and the map
  entry whose tree is being read; a state dies with its last owner, and the next one may
  get its address.
- *Failing halfway.* The command line tool opens, reads, renders, writes, flushes and closes
  in order, each may fail, and the file it writes may be one that it reads.

The hazards, each at its line and with the properties that guard it, are in
`PROJECT.json`.

**What makes each component correct.**

| Component | Correct when |
|---|---|
| Renderer | it renders what the template means; no counter passes its limit and each output byte is paid once; a failure undoes the walk and leaves a prefix; callbacks cannot disturb it; every render ends |
| Lambda contexts | a copy is usable exactly while its callback runs, by one thread at a time; threads that use their own contexts never deadlock |
| Active engines | the list holds exactly the live scopes; a nested render never runs in an engine that is gone |
| Tokenizer | it accepts exactly well-formed templates within limits; the tree is the template's; a failed parse changes nothing |
| Node serialization | a tree is written exactly or refused; reading inverts writing; nothing else can be read |
| Parsers of data | the value is what the text means; a text is rejected exactly when it is over a limit, invalid or cyclic |
| Archive | what is loaded is what was written; exactly well-formed archives are accepted, each other one refused for a reason it has, in bounded space |
| Template handles | a render owns what it reads; sharing cannot be observed: a handle behaves as the template itself |
| Command line tool | the arguments mean what they say; the exit status is 0 exactly when the output is where it was asked for; nothing is written before everything was read and rendered |

## 2. Modules

| Module | Models | Correspondence |
|---|---|---|
| `Renderer` | `Renderer` and `RenderEngine` | The C++ call stack is `control`, a sequence of pending calls and scope guards whose head runs next; an exception discards calls and still runs guards. `buffers` are the live strings, `output` the one written to. One action per branch of `renderNode` and its helpers, per guard, and per thing user code can do. |
| `RenderReference` | what templates mean | a recursive definition over the tree, without state, guards or budgets |
| `LambdaContexts` | contexts, mutexes, registry, threads | A thread is a sequence of frames; it owns a context's mutex while one of its frames is inside the `lock_guard`. A call pushes a frame that can do nothing until it has the lock. User code may keep and hand on several contexts. What the engine does between two lambdas is left to `Renderer`. |
| `Capability` | the promise of a context | abstract specification: grant, enter, leave, revoke |
| `Tokenizer` | one `tokenize` call after another, and the setters | The text is a sequence of lexemes; one action per iteration of the scanning loop, one per way it fails. A tag carries the line state that its own last characters leave behind (`tail`). |
| `TokenizerReference` | which templates are accepted and what their trees are | by lines and by matching of tags, without a scan |
| `ParseBudget` | `detail::ParseBudget`, `checkInputSize` | the limits of a call, and operators shared by the two parsers |
| `JSONData`, `YAMLData` | the SAX builder; the YAML preflight and builder | One action per event or per node entered and left. |
| `YAMLScalars` | the resolution of one scalar: null, boolean, integer, double or string | A spelling is a sequence of characters that `YAMLData` resolves when it enters the node; integers have `IntegerWidth` bits. |
| `JSONReference` | the meaning of a JSON text and what it costs | by the places of events: which lie in which container, how many of them there are; no stack and no counting along the way |
| `YAMLReference` | the meaning of a YAML text and what it costs | of a node, by its level in the expansion; of a scalar, by a grammar; no stack and no set of nodes being expanded |
| `NodeShapes`, `NodeFormat` | trees that may be encoded; the encoding itself | by recursion |
| `NodeWriter`, `NodeReader` | `Node::serialize`, `Node::unserialize` | One action per node begun, child, patch and check; the stream is a sequence of records with byte offsets. |
| `NodeCodec` | the two in a row | writes a tree and reads it back, or reads what comes from elsewhere |
| `ArchiveFormat` | the graph's tables and their sizes | data only |
| `ArchiveBuilder` | counting, limits and placement by the writer | by folds, in the order the writer appends |
| `ArchiveValidator` | the validating walk | One action per check that can end the walk, per node entered and per node left. |
| `ArchiveFrame` | preamble, type version, checksum and vector headers; padding and size limits of the writer; what the loader checks before it looks at the graph | Positions and sizes are numbers of `SizeWidth` bits. |
| `WellFormedArchive` | what a well-formed graph is, said of its references, how deep its nodes lie, and when it is within limits | declarative |
| `ArchiveLoader` | `load`: the frame, then the walk, then the verdict | composes `ArchiveFrame` and `ArchiveValidator`; says what a well-formed frame is and what loading promises |
| `ArchivedTemplate` | `serialize`, loading what was written or comes from elsewhere, the views and the partial lookup; what a template means | composes the builder and the loader; the meaning by recursion |
| `TemplateHandles` | `CompiledTemplate`, `ArchivedTemplate`, `PartialMap`, and renders as far as they own states | `handles` are the `shared_ptr`s of the application and its map, `heap` the states that exist by address, `stack` the renders, partial calls and callbacks. One action per call of the application and per step of a walk that takes or leaves ownership. |
| `TemplateValues` | what handles promise | abstract specification: handles that are immutable values |
| `CommandLine` | `parseOptions` and `run` of the tool | One action per kind of argument and per operation on a file, stream or template; each has a failing twin. |
| `CommandLineReference` | what an argument vector asks for | by splitting it, without a scan |
| `*_proofs` | | theorems, see section 5 |
| `MC*` | | instances for TLC |

Actions whose comment begins with `Fault` are not part of any specification. They are
forms a plausible mistake would give to the next definition, and show that the properties
would notice it (`mutants` in `PROJECT.json`).

Values are abstracted as far as properties allow. Bytes are elements of short sequences
or sizes; in the tokenizer a delimiter pair is one value. Stop delimiters may hold newlines and
blanks, which only the setters can give them (a delimiter tag is split at blanks), so a tag whose
delimiter does has a `tail` and is one lexeme as long as the delimiters are those (`Lexed`). Start
delimiters are taken to hold neither, since one that did could end the line of a standalone tag
before it. Sizes are natural numbers
because the code compares lengths by subtraction from what is left, so nothing wraps; the
exceptions have their widths as constants, small in the instances so that their borders
are reached: the 24-bit, 16-bit and 32-bit fields of the legacy format (5, 3 and 36),
integers in YAML (3 bits), and sizes and offsets in an archive (12 bits).

## 3. Runs

Numbers are distinct states of the run.

| Run | States | Question |
|---|---|---|
| `RendererCallbacks` | 235,807 | Can any callback behaviour disturb the render it runs in, leave the depth or a context inconsistent, or keep the render from ending? |
| `RendererLimits` | 725,599 | With every limit out of the way, met or just missed: does the engine render what the template means, fail exactly when that does not fit, leave a prefix when it fails, charge each byte once, account for every stack and buffer, and is the renderer then fit for another render? |
| `LambdaHandoff` | 226,540 | With two renderers and three threads: does a context keep its promise, is a renderer used by one thread at a time, and is the registry intact? |
| `LambdaProgress` | 315,291 | Which cycles of joins, locks and invalidations can close, and does every thread finish otherwise? |
| `Tokenizer` | 1,777,370 | Are exactly the standalone lines hidden, whatever a stop delimiter ends in, is a template accepted exactly when it is well formed and fits, does a parse depend on the settings alone, and does a failure leave the caller's tree? |
| `JSONParse` | 271,898 | Is the value what the text means, and is a text rejected exactly when it must be? |
| `YAMLParse` | 499,404 | The same for YAML with aliases, including cycles and the preflight, and for every spelling of a scalar. |
| `YAMLIntegers` | violation | Is every integer of a YAML document, in any of its notations, a number? No: see the finding below. |
| `NodeCodec` | 121,080 | Is each tree written as its exact encoding or refused, and are exactly the encodings of valid trees read? |
| `Archive` | 300,565 | Is nothing lost between template and archive, and exactly every well-formed archive accepted? |
| `TemplateHandles` | 198,573 | Can a callback make a render read a state that is gone, or another one than it began with? |
| `CommandLine` | 149,599 | Whatever is asked and whatever fails: is the command line read as it is meant, is the status true, and is the output touched last? |

**Bounds, and why they are enough.**

- *Renderer.* Templates are chosen so that every branch of `renderNode` is taken: lists of
  two, dotted names, inverted sections, standalone partials in lists and in each other, a
  partial that includes itself, lambda sections with and without stored source, trees only
  a caller can build. Two user calls in a callback are enough to use a context retained
  from an earlier callback inside a later one. Resolvers, and renders without any partials,
  are tried on the template whose partials every source has. `Tight` and `Exact` limits are met and missed by
  one on these templates. `NestingCeiling` is 5 or 8 instead of 256, so that recursion reaches it.
- *Threads.* Three contexts allow a callback inside a callback beside a callback of another
  renderer; three threads allow two workers of one callback, or a worker that hands over
  again. Three user calls allow a render racing the return of its callback on one
  thread while another waits; five, with two threads, three nested callbacks and any contexts
  handed on, allow every pair of waits (join, lock, invalidation) to face each other. Safety is checked up to permutations of threads and of
  renderers; the run with liveness uses no symmetry.
- *Tokenizer.* Every sequence of up to five lexemes of the alphabets in `MCTokenizer`: a
  standalone decision depends on the previous newline, a blank, one tag, a blank and the
  next newline. Tags that end in a newline, or in a newline and a blank, are tried in every
  sequence of up to four lexemes.
- *JSON, YAML.* Containers in containers of two elements; three levels of doubling aliases;
  aliases to any node including an enclosing one, each limit met or missed by one. `ParseNestingCeiling` is
  3 or 4, so that texts within a limit above it reach it.
- *YAML scalars.* Every spelling of up to three of fourteen characters under every tag, and
  numerals of every sign, base and up to three digits with what may follow them. With
  integers of 3 bits, three digits pass the limits of the signed and of the unsigned type in
  every base. A word counts as one character.
- *Node format.* Trees of up to four nodes over nine kinds of container and fifteen of leaf, and each
  encoding with one field of one record changed.
- *Archive.* Graphs of two and three nodes with links to themselves, each other, nothing and beyond the table, so that
  cycles, shared children and islands occur, and every single change of a written graph;
  limits that are met and just missed. Frames with one field changed, with each border of the
  size, with vectors that point outside, and whose bytes number more than a size can hold:
  with 12 bits, 86 nodes of 48 bytes wrap around to 32.
- *Handles.* One handle of each kind and one partial, three templates that call a lambda
  before or after the partial, renders in callbacks of renders, and four addresses, so that
  one is used again while another is read. Six calls suffice to fill the map, compile, render,
  replace both in the callback and render again. Addresses are interchangeable.
- *Command line.* Every argument vector of up to four common and of up to three of all
  arguments, or a template with three options; values that are names, numbers in and out of
  range, partials, all of them or nothing; a file that is input and output. `Format` knows two
  formats of which one is built in.

Deadlock is checked except in the two Lambda runs, where threads really may stop, because
their application has used up its calls or misuses a context; in `TemplateHandles`, where the
application has used up its calls; and in `CommandLine`, where the process has exited.

**Fairness.** `RendererCallbacks` assumes WF of the engine's own steps: the rendering thread
keeps running and a callback returns or throws eventually. It does not assume that user
code ever does anything else. `LambdaProgress` assumes WF of every thread's steps: a thread
that can run does, a mutex that stays free is obtained, and user code makes boundedly many
calls. Strong fairness is not assumed, since the standard mutexes do not promise it. The
other properties are about safety, and each parse, load or run of the tool is a single call
that ends by itself.

**What the runs show beyond "no error".**

- A call through a context blocks until it has the context's lock (`lambda.cpp:77`, `101`), which
  its owner keeps for the whole nested render; a callback's return blocks on the same lock
  (`lambda.cpp:131`), and a callback may wait for a worker. Such waits do close cycles. A callback
  inside `a.render` waits for a worker that calls `a.render`; or its return waits to invalidate `b`,
  in which a detached worker renders whose nested callback calls `a.render`. In each of them some
  thread calls through the context of an outer callback, and there is no other cycle
  (`DeadlockNeedsOuter`); unless one closes, every thread finishes (`EveryThreadFinishes`).
  The repository's README, which asks for one worker that is waited for, promises nothing about them.
- `_lambdaCallbackDepth` and the rest of the renderer are unlocked. That is sound only while
  a callback uses its own context or waits for its worker: `RendererExclusive` is checked
  for `Reach = "own"`.
- The tokenizer's "Invalid standalone parser state" (`tokenizer.cpp:363`) can be reached: the
  line state is that of the characters, the delimiters' included, but a delimiter's characters are
  never buffered. With a stop delimiter of a newline and a blank, which `setStopSequence` accepts,
  `{{a\n {{>b\n ` is refused so, since the second line begins in the blank of the first tag.
  That is the only cause (`PrefixIsBuffered`), and `AcceptsExactly` has it as a rule (`Indented`).
  No document speaks of such delimiters.
- No tree the tokenizer accepts is deeper than the serializer's limit (`PathsFitSerializer`). Node
  limits of the two differ by the root, which only one of them counts.
- The tool's status is 0 only if the output is complete and where it was asked for. The converse
  is a convention for the last steps: output whose flush or close failed counts as not
  delivered, though a stream may hold its text by then (as the one in `tests/test_cli.cpp` does).
- Sharing the states of handles cannot be observed at all: `TemplateHandles` implements
  `TemplateValues`, with addresses used again. A render keeps its own state by a `shared_ptr`
  on its stack and a partial's through the resolver's frame.
- In the writer of archives, the checks of node and part counts repeat what the validator it
  runs would find; its byte check does not. YAML cycles are caught by the set of
  active nodes and, if that failed, by the nesting ceiling.

- Cista's own check of a vector's bytes throws `std::overflow_error`, which `readArchive`
  does not catch; no archive gets that far, because the layout is checked first
  (`LoadsExactly`).

**Finding.** `YAMLIntegers` is expected to be violated. `CHANGELOG.md:25-30` says that
decimal, hexadecimal, octal and binary integers become integer and floating-point data. An
integer too large for 64 bits falls back to `parseYAMLSimpleDouble` (`src/data.cpp:992`), which
extracts a decimal number from a stream. So `9223372036854775808` becomes a double, as
`tests/test_data_behavior.cpp` expects, but `0x8000000000000000` becomes the string of that
spelling, and an octal numeral that is too large is read as if it were decimal. The model
takes the stream's extraction as in libstdc++, which reads no hexadecimal numerals.

## 4. Properties worth knowing

- `RenderIsolated` (action property): no step inside a render - a setter, `init`, `clear` or a
  second `render()` called from a callback - changes its inputs or refunds what it has spent.
- `ChargedOnce`: what the caller receives was paid for byte by byte, exactly once when no user
  code intervened, however many buffers the text passed through.
- `GuardsAccountForState`, `DepthCountsFrames`: the pending guards determine, at every step
  and during unwinding, what the stacks, the current output and the depth must be.
- `PromiseKept`: `LambdaContexts` implements `Capability` under the mapping that calls a
  context granted while its `State::renderer` is not null, and its users the threads with a
  `renderForLambda` frame on it.
- `EngineIsCurrent`: a nested render runs in the engine of the `render()` in progress, never
  in the engine of an earlier one, whose object is gone.
- `HandlesAreValues`: `TemplateHandles` implements `TemplateValues` under the mapping that
  follows every pointer: a handle holds the template its state holds, and a reader reads the
  tree its plain pointer leads to. `ReadersOwn` says why: the pointer's state has an owner on
  the same call's stack.
- `StatusIsTrue` and `WritesLast` relate the exit status, what every file and stream holds, and
  how far the run had come, when any operation may have failed.
- `BuildsExpansion` compares the scan of a scalar with a grammar: which spellings are numerals
  of which base and value, and which are decimals.
- `AcceptsExactly`, `RejectsExactly`, `LoadsExactly`, `ReadsExactly`: acceptance is
  compared in both directions with a definition that does not scan, count or walk.

## 5. Proofs

| Theorem | States |
|---|---|
| `Renderer_proofs!ChargesStayWithinLimits` | `Spec => []ChargesWithinLimits` |
| `Renderer_proofs!OutputAlwaysChargedOnce` | `Spec => []ChargedOnce` |
| `Renderer_proofs!GuardsAlwaysAccountForState` | `Spec => []GuardsAccountForState` |
| `Renderer_proofs!DepthAlwaysCountsFrames` | `Spec => []DepthCountsFrames` |
| `Renderer_proofs!CapabilitiesAlwaysMatchFrames` | `Spec => []CapabilitiesMatchFrames` |
| `Renderer_proofs!RendersAreIsolated` | `Spec => RenderIsolated` |
| `LambdaContexts_proofs!ContextsKeepTheirPromise` | `Spec => PromiseKept`, the refinement of `Capability` |
| `LambdaContexts_proofs!RegistryStaysIntact` | `Spec => []RegistryIntact` |
| `LambdaContexts_proofs!ActiveContextsCanRender` | `Spec => []ActiveContextCanRender`, if `Disciplined` |
| `LambdaContexts_proofs!EnginesAreCurrent` | `Spec => []EngineIsCurrent`, if `Disciplined` |
| `LambdaContexts_proofs!OwnContextsNeverDeadlock` | `Spec => []DeadlockNeedsOuter` |
| `LambdaContexts_proofs!RenderersAreExclusive` | `Spec => []RendererExclusive`, if `Separate` |
| `Tokenizer_proofs!PrefixStaysBuffered` | `Spec => []PrefixIsBuffered` |
| `Tokenizer_proofs!MetadataAlwaysPrecedesPartial` | `Spec => []MetadataPrecedesPartial` |
| `Tokenizer_proofs!PathsAlwaysFitSerializer` | `Spec => []PathsFitSerializer` |
| `Tokenizer_proofs!RejectionsKeepRoot` | `Spec => RejectionKeepsRoot` |
| `Tokenizer_proofs!TemplatesAreAcceptedExactly` | `Spec => []AcceptsExactly`, `Tokenizer` against `TokenizerReference` |
| `Tokenizer_proofs!TemplatesBecomeTheirTrees` | `Spec => []TreeIsTheTemplates`, the tree node for node |
| `Archive_proofs!WalkStaysBounded` | `ValidatorSpec => []WalkBounded` |
| `Archive_proofs!AcceptedGraphsAreContained` | what an accepted graph guarantees to every view |
| `Archive_proofs!AcceptedGraphsAreWellFormed` | `ValidatorSpec => [](verdict = "valid" => WellFormed(graph))` |
| `Archive_proofs!RefusedGraphsAreMalformed` | no step of the walk refuses a well-formed graph as invalid |
| `Archive_proofs!AcceptedGraphsAreInLimits` | `ValidatorSpec => [](verdict = "valid" => FitsLimits(graph, limits))` |
| `Archive_proofs!RefusedGraphsExceedLimits` | a well-formed graph that the walk refuses for a limit exceeds one |
| `Archive_proofs!DepthIsDetermined` | the nodes of a well-formed graph have exactly one depth each |
| `Archive_proofs!ArchivesLoadExactly` | `LoaderSpec => []LoadsExactly` |
| `TemplateHandles_proofs!RendersOwnWhatTheyRead` | `Spec => []ReadersOwn` |
| `TemplateHandles_proofs!HandlesBehaveAsValues` | `Spec => HandlesAreValues`, the refinement of `TemplateValues` |
| `CommandLine_proofs!ToolWritesLast` | `Spec => []WritesLast` |
| `CommandLine_proofs!StatusIsNeverFalse` | `Spec => []StatusIsTrue` |
| `CommandLine_proofs!CommandLineIsReadAsMeant` | `Spec => []ParsesExactly` |
| `ParsedData_proofs!ValuesAreTheTexts` | `JSONSpec => []ParsesToMeaning`, `JSONData` against `JSONReference` |
| `ParsedData_proofs!LimitsDecide` | `JSONSpec => []RejectsExactly` |
| `ParsedData_proofs!ExpansionStaysOnPath` | `Spec => []ActiveIsPath` of `YAMLData` |
| `ParsedData_proofs!ExpansionDecides` | `Spec => []AcceptsExactly`, `YAMLData` against `YAMLReference` |
| `ParsedData_proofs!AliasesAreExpanded` | `Spec => [](Reads(text.nodes) => BuildsExpansion)` |
| `NodeReader_proofs!ReadsStayInRange` | `ReaderSpec => []RangesNested` |
| `NodeReader_proofs!ReadsExactlyTheFormat` | `ReaderSpec => []ReadsExactly` |

They hold for every value of the constants that satisfies the named assumptions of the
modules. Limits, bounds and the sizes of delimiters are natural numbers, and the null pointer is neither a renderer nor
a thread. The tables of templates and data are what the C++ types make them: children are a
sequence of nodes or null pointers, texts are sequences, partials and parse results are nodes or
none. No assumption says that a tree is one, or that it is well formed: nodes may be shared or
contain themselves, which the engine stops by its limits. Nothing is assumed of callbacks, the
number of threads, or the graph in an archive. Three theorems about contexts have a hypothesis, for
what the code does not defend against. `Disciplined`: either no callback uses the raw `Renderer *` of the
legacy hook, or callbacks wait for the workers they hand something to. `Separate`: either callbacks wait for their
workers, or they use no raw pointer and no context but the one they were given. Both hold of every program that keeps
to the contract for lambdas (`src/README.md:407-419`: hand the active renderer or context to one
worker, and wait for it), and cover detached workers as far as the code does. Without them TLC finds each of the
three properties violated: a raw pointer in a detached worker outlives its render, and a callback that renders through
an enclosing context while its detached worker renders through its own shares the renderer with it.

*Renderer.* `control` is the C++ stack, and everything rests on its shape. `WellNested` says that
each pending guard finds directly below it the calls it is the guard of, that a pending `renderNode`
call carries as depth the number of calls below, and that a guard restores what those calls left
(`Fits`). `StackInv` then counts: contexts, indentation frames, redirections, buffers, scopes and
granted contexts are as many as the guards pending for them. None of the three properties is
inductive without it, because a guard that is run must find the state its own call left. Each
action replaces a call by plain calls, leaves guards behind, or runs one; there is a lemma for each of the three, for
unwinding, and for the engine's every action. The properties about sums over the stack are proved by
induction on its length.

*Each byte is paid once.* `LedgerInv` says that there is a running total over the live
buffers, defined buffer by buffer (`Totals`), that never exceeds what was charged, and equals it
as long as no callback has made a call of its own and nothing is thrown (`Paid`); and that every temporary buffer will be
dropped by a guard already pending (`Drops`). A result moves from one buffer to another when its own buffer has
ended, so it is never counted twice; an exception only drops buffers.

*Limits are hard.* `ChargeInv` adds to the property what the charges read: the settings of a
render are ones an application can pass, the visit counter is a number, and a result that
will be parsed is a text whose parse is known. The counters of nested renders, caught
exceptions and reparsed text are the same variables, so each action either charges under the
check of the limit or leaves them alone.

*Contexts.* `PromiseKept` is not inductive. What it rests on is proved first,
for a thread as a stack that a step pushes to, pops from or changes on top:
`CallbacksOwn` (two callback frames never share a context), `CallbacksNest` (frames below a
callback know only older contexts), `LocksExclusive` (one thread inside a context's lock) and
`HelpersGranted` (a context that is rendered through has not been revoked). The last one is
preserved by `Invalidate` only because of the first three: other threads would hold the
lock, and the thread's own frames are below the callback (`NobodyUses`). Each action then
maps to one action of `Capability` or to a stutter; entering again within one's own render
is a stutter.

*Registry.* `RegistryInv` adds that every callback frame's context names a live scope, which
with `CallbacksOwn` shows that destroying a scope never unlinks another callback's.
`Relinked` is the heart: taking any one scope out of an intact list leaves an intact list.

*Engines.* `EngineInv` ties frames, scopes, contexts and counters together: a callback sits directly on
the engine that called it, active contexts and scopes belong to callbacks that still run, and a renderer's
depth counts them. When `FinishRender` runs, none is left. While nested renders are all through contexts, that is
because the renderer's oldest callback sits on `render()` (`FinishingIsDeserted`); with raw pointers it needs the chain of the next paragraph. What the search of the registry
returns is a recursive function over the list; it is shown to exist and to be unique by
exhibiting "the newest scope of this renderer below here" as a solution, and by the least place where two solutions would differ.

*Waiting.* `WaitInv` says that a thread which waits for its worker is in the callback whose worker that is, and
that calls sit directly on user code. A thread that waits without calling through an outer context therefore waits in the callback
(or in the worker of the callback) whose context it wants (`WaiterInOwn`), and all locks it holds are of older contexts, since a lock
is taken above its callback only (`BelowIsOlder`). So whoever it waits for, if that thread waits too, waits in a newer
callback, or in the same one as its worker (`WaitsForYounger`); in a set of threads that all wait within the
set, the one in the newest would have nobody to wait for.

*Sharing.* Two arguments show that a renderer
is never shared. If callbacks wait for their workers, threads that work for one another are one stack in several pieces (`ChainInv`): each
has a root, the thread that began with `render()`, and a level, the number of handovers since; of the threads with one root
all but the last wait, only they know a context, and every frame of a renderer is above its `render()`. Whoever
touches the renderer is the last of that chain. If callbacks use their own contexts only, `OwnInv` says that the callbacks of
one renderer form a chain, each made by a render through the one before, possibly on another thread, and that whoever touches the renderer is
at the end of it; two at once would both be last.

*Tokenizer.* `TextInv` relates the scan's flags to the buffer: the indentation of a line that may yet
be standalone is the end of the text not yet flushed (`TextStaysBuffered`), or, when the line began in the blanks that end a
tag, all of that text. `TreeInv` gives the tree, a sequence in order of creation, levels such that a node's is
one more than its parent's; `ScanInv` adds that the open sections lie
one inside another and are as many as the level says, so the nesting limit bounds it. `PathLength`, a recursive
function, is shown to be the level at the least node where it would not be. A marker and the partial it belongs to are
appended by one action, and appending anything else ends with neither.

*Which templates are accepted.* `FollowsInv` says that wherever the scan stands, what it carries is what the positions of the
template give there (`Follows`). The pair of delimiters is the one in force; the line's start and flag tell
whether the line so far is blank (`LineKnown`); the buffer comes after the last tag and the last standalone line, and
all text before it is hidden or precedes a tag (`Flushed`). The stack names the
sections that counting brackets leaves open (`Brackets`): a closing tag ends the innermost one because that is where
openings and closings are first as many (`EndMeans`). The nodes are as many as the pieces that end before here (`Counted`), each tag
adding at most four; and every tag passed so far was fine and, unless its section is open, closed (`Passed`). A verdict is then
read off: at the end nothing is open exactly if the template is well formed (`PassedAll`) and the count is `Size`
(`CountedFits`); and a tag that is refused fails the check the reference makes of it, or brings the nodes to more than the limit
when the whole template has at least as many (`CountedTag`), so that no early refusal turns away a template that would fit.
`AcceptsExactly` holds across calls because a scan starts from the settings and from nothing the last one left.

*Which trees they become.* The reference gives every node a place by counting: a node begins at a site, a position and
a part (text, indentation, tag, rest of the line), and its index is the number of sites up to there (`Index`). `DrawnInv`
says that the buffer is the template's text since the last flush, that every site the scan has passed has its
node at its index (`DrawnTo`), and that the stack holds the indices of the open sections (`Stacks`), so that a node's
parent is the innermost section around it (`InnermostIs`). A step draws the sites of one position. What it takes
from the buffer is the text before the tag, less the blanks of a standalone line, which are the end of
the buffer (`SitesAt`, `LastText`); the indices of the new nodes follow those of all earlier sites without a gap (`TagRanks`).
Only one thing is written to a node after it was made: a section's length, when the
section is closed (`Wanted` is the node before and after), and the closing tag ends the section on top of the stack and no other (`EndIs`).
At the end no section is open, so the tree is the reference's (`FinishDraws`, `IsTreeOf`).
`LexemesAssumption` says that a tag has three mustaches or not, which the escaping of values is computed from.

*Archive walk.* `WalkInv` says that every visited node is contained in the graph, except
that its first child may be unchecked while it is the next thing to be looked at, and that
roots already walked are nodes. The walk is bounded because every node on it is visited and
none is entered twice, whatever the links are. When the walk ends with "valid" nothing is unchecked
and every node has been visited, so every index and slice a view reads lies inside the tables.

*Archive form.* That the walk accepts exactly forests is a matter of bookkeeping over references. `Met` are those the
walk has come across, the links of visited nodes and the roots it has entered; `Waiting` are the next siblings of the nodes it is
in; one more, `last`, is about to be followed. `FormInv` says that the rest lead to the visited nodes, one to each, or
nowhere (`OneToOne`), and that a set that links do not leave cannot have the roots without the visited nodes
(`ReachedOnly`). An accepted graph has no reference left, so each node has one; a node of a
well-formed graph cannot have been visited when its reference is followed, since that is the
only one; and a set of visited nodes with nothing left to follow is closed, hence everything. Per record, `RecordMeets` shows that
the code's checks are `ValidRecord`; names ascend by `LessTransitive`, though only neighbours are
compared.

*Archive limits.* `LimitInv` adds what the walk has counted. Whatever depths the links allow, a node on the walk is as deep as the
walk to it is long (`DepthsFit`), so the check of the walk's length is one of depth; `parts` is the number of pairs of a
visited node and a part of its name, which entering a node extends by new pairs only. That a well-formed
graph has depths at all is shown by a largest set of nodes whose depths are settled: as
long as it leaves a node out, a root or a link out of it leads to one, and that one's only reference settles its depth.
The check of the number of visited nodes never refuses a well-formed graph: the header has been checked for it, and a node not yet
visited is one more. These theorems are about `ValidatorSpec`, the walk over any graph whose header fits.

*Loading.* `ArchivesLoadExactly` puts frame, header and walk together. It is about `LoaderSpec`, in which any archive whatsoever may be
loaded at any time; its actions are those that `ArchivedTemplate`, which has recursive operators, composes with the writer. `VectorsFit` shows that the
checks of a vector's header, written so that nothing wraps, ask for no less and no more than that its table lies in the payload, and leave
nothing for Cista's own check to overflow on. `LoaderInv` says that as long as the walk goes on nothing is wrong outside of the graph,
and that every reason given is one that the archive has (`ReasonHolds`). `Depths`, a recursive function over a graph that
need not be a forest, is shown to be the depth by exhibiting the depth as a solution of its equation, and by `AllReached`: the nodes where another solution
agrees contain the roots and are closed under links.

*Handles.* `HandlesInv` says that every handle and every owner on the stack names a state that
exists, and that the state a call reads has an owner on the stack, at that call or below it.
The heap after each action is what is still owned, so the heart is `ReleaseIsInvisible`: taking
away what nobody owns changes neither what a handle holds nor what a call reads. Each action
then maps to one of `TemplateValues` or to a stutter, one lemma per way of changing handles,
heap and stack.

*Command line.* `RunInv` says for each stage of a run what has been read, rendered and written by then:
the files are untouched until the output is opened, the partials read so far are a part of those asked
for, every render so far gave the same, and on exit the status fits. `ParseInv` says what reading from left
to right has established: nothing before the next argument decides, and the options hold what the arguments before it
say (`ParsedUpTo`). Which arguments are values is a matter of parity in a row of options (`IsTaken`); `TakenInTurn`
turns it into a rule from one argument to the next, and `AcceptsWhatIsRight` shows that the code's checks of a value are
the reference's, both of its form and of what was given before.

*JSON.* `DocumentsAssumption` says what nlohmann's parser guarantees of the events it reports: they are those of
one value, containers end as they started, and in an object each value follows a name. Nothing bounds their number or
how deep they nest. `Standing` says what the handlers have made of the events before one: there is a chain of open
containers, each around the next (`Opened`), and the frame of each holds the meanings of the values it was given before
the next one began, with the name that waits (`FrameAt`); the value is there once all events are read. That this is
kept rests on two facts about places: what lies between the start and the end of a container lies in it or in a part of
it (`BetweenIsInside`), and nothing after the end does (`EndedForGood`). So the frame that ends holds all that is in it
(`EndedHolds`), and its value is the next one of the frame around it (`FrameFills`, over `ListedGrows` and `NamedGrows`,
the latter for `Data::set`, which replaces). The name that waits is used by the value that follows it and by nothing
in between (`KeyIsNamed`, `ValueIsNamed`), and the depth is the number of frames. The budget is the cost of the events
read so far (`CostGrows`), which never is more than the cost of all (`CostIsSome`): what is refused on the way would be
refused on the whole. `Around` and `Meanings` are recursive functions; that there are functions that solve their equations
is shown by a least counterexample (`AroundExists`, `MeaningsExist`).

*YAML.* `ExpansionInv` says that the path from the root lists different nodes, that `active` is the
set of them, with as many elements as the path is long, and that an expansion under way is
within its limits. The count matters: `ActiveYAMLNode` refuses a node that is in the set.

*What YAML builds.* A node has a level in the expansion when all it is made of has the level below (`Expanding`). A node
that leads back to itself never has one, so a document expands within the nesting limit exactly when its root has the level of that
limit: the reference needs no search for cycles. A `Way` is a row of stops from the root down, each with the items that
are done and what the build has spent before it; its levels fall by one at each stop (`WayDescends`), so no node is on it twice
(`WayIsApart`), and what it has spent is part of the root's charge (`WayFits`). `CallsStand` says that the pending calls of
`createFromNode` are a way, each holding its first items (`Composed`), and `BuildInv` that this is so while a document is built.
Failing then is never wrong: on a text that expands within the limits each check passes. Finishing is not either: the items of a
node that is left all have the level below.

*What the preflight sees.* `TextsAssumption` says what libyaml guarantees: the events of a document that it composes are those of the
graph's first node, part by part (`EventFits`), an alias being an edge to some node. The preflight knows an alias only as one
value, and it charges an entry when it meets it, while the build charges a container's entries when it begins. `OpenOnWay`
ties the containers that are open to a way through the graph, and `Owes` says that what the preflight has spent, with the
entries that are still to come in the open containers, is at most what the build will have spent at the same place. That
is within the root's charge, so the preflight rejects nothing that the build would accept (`PreflightInv`).

`AliasesAreExpanded` has the hypothesis `Reads`: each scalar of the document resolves to what the grammar says. That it does
is a matter of characters, which the run checks for every short spelling; `AcceptsExactly` needs no such hypothesis.

*Reader.* `ReaderInv` says that the ranges of the nodes being read are nested and that the
position lies in the innermost one. The theorems are about `ReaderSpec`, the reader alone with any set of
serials, because `NodeCodec`, which composes it with the writer, has recursive operators.
`NodeCodec` checks the same properties.

*What is read.* `WellFormed` says of each record in whose ranges it lies, and never of an order in which
anything is read. `Walked` tells the reader's way through the records in the same terms: which are open, which of their
children were read, and what holds of a record once it has been entered (`ReadRecord`) and once it has been left
(`ClosedRecord`). A record left ends before the next one begins, so the ranges around the next record are those of open
ones (`NextIsChild`), its depth is their number, and the children read of an open record are in order
and next to each other, which the check of indentations, one of positions in memory, needs. `ExactInv` says that the
frames show the walk (`Follows`), or that the reader was led into the middle of a record by a header without a size for the data that
follows (`Lost`), and can only fail. Accepting: `WalkEnds` reads `WellFormed` off a walk with
nothing left open. Refusing: `NextReadable` and `ValidTreeFinishes` show that on well-formed bytes each check of the code
passes, that of the children's count against their size included, since children announced there begin apart by a header at least.
`SerialsAssumption` says what the serials stand for: records begin in the bytes there are,
and the last one may be cut off only within a string that its header announces. That no bytes between two records look like a header is part
of the model.

*Only model-checked*: liveness (`RenderTerminates`, `EveryThreadFinishes`), which needs
fairness; the properties of `RenderReference`, the resolution of a YAML scalar (`Reads`), `WritesExactly` and `RoundTrips` of `NodeCodec`, and `KeepsTemplate`
of `ArchivedTemplate`, which compare a run with recursive operators or folds over characters, out of the provers' reach. Induction over data is used above where a claim can be put as a set of
numbers with a least counterexample, which a recursive operator does not allow.

## 6. What is not modelled, and why

- Exceptions of a partial resolver and of memory allocation; callbacks that mutate the tree,
  the data or the caller's string through pointers of their own. They are the application's
  contract, and the guards they would pass through are those modelled for other exceptions.
- `_strictPaths`: nothing sets it, its branch is dead.
- Characters within a lexeme, and line and column numbers of errors; which part of a text
  `escapeOutput` escapes; the spelling of JSON floats. They are functions of one string
  without state. In YAML scalars, the case of words and letters and doubles out of range.
- In the archive: how checksum, fingerprint and type version are computed (each fits or does
  not); the graph in a frame whose vectors have been moved inside it; nodes of type
  `Container` and unusual flag values of the writer's input; the benchmark modes. The layout is
  that of 64-bit builds, while sizes and counts have one width as in 32-bit builds, so that
  products can wrap around.
- `Node`: moves, `discardSource`, and the limits of the public reconstruction functions.
- Handles: a `PartialMap` that is destroyed during the render it was passed to, which the
  application must not do; overloads that only fill in defaults are one action. Several
  threads with one handle: the state is immutable and the reference count is the library's.
- Command line: how options and values are spelled, and the wording of messages.
- `Data` beyond what rendering and parsing use, the facade, string utilities, build files and
  vendored code: no state or protocol of their own.

The setters of `Renderer` share one rejection action: each throws first if a render is in
progress, and assigns one field otherwise.

## 7. Plan

Done, in this order: the renderer and its reference; contexts, locks and the registry; the
tokenizer; the parsers of data; the node format; the archive; template handles; the command
line; the resolution of scalars; the frame of an archive; proofs for every safety property of the
renderer, of contexts and threads, of the tokenizer, of the handles, of the command line and of the builders of JSON and YAML,
and for the reader; and that exactly the templates that are well formed and within limits are accepted and become the trees they stand for,
exactly the archives that are framed, current, well-formed and within limits are loaded, and exactly the serial data that
encodes a valid tree is read.

Left:

1. `Node` moves and `discardSource` beside a lambda that uses section sources.
2. One engine run over archive views with an archive's partials, compared with the run over
   the owned tree. The two views share the engine's code; `KeepsTemplate` compares what they show.
3. Proofs: what a template renders to, and what the writer of the legacy format writes, against references without recursive operators.
