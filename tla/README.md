# TLA+ verification of luau-deobf-engine

luau-deobf-engine (v6.1.0, TypeScript) recovers readable Luau from obfuscated Roblox scripts.
A command line or a bot hands it a text or a link; it detects the obfuscator, runs several
deobfuscation engines on the text, scores their outputs, cleans the best one in passes, and
follows the links in what it recovered to the next script. This directory models the parts of it
where control is hard to get right, checks them with TLC and proves what matters most with TLAPS.

Paths below are relative to the repository's `src/` directory.

## 1. Inventory

### Parts that keep state

| part | state | operations | what is hard | what makes it correct |
|---|---|---|---|---|
| loader-chain resolver, `chain.ts` | steps, reports and inputs of the hops; seen links and text hashes; stack of pools; dead-hop count; pending payload | one hop: fetch, look at the text, deobfuscate, unwrap an embedded payload, follow or backtrack | cyclic graphs of links, spellings of one link, three places that mark a link as seen, limits met halfway | a depth-first crawl that tries no link and runs no text twice, follows only links it has found, and ends |
| orchestrator, `deobfuscators/orchestrator.ts` | candidates, best result, report; report cache shared by all runs | detect, launch engines in parallel or in sequence, time out, refine, select, clean, deep rounds, store | answers after the timeout, any combination of failures, runs that interleave over the cache, outputs replaced after they were scored | a valid output is preferred, a report describes the output it carries, every run returns although engines wait for ever |
| multi-pass cleanup, `deobfuscators/multipass.ts` | current text, best result, round | ten rewriting steps, each with its own acceptance test; accept, reject or keep a round | steps that undo each other, truncate or unbalance the text, early exits | balance is kept, the best only improves, confidence stays honest, the rounds end |
| report cache, `utils/cache.ts` | map in order of use, byte count | get, set, clear | byte accounting over overwriting and eviction | returns what was stored last, evicts the least recently used and no more than needed |
| rate limiter, `utils/rate-limit.ts` | window start and count per user, options | check, configure, prune | window edges, options that change, pruning | a bounded number of requests in any span, waits that are long enough |
| fetcher, `utils/fetcher.ts` | abort timer, reader, byte count | request, headers, chunks, end | servers that lie about the length, stall, or break off | the cap holds, every call ends with its timer cleared |
| dynamic Luraph decode, `deobfuscators/luraph-vm-decode.ts`, with the sandbox `vm/luau-sandbox.ts` | snapshots, complete dumps, trace buffer and chunks, clock budget | hooks called by the running guest, then ranking of what they took | nested interpreters sharing one trace, caps, a budget that only a hook can enforce | the trace read back is what was executed, each program is dumped once, the most complete snapshot is kept |
| Luraph listing, `vm/luraph-lifter.ts`, `luraph-structure.ts`, `luraph-finalize.ts` | intermediate form, scratch variables, trace of jumps, table of constants | lift, correct by the trace, seven passes in rounds, print | jumps guessed and then corrected, passes that look at the order of the text and not of execution, rounds over values that have just changed | the listing makes the calls of the program, in its order and with its values |
| Ironveil decoder, `deobfuscators/ironveil.ts` | cipher state of a function, salts seen so far, decoded tree | order the fragments, decrypt, decompress, check, read values, decode operators and tags, retry, prune, print | a keystream that depends on every tag before it, three salt lists told apart by one set, a second try with operators exchanged, brackets by precedence alone | the source printed for a build reads as the program that was hidden in it |
| Luraph engines, `deobfuscators/luraph.ts`, `luraph-vm.ts` | stage results | a fixed list of stages over texts around the dynamic decode and the lifter | which partial result wins | not modelled (6) |

### Algorithms over texts and trees

| part | files | what is hard | correctness |
|---|---|---|---|
| output scoring | `utils/quality.ts`, `utils/dispatcher-metrics.ts` | weights that almost add up to one | syntax weighs most; scores stay in range |
| static syntax check | `utils/validate.ts` | two stacks, recovery after an error | accepts exactly what nests |
| dispatcher recovery | `passes/state-dispatch-flattener.ts`, `function-level-vm.ts`, `binary-tree-dispatch.ts`, `control-flow.ts` | transitions that are not understood, cycles, ranges | the rewritten program runs the same bodies in the same order; collecting states ends |
| constant folding | `utils/const-eval.ts`, `passes/constant-fold.ts` | eleven rewrites in rounds that look at neighbouring tokens; host arithmetic at the edges | an expression keeps its value, a call its answer, a program its statements; folding again changes nothing |
| static resolution | `passes/static-resolve.ts`, `advanced-cleanup.ts`, `semantic-identifiers.ts`, `alias-propagation.ts` | values read at a declaration that are written, aliased or shadowed later | a program prints the same after each pass |
| text tools | `utils/lua-utils.ts` | literals respelled with the fewest characters; renaming and laying out without parsing | the tokens are those of Lua, literals keep their value, names their declaration, lines the indent of their block |
| Luraph dispatch analysis | `vm/luraph-dispatch.ts`, `luraph-lifter-v2.ts`, `static-opcode-lifter.ts` | ranges carried through nested tests, later walks overwriting earlier ones | the handler of an opcode is the code the interpreter runs for it |
| symbolic execution, control-flow graphs | `vm/symbolic-exec.ts`, `passes/cfg-structurer.ts`, `vm/abstract-interpreter.ts`, `vm/dispatcher-graph.ts`, `deobfuscators/orchestrator-v2.ts` | | not modelled (6) |
| lifetimes, call reconstruction | `passes/lifetime-analysis.ts`, `call-reconstruct.ts`, `luast-analysis.ts` | | not modelled (6) |
| other payload decoders | `deobfuscators/tagtable.ts`, `wearedevs.ts`, `heavyweightfishing.ts`, `astrotect.ts`, `qmarker-vm.ts`, `xorstrings.ts` | | not modelled (6) |
| pattern engines | `deobfuscators/{moonsec,moonveil,ironbrew,prometheus,psusecure,hercules,luaobfuscator-chaotic,luast,modern-vm,generic}.ts` | | to the orchestrator each is an engine that answers, fails or stalls |
| detector | `detectors/detector.ts`, `utils/roblox-detector.ts`, `error-types.ts` | | not modelled (6) |
| entry points | `cli.ts`, `types.ts`, `optional.d.ts` | | not modelled (6) |

### How they interact

`cli.ts` calls `runDeobfChain`, or `runDeobfuscation` when no chain is asked for. Each hop of the
chain calls the fetcher for a text, the detector for its family and `runDeobfuscation` for its
report; the report's output and the text itself are searched for links. `runDeobfuscation` looks
up and fills the report cache, calls `detect` and `deobfuscate` of the engines (promises that
race with timers), scores outputs with `quality.ts` and `validate.ts`, and calls `runMultiPass`
on up to four candidates and on the winner. `runMultiPass` calls the passes and the generic
engine. The Luraph engines call the dynamic decode, which hands the loader to the sandbox, which
calls back into the host.

Everything runs on one JavaScript thread. Interleaving therefore happens only where the code
awaits: between the engines of one run, between runs that share a cache, between a body's chunks
and the abort timer. A guest in the sandbox holds the thread, so that while it runs only the
hooks it calls itself are executed.

## 2. Modules

| module | models | built on |
|---|---|---|
| LinkCrawl | what a chain run promises: a crawl over links | |
| ChainRunner | `chain.ts`; implements LinkCrawl | LinkCrawl |
| ChainRunnerProofs | the safety properties of ChainRunner, and that it implements LinkCrawl | ChainRunner |
| Ordering | minimum, maximum, the stable sort of an array | |
| Orchestrator, OrchestratorProofs | `orchestrator.ts`, any number of runs over one cache | Ordering |
| MultiPass | `multipass.ts` | Ordering |
| Quality | `quality.ts`: the weights and the comparison | Ordering |
| OutputProofs | what the score, the cleanup, the syntax check and the beautifier guarantee | Quality, MultiPass, Validate, Beautify |
| Validate | `validate.ts`: the checker against a grammar | |
| ReportCache, ReportCacheProofs | `cache.ts` | |
| RateLimiter | `rate-limit.ts` | |
| Fetcher | `fetcher.ts` | |
| LimitProofs | the bounds of the limiter and of the fetcher | RateLimiter, Fetcher |
| DynamicDecode, DynamicDecodeProofs | `runDynamicDecode` and the hooks it injects | Ordering |
| StateFlattener | `state-dispatch-flattener.ts` against an interpreter of the loop | |
| FunctionLevelVm | `function-level-vm.ts` against the same | |
| BinaryTreeDispatch | `binary-tree-dispatch.ts` against the tree as the script runs it | Ordering |
| ControlFlow | `control-flow.ts` against the loop as the script runs it | |
| DispatcherProofs | that the flat, the inlined and the straight code follow the loop, and that the ranges of a tree and the handlers of an interpreter are exact | StateFlattener, FunctionLevelVm, BinaryTreeDispatch, ControlFlow, LuraphDispatch |
| Lemmas | least elements, induction and recursion up to a number, sorted and joined sequences: what several proofs cite | Ordering |
| LuraphIR | the intermediate form, and a machine that runs it | |
| LuraphLifter | `luraph-lifter.ts`, and the interpreter it lifts from | LuraphIR |
| LuraphStructure | the passes of `luraph-structure.ts` and `luraph-finalize.ts` | LuraphIR |
| LuraphDecompile | `structureProgram` from the run in the sandbox to the listing at work | LuraphLifter, LuraphStructure |
| LuraphDispatch | `parseDispatchTree` of `luraph-dispatch.ts` against the interpreter it reads | |
| ConstEval | what Lua makes of an expression, and the evaluator of `const-eval.ts` | |
| ConstantFold | the rounds of `constant-fold.ts` over one expression | ConstEval |
| LiteralCalls | its calls of library functions with literal arguments, and the methods of `const-eval.ts` | |
| DeadCode | its dead branches | |
| StaticResolve | `static-resolve.ts` and the passes over locals and aliases, in the order of a cleanup round | |
| Lexer | the tokenizer and the literals of `lua-utils.ts`, against how Lua reads a text | |
| Rename | the two renamings of `lua-utils.ts` | |
| Beautify | `beautifyLua` of `lua-utils.ts` | |
| IronveilOpcodes | a build of Ironveil: payload, values, operators and tags under the cipher | |
| IronveilCodegen | the printer, and how Lua reads the tokens it prints | IronveilOpcodes |
| Ironveil | the pipeline, against the program that was hidden | IronveilCodegen |
| MCChainRunner, MCOrchestrator, MCOutputChecks, MCUtilities, MCDispatchers, MCLuraph | the instances for TLC | the above |
| MCBuilds | the builds that MCDispatchers decodes | |

How they correspond to the code:

- **ChainRunner.** One action per way through the body of the loop of `runDeobfChain`, split
  where the code awaits: taking the pending payload or fetching (with every failure),
  recognising repetitions and texts that are not Lua, deobfuscating, unwrapping an embedded
  payload, recording the step and choosing where to go next. `steps`, `reports`, `inputs`,
  `seenUrls`, `seenHashes`, `poolStack`, `finalIndex`, `deadHops` are the variables of the code.
  A link has a name and a spelling, and `urlKey` forgets the spelling; a text is a model value
  whose links, payloads and possible reports are constants. `extractScriptUrls` keeps the best
  usage of a link and orders by `usageScore`, as the code does. `ran` is a history variable.
- **LinkCrawl** knows only which links are tried, which texts were taken, and that a crawl may be
  cut short. `Crawl == INSTANCE LinkCrawl WITH ...` in ChainRunner gives the mapping.
- **Orchestrator.** Per run: cache lookup, `detect`, launching all engines or one at a time, each
  promise (`Return`, `Fail`, `Timeout`, `LateReturn` of an engine that has been given up),
  `Collect`, `Refine` of the first candidates, `Select` with the fallback to a valid candidate,
  `Cleanup`, `DeepRound`, and `Finish`, which scores what is returned and stores it. What an
  engine answers and what a cleanup makes of an output are constants; scores are numbers. An engine
  may also keep the one thread and never hand it back (`Hang`): from then on nothing steps and no
  timer fires (`free`).
- **MultiPass.** One action per step of a round, in the order of the code, each with its own
  acceptance test (`accepted`, `tolerance`); then the ways a round ends. What a step makes of
  the text is arbitrary.
- **Quality.** `scoreLuaSource` and `scoreOutputDetailed` in hundredths, with the code's weights,
  caps and thresholds. A text is a record of the counts that the code takes of it.
- **Validate.** One action per branch of the loop over tokens: brackets, block openers, `end`,
  `until`, strings. `NestedBrackets` and `NestedBlocks` are the reference: which stretches of the
  source nest, by recursion over their first position and not with a stack.
- **ReportCache, RateLimiter, Fetcher.** One action per operation; time is a counter. `inserted`,
  `uses`, `lastUse`, `written`, `allowedAt`, `retryAt` are history variables.
- **DynamicDecode.** The guest decodes programs, calls methods (`CallMethod`: the scanner that
  takes snapshots) or dispatches (`Dispatch`: the injected `__VMSTEP`), computes, prints, waits
  and ends, with an error or without. `Return` is the code after `runChunk`.
- **StateFlattener, FunctionLevelVm.** First the pass at work (its queue, or its recursion as a
  stack), then the program running in the original and in the rewritten form, step by step.
  A program is a comparison tree or a table of states, bodies with their transitions, a
  normaliser and an initial state.

- **BinaryTreeDispatch.** `resolveRange` carries the ends of a range down the tree (`splitRange`, with
  the code's treatment of each operator), `sorted` orders the leaves, and the chain is executed
  against the tree for every value. A pass takes the next candidate until none stands.
- **ControlFlow.** `eligible` is the conjunction of the tests that `tryUnrollDispatcher` makes, in
  the walk each of them is made; the walk gives up after 500 branches, as the code's guard does.
  `Splice` is the straight code, unless the bodies it would consist of are all empty, when the code
  leaves the loop alone. The loop runs beside it.
- **LuraphDispatch.** `parseDispatchTree` walks the `if` statements of an interpreter with the range
  of opcodes that is left; the text at a leaf becomes the handler of the range. The interpreter
  (`runs`) executes the same statements for every opcode. A block whose first token is not `if` is
  a leaf, whatever follows, loops and all.
- **LuraphIR, LuraphLifter.** A symbolic expression is a record, a statement another, an
  instruction `[vip, stmt, jumpTo, condJump]`. Rules are known by name (`direct`, `scratchOps`,
  `jumpCond`): matching a handler's text to its rule is not modelled, and a rule stands under
  the text of the handler, so the interpreter executes the same table. What the two do apart is
  what is compared: the lifter resolves scratch variables in the order of the text, guesses
  targets (`staticTarget`), knows nothing of handlers without a rule, and corrects targets by the
  trace (`jumpsOf`, `observed`, `patched`): by the first segment of it that has as many
  instructions as the program (`traceOf`).
- **LuraphStructure, LuraphDecompile.** `Segments` are the traces that `Lift` may find: the program's
  own stretch may be whole, cut off by a program that is run in its midst or by the caps, or run on into
  a second call of the same program, and another program's segment, of the same length or not, may
  come before it. Each pass is an operator for one of its rounds; `Round`
  applies it while it changes something and the code's limit of rounds is not met. The printed
  listing keeps what `structureAndEmit` keeps; `danglingGotos` are the jumps to a label that is
  not printed. `Execute` runs the listing as Lua would. In half the behaviours the passes are
  left out (`structured`), so that the lifter is judged on its own.

- **ConstEval, ConstantFold.** A writer puts an expression together piece by piece; the passes
  then rewrite its tokens, each in one scan whose edits do not overlap, in the order and the number
  of rounds of `foldConstants`. `KeepsMeaning` compares with Lua's grammar and arithmetic.
- **LiteralCalls.** A call is folded as `foldStringLibrary`, `foldGlobalCalls` and the methods do
  it, with the host's conversions written out; bytes are numbers and `bit32` has `Width` bits.
- **DeadCode, StaticResolve.** A writer nests statements. Each sweep of `foldDeadCode` cuts at the
  keywords it counts; each pass of the resolution rewrites every statement. `Meaning` runs the
  program before and after.
- **Lexer.** `nextToken` follows the branches of the tokenizer byte by byte; `reading` is Lua, which
  knows only which texts are tokens and takes the longest. Table entries are what the decoder's
  regular expression finds in the text, not what the tokenizer sees.
- **Rename.** A program carries how Lua resolves its names (`bindings`); the renamings see tokens.
  They are applied `Rounds` times: by an engine and by the cleanup in turn, each keeping what it
  made or not.
- **Beautify.** One action per way through the loop over tokens (`PrintComment`, `PrintToken`, and
  `Finish` for the last line); `printer` holds the locals of the function. A token carries how deep
  the program nests there (`depth`) and whether it belongs to an if-expression (`ifExpr`), which the
  code never sees and the property compares with; `BeautifyAssumption` says how the two follow from the
  text, and what the grammar has side by side. It also carries how many line breaks follow one another
  in its text (`newlines`): `Finish` collapses more than two of them in the joined text, and as no line
  is empty they stand inside a token. A printed word carries the number of its token (`at`). `MAX_INDENT` is
  the code's cap of 100. Left out are the fallback for outputs of more than 100 MB (706-711) and the
  trimming of lines (485) and of the whole text (714), which reaches no token but the blanks at the end of a comment.
- **Ironveil.** `Obfuscate` is the obfuscator's direction, as far as the decoder inverts it; the actions
  are the steps of `runIronveilPipeline` with the ways out each of them has. `Reading` parses what
  was printed.

Definitions whose name ends in `Fault` (or `Fault` and a word) stand before the definition of the
same name without it and are that definition with a plausible slip. Nothing refers to them; each
is there to show which property would notice.

## 3. Runs

| run | question | bounds |
|---|---|---|
| chain | Is the walk a depth-first crawl without repetition that ends, and implements LinkCrawl? | links a to d, one in two spellings; five texts: a hub, a loader with a payload, the payload, a page, an empty answer; depth 2; two dead hops |
| orchestrator | Does each run return, with a report of its own output, a valid one if there is one, as long as no engine keeps the thread? | one run of three engines in four option sets; two runs over a one-entry cache |
| output_checks | What can outrank a valid output? Does the syntax check accept just what nests? Do cleaning rounds keep balance, improve and end? Do literals keep their value, names their declaration and beautified programs their tokens and nesting? | pairs of 512 profiles; sources of up to five of thirteen tokens; six texts, maxPasses 0, 3, 20, confidences 50, 98, 100; 14 000 texts of up to four pieces; 15 000 programs of three statements, renamed in two rounds; 6 000 programs of two statements, laid out with a cap of two indents |
| output_checks_broken | Can a broken output outrank a valid one? | the same |
| utilities | Do the cache, the limiter and the fetcher keep their bounds? Does what the text passes leave mean what it meant? | two entries, three bytes; two users, six instants; a cap of four bytes; expressions of five pieces; calls of three arguments over words of four bits; nests of four statements; programs of four statements in eight families |
| propagation | Is a local replaced by its value only if that is a literal? | locals whose value begins with a literal |
| dispatchers | Do the flattened, the inlined and the unrolled loop follow the original? Are the ranges of a search tree and the handlers of an interpreter exact? Is the program of a build recovered? | two trees, six kinds of bodies, four normalisers, four states; eight kinds of bodies over four states; trees of four to eight comparisons; three branches of nine kinds; 8 400 interpreters of ten opcodes; 60 builds of 38 programs |
| dispatchers_equivalent | Does every flattened loop follow its original? | the same |
| dispatchers_chain | Does the chain made of a search tree choose the leaf the tree chooses? | the same |
| luraph | Are the trace and the dumps that leave the sandbox those of the run? Does what the lifter makes of a program behave as the program? Does its listing? | two programs, caps of three snapshots, five chunks; programs of up to nine instructions with three free places: twelve kinds of jumps, eight of scratch steps, sixteen of data steps, fourteen of table steps; two inputs; twelve steps; every beginning of a run's trace, one that runs on, and a segment of another program of the same or another length before it |
| luraph_control_flow | Does every listing keep the control flow? | the same |
| dynamic_decode_budget | Is a guest unwound when its budget is spent? | the same, the sandbox alone |

Configurations are named after the module (`MCLuraph.cfg` for the run luraph); those of the runs
that expect a violation add what they ask (`MCUtilitiesSums`, `MCLuraphBudget`,
`MCLuraphControlFlow`, `MCDispatchersEquivalent`, `MCDispatchersChain`, `MCOutputChecksBroken`).

Modules that share nothing are run together where one question covers them (MCUtilities,
MCDispatchers, MCOutputChecks, MCLuraph): a behaviour is one of them at work while the others
have ended.

Why these bounds are enough:

- chain: the four links and three texts with links form a cycle, a diamond and a pair of
  spellings; with depth 2 a walk descends twice, meets the limit, backtracks over a pool with
  links left and over one without; two dead hops are one more than the least at which counting
  can go wrong.
- orchestrator: with three engines one may be late, one fail and one answer; outputs cover
  valid and broken above and below each other in score, a converged one and one that is too long
  for a deep round. A cache of one entry makes each store evict the other run's report. `rounds`
  caps deep rounds at four, and option 5 exceeds it.
- output_checks, cleanup: 20 exceeds the cap of twelve rounds and 0 is below the least of one; each text
  differs from another in exactly one of score, balance, length and tail, so that every
  acceptance test can go either way.
- output_checks: the profiles stand on both sides of each threshold of the code; five tokens hold
  two crossed pairs and one more token.
- utilities: an entry larger than the cache, an entry that needs both others to go, bursts 0, 1
  and 2 with both cooldowns, lengths below and above the cap and a server that announces nothing.
- luraph, the sandbox: the two programs begin alike, so that one snapshot may be the beginning of the
  other's; a buffer of two and a trace of five chunks overflow within five dispatches.
- dispatchers: one tree has a gap and a `~=`, the other is ordered; every normaliser occurs, and
  each limit on states is one less than what the largest program needs. Search trees have leaves on
  both sides of every comparison, nested twice; the unroller meets loops that end, that do not,
  that name a state twice or none.
- luraph: each condition of `liftable` and `plain` (what the passes take for granted) was left
  out in turn, and `ListingFollowsProgram` then fails on these programs; programs that meet all
  of them exist with conditional jumps, tables of constants, junk and chains of copies. Twelve
  steps pass every loop at least once.

- utilities, texts: expressions of five pieces hold two operators of different binding under a sign
  or in brackets, which is what a scan of neighbouring tokens can get wrong; an argument is a
  literal of every type, at and beyond the edges of its range, a half literal or none; four
  statements are two blocks, one in the other, or a declaration, a write, an alias and a read.
- output_checks, texts and names: pieces are the quotes, escapes, brackets and line ends in every
  order that a literal of the code's interest can have; programs declare, use, shadow and mix with
  fields and strings one name of every class. Two statements, one in the other or in a row, with comments,
  signs, calls, tables and if-expressions in them, nest to a depth of four; `MAX_INDENT` is 2, so that
  the cap is met; long strings and a comment have two, three and four line breaks in a row. Each exception in `runTogether` and each condition of `understood` was left out in turn,
  and `BeautifyKeepsProgram` then fails.
- dispatchers, interpreters and builds: trees have three tests of every kind in both
  polarities, nested in both arms; builds hide every node, operator and value, shuffled, compressed,
  retried and with dead branches, two programs in all ways and all programs in one. Fields, calls and
  methods have names, fields, calls and mini-expressions for a base, and operations, strings, numbers, tables and
  functions, of which `plainProgram` leaves out just those that are read as another program.

`MaxUses`, `MaxTime`, `MaxSteps`, `MaxVmSteps`, `MaxSent`, `MaxTokens`, `MaxPieces`, `MaxNest`,
`MaxStatements`, `MaxCodes` and `Rounds` bound counters and sizes for model checking; `maxPasses` of ConstantFold,
`maxSweeps`, `minEntries`, `maxLeaves`, `maxShuffled`, the caps and every other bound stand for
limits of the code, smaller where theirs is out of reach.

Deadlock is checked except in the runs over MCOutputChecks, where a behaviour is a single
judgement and has an end.

### What the runs found

Six statements of the repository do not hold of its code; each has a run that shows it.

1. `utils/quality.ts:136` says that a broken output can never outrank a valid one. One syntax
   error costs 0.20, other measures up to 0.60 (`BrokenNeverOutranks`). What does hold is
   `BrokenMustEarnIt`: it must beat the valid one on at least two other measures, three if it has
   three errors or more.
2. `passes/state-dispatch-flattener.ts:14` says the rewritten dispatcher is equivalent. States
   reached by a transition that the pass does not understand have no arm (`FlatEquivalent`). What
   holds is `FollowsOriginal`: equivalence as long as every transition so far was understood.
3. `deobfuscators/luraph-vm-decode.ts:367` says the wall-clock guard unwinds the guest. The clock
   is read only when a table is dumped, so a guest that loops runs on (`BudgetUnwinds`).
4. `passes/binary-tree-dispatch.ts:182` sorts the leaves "to build the if/elseif chain". Each arm
   after the first tests its lower end alone and the arms ascend, so the second arm takes every
   value the first does not, and the rest of the tree is dead (`ChainEquivalent`). What holds is
   `RangesExact`: the ranges themselves are right.
5. `vm/luraph-structure.ts:828` says that the output must preserve control flow. A bare jump that
   no other jump leads to is dropped, although execution falls into it
   (`luraph-finalize.ts:111-130`), so forward jumps vanish (`ControlFlowPreserved`). What holds is
   `ListingFollowsProgram`, for the programs described by `plain`.

6. `passes/advanced-cleanup.ts:14` says that only locals initialized with a scalar literal are
   inlined. The code looks at the one token after the `=`, so that `local x = 1 + y` counts as 1
   (`LookupsKeepMeaning`). What holds is `TablesKeepMeaning`, for programs that are `immutable`:
   whose tables, locals and aliases are what the passes take them for.

Seen on the way, and modelled as the code has it, without a run of their own:
`chain.ts:312` calls the final step the deepest, it is the heaviest (651); `orchestrator.ts:43`
documents `acceptThreshold`, nothing reads it; `multipass.ts:35` says that only objectively better
texts are kept, yet a round without progress may be kept for its rewriting (250), in place of a
better best; the early exit at 0.985 (`multipass.ts:70`) is dead, no score exceeds 0.90 (proved);
`validate.ts:147` closes a `repeat` by `end`; with `burst` 0 the limiter still lets the first
request through (`rate-limit.ts:46`); `function-level-vm.ts:14` says ambiguous transitions are
left untouched, while the last assignment of a body is taken (298); `control-flow.ts:24` calls the
straight code provably equivalent, while branches may test another variable (185) and bodies may
leave the loop in their middle. In the Luraph listing: a register that is read once, by a call, loses its
definition (`luraph-structure.ts:385`); arguments of calls and conditions are not counted as reads;
a round of scratch propagation uses the values at its start, so that a chain of copies loses its
source (534); a jump to a statement that was emptied, to a `NOP` or to the first instruction
has no label, and Lua refuses the listing; a table made once is made anew at each reader
(`luraph-finalize.ts:155`); a jump out of the program becomes a comment and the listing goes on. The
lifter is told of a program's jumps by the first segment of the trace that has as many instructions
(`luraph-vm-decode.ts:187`), not by its own: where that segment is another program's, or holds a second
call of the program, whose beginning looks like a jump to the first instruction, right targets are overridden.
The property holds for lifting where every jump in the segment is one of the program, and every jump it took whose
operand the lifter misreads is in it (`wellTold`); a beginning of the program's own trace meets the first of
these always. The code also skips programs of fewer than eight instructions (184), to which length the programs of the run
are not bound.

The properties of the text passes hold under a condition that says what each pass takes for
granted (`plain`, `plainCall`, `plainBlocks`, `immutable`, `plainProgram`, `spellable`, `numbered`,
`mixed`, `searchTree`, `consecutive`, `understood`); each conjunct of them stands for something the code does differently from
Lua:

- *Folding* (`constant-fold.ts`, `const-eval.ts`): chained comparisons; a power or a method behind
  a bracket that was folded; signs and logic next to unknown names; tables nested deeper than the rounds.
  Of calls: byte 0 and negative indices, indices and bases that are no literal are ignored,
  `upper` and `lower` know Unicode, `format` forgets widths, shifts by the width or less than 0 and
  of signed words, `tonumber` stops at a bad digit, `tostring` of a huge number is "nil",
  patterns of `find` are plain texts. Of branches: the `else` of an `if` that never runs is dropped
  with it; a `return` in the middle of an unwrapped body.
- *Resolution* (`static-resolve.ts` and its neighbours): accessors that subtract; stores are not
  looked for, and their targets become literals; aliases may be reassigned; a cache takes the
  last store in the text; the slots of all outer keys share one map; `for ... do` leaks a block;
  `local a, b = 1, 2` gives b the value 1; the XOR decoder takes the first literal of a
  concatenation. `propagateAliases` counts each `local n =` twice (`alias-propagation.ts:16`), so
  that `writes === 1` never holds and the pass rewrites nothing.
- *Literals* (`lua-utils.ts`): a byte is spelled with the fewest digits, so `"\001" "5"` becomes
  `\15`, though the comment at 1150 promises the exact value; one-digit `\x`, long `\u{...}`; a
  raw newline is accepted in quotes, comments end at LF alone, CRLF stays in long strings; `//=`
  and `->` are cut in two; `decodeLuaEscapes` differs from the lexer.
- *Layout* (`lua-utils.ts`): the beautifier "preserves all tokens exactly" (15), yet the joined text is
  searched for three line breaks or more, which become two (714), inside long strings too: a string of
  the program changes its value. The property has it so, and no other token changes.
  "It never breaks syntax" (453), yet `1 .. x` is printed `1..x`, which Lua
  refuses, and `a .. ...`, `a .. .5`, `t[ [[s]] ]` and `5. and` lose their blanks too (639-643). The
  arms of an if-expression "must not change the indent balance at all" (469), yet those of an
  if-expression with `elseif`, or with another one in it, do; only signs of two characters are operators to
  the lexer, so that an `if` after `+` or `<` is taken for a statement, and one after `...` or `::` for an
  expression. A comment on a line of its own has the indent
  of the line before it.
- *Names* (`lua-utils.ts`): `renameObfuscatedIdentifiers` does not look whether `var1` is free and
  renames globals and fields too; the last check of `renameCrypticLocals` can refuse nothing,
  so a short local's name also changes where it is a global or a key; names in strings stay;
  the names it gives (`fn1`) are themselves short and change again in the next round.
- *Ironveil*: `saltsValid` rejects nothing, so the search over permutations that
  `ironveil.ts:20` promises never runs; one set serves three lists of salts; unary operands have no
  brackets in a tree (`-(-x)` becomes a comment), left nests of `^` and `..` lose theirs, bitwise
  operators have no precedence; a method called on the first name is printed without its receiver;
  what has a field or is called gets no brackets, so that `(x or y).w`, `("s"):rep(3)` and
  `(function() end)()` lose theirs (868-881, and 918-923 in a mini-expression), and neither does a
  mini-expression with an operator where it is an operand.
- *Interpreters* (`luraph-dispatch.ts`): below an `==` the other range is walked with tests whose
  number lies outside it, so that a later walk overwrites earlier handlers; an `elseif` is a leaf with
  its condition in it; a leaf ends at the first nested `end`; what follows an `if` in its block
  is lost; a body cut at 30 000 bytes yields nothing.

## 4. Fairness

- ChainRunner, MultiPass: weak fairness of Next. Both are a sequential loop; each `await` in it
  settles, since fetches have timers and engines are raced with one. An engine that keeps the thread
  is out of this: no timer reaches it.
- Orchestrator: weak fairness of each run's own steps and of each engine's timer, both only while the
  thread is free. Nothing is assumed of engines: `Return`, `Fail` and `LateReturn` may never come, and
  `Hang` may. Engines run on the same thread as their timers (`luraph-vm-decode.ts:367`), and nothing in the
  code makes one hand it back: `BudgetUnwinds` shows a guest that never does. `Termination` is
  therefore a property of the behaviours without `Hang`: every run returns although engines
  wait for ever for something, as long as every engine that computes comes to an end of it or to an `await`.
- Fetcher: weak fairness of the abort timer, of the rejection it causes, and of handing out what
  has been received. Nothing is assumed of the server.
- StateFlattener: weak fairness of collecting, a loop; none of the recovered program, which may
  be left alone. `PassesEnd` asks whether collecting ends.
- FunctionLevelVm: weak fairness of `Build`, a recursion, and of `RunInlined`, since the question is
  whether a loop that is inlined would run for ever (the other half of `PassesEnd`).
- LuraphDecompile: weak fairness of Next; it is a sequential program. (Its properties are
  invariants and do not need it.)
- DynamicDecode: weak fairness of the guest as a whole and of the return. No fairness among the
  guest's operations, so that it may compute for ever; this is what `BudgetUnwinds` is about (`DecodeSpec` in MCLuraph).
- The text passes, Ironveil and LuraphDispatch are judged by invariants and need none.

## 5. Proofs

| theorem | says, for every value of the constants | argument |
|---|---|---|
| ChainRunnerProofs!TypeCorrect | `Spec => []TypeOK` | `TypeOK` is inductive. Types of what is extracted (`ExtractType`, `MergeType`, `PayloadType`) come from ChainAssumption; `StepTypes`, `DeadHopType` and `LiveType` cover the three ways a step is recorded |
| ChainRunnerProofs!RunOnceCorrect | no text is deobfuscated twice | what was run has a hash that was met, and a payload that is pending has not been run |
| ChainRunnerProofs!StackIsPathCorrect | the pools on the stack follow one path of steps | inductive with the types; popping and pushing keep the path |
| ChainRunnerProofs!HeaviestFinalCorrect | the final step is the first of the heaviest | `DeadHopRecords` and `WorkingKeeps`: a step without output is never heavier |
| ChainRunnerProofs!ProvenanceCorrect | steps, reports and queued links go back to a text that was recovered | one clause for each place a link can be in |
| ChainRunnerProofs!ImplementsCrawlCorrect | the resolver implements LinkCrawl | below |
| OrchestratorProofs!ReportsCorrect, LateAnswersCorrect, SelectionCorrect, DeepRoundsCorrect | `ReportIsOfItsOutput`, `LateAnswersDropped`, `SelectionPrefersValid`, `DeepOnlyImproves` | below |
| ReportCacheProofs!StoredCorrect | `StoredFaithful`: the cache serves what was stored last and evicts the least recently used | the map is sorted by the number of the last use of its keys, so a key stands in it once, and the key used now goes behind all others (`UsedGoesLast`); the types follow (`TypesCorrect`) |
| ReportCacheProofs!BytesCorrect, EvictsCorrect | the byte total is what the entries weigh; `EvictsNoMoreThanNeeded` | below |
| LimitProofs!SpanLimitCorrect | at most 2 * burst - 1 requests of a user in any span of a cooldown since the options last changed | below |
| LimitProofs!RetryAfterCorrect | who waits as told is let through | the same accounts: an instant that was promised is the end of the present window |
| LimitProofs!LimitsCorrect | `LimitsHonest`: both, and the types of the limiter | from the two above and `LimiterTypes` |
| LimitProofs!CapHoldsCorrect | `CapHolds`: no more than the cap is held, nothing above it delivered | what is counted is never less than what is held, nor more than what was sent; nothing is counted before the body is read |
| DynamicDecodeProofs!TraceCorrect | `TraceFaithful`: the trace read back is what was executed | below |
| DynamicDecodeProofs!DumpsCorrect | `DumpsKept`: a program is dumped at most once, its most complete snapshot is kept | below |
| DispatcherProofs!FollowsOriginalCorrect | the flat loop follows the original | below |
| DispatcherProofs!InlinedFollowsOriginalCorrect | so does the inlined code, and it is no longer than its limit says | below |
| DispatcherProofs!UnrolledFollowsOriginalCorrect | the straight code runs what the loop runs, and leaves its variable as the loop does | below |
| DispatcherProofs!RangesExactCorrect | `RangesExact`: a leaf stands with the very range in which the tree runs it | below |
| DispatcherProofs!HandlersExactCorrect | `HandlersExact`: the handler of an opcode is what the interpreter runs for it, and every narrow leaf has its handlers | below |
| OutputProofs!KeepsBalanceCorrect | cleaning keeps balance | inductive as it stands: each of the nine acceptance tests implies balance (`AcceptedBalanced`), control flow through the syntax check (`valid \subseteq balanced`) |
| OutputProofs!ConfidenceCorrect | confidence stays honest | the invariant `IInv` adds that before the first round has ended the best is still the engine's own; `ImprovedConfidence` bounds what a kept rewrite scores |
| OutputProofs!OutputTrustedCorrect | `OutputTrusted`: both | from the two above |
| OutputProofs!BestImproves | `BestOnlyImproves` | case by action, from `IInv`; only the last action of a run may keep a text that scores less |
| OutputProofs!BrokenMustEarnItAlways | the weights hold for any pair of outputs, not just the profiles of the run | `Percentages` and `SyntaxGrades` bound each measure; the weighted sum is then linear arithmetic |
| OutputProofs!AcceptsNestedCorrect | `AcceptsNested`: the checker accepts exactly the sources that nest, and blames no token twice | below |
| OutputProofs!BeautifyKeepsProgramCorrect | `BeautifyKeepsProgram`: every token is returned once and in its place, changed only where line breaks are collapsed; side by side they are read as the program, each line in its block | below |
| OutputProofs!ScoreBelowExit | no score exceeds 90 | the maximal sum of the terms of `scoreLuaSource` |

**The crawl.** LinkCrawl ends only when nothing is left to try or a limit was met. The resolver
knows what is left from its stack of pools, from which links are dropped in several places, so the
refinement needs `NothingForgotten`: a link that is mentioned by a text that was recovered, within
the depth, is in a pool, was tried, or is known under another spelling. `StepCrawls` maps each
action to a step of the crawl or a stutter.

**The orchestrator.** Order comes from `ordered`, which sorts a finite set by the number of
predecessors of each member. `OrderedIsSorted` shows that these numbers are one to one, because two
members are comparable and the order is transitive; being as many as the places, they are all
taken (an injection between sets of one size is a surjection). From it follow the order in which
results are collected and that `byRank` returns a permutation with descending ranks
(`ByRankSorts`). `IInv` says of every phase what is known in it: after the engines, one candidate for each that
succeeded; after refining, a sorted list; after selection, that the best is the winner of that list
and `currentRank` its score. The report needs one thing more, that the cache has one entry per
input and every entry describes its own output; `forget`, `RemoveAt` and eviction keep it.

**The cache.** The loop of evictIfNeeded stops by the running total, which set() and the loop adjust
by differences; the property speaks of the sum over the entries. `BytesInv` says that the two agree,
and that while the loop is at work each longer run of recent entries did not fit. `sizeOf` is a
recursive function. What it yields for every map is proved without an induction theorem: among the
places at which it would yield something else there is a least one (`Least`, from the library's
theorem on minimal elements of a well-founded set), and the place before it refutes it (`TotalsExist`,
`SizeIs`). `SizeWithoutOne` compares the sums of a map with and without one entry in the same way.

**The limiter.** That a window holds at most `burst` requests says nothing of a span that covers the
end of one and the beginning of the next. `Accounted` adds, for the window that is open, that the requests in
it are at most its count, and that at most burst - 1 requests of earlier windows are
younger than a cooldown at its start (the first request of a window is as old as the window itself). A span that ends now
is cut at the start of the window (`TwoParts`). `configure` leaves the windows as they are; the bound
speaks of the requests since the options last changed, and the accounts hold for the old window
under the new options. Of the types only the count of a window takes an argument: it exceeds 0 as long as
the window is kept.

**The flattener.** `FollowsOriginal` is not inductive: that the present state has an arm does not
imply that its successor has one. The strengthening `FlatInv` says of every moment of collecting that
each arm has the body the tree gives its state, that a state that was seen and has a body has an
arm, and that what the body of an arm leads to is `known`: seen, or still in the queue; so is the
initial state, if it was found. A program that runs by understood transitions has then an empty
queue, since a rewriting that was cut off by the bound is not `followed`, and its state is among those
seen. `AppendKnown` and `TailKnown` carry `known` over the two operations on the queue.

**The inliner.** Code is a set of paths of states, one to each body, and building it is a recursion with
calls on a stack. That the loop stays within the code says nothing while the code is half built;
`Covered` says that whatever a path leads to is in the code or waits in the call at
the end of that path (`waits`), unless a call has failed, when the whole loop is left untouched. An empty
stack then leaves no one waiting. `Framed` says that the states of the calls on the stack are a path, so
that `Pushed` and `Taken` can tell which paths wait after a call and after a return.
The limit on the number of states is tested before a state is counted, and the states that are pending
when it is exceeded are counted all the same: `Counted` bounds the pending ones by one for each
call (`PendingBound`), of which there are no more than the limit allows, so that the count stays within
twice the limit and 2.

**The unroller.** `Chained` says that the branches visited follow one another: the state each of them
tests is the one the branch before it assigns, the first is that of the entry, and when the walk ends
the last one leaves the loop. `InStep` says that the loop is at the branch after those it went
through, with that branch's state in its variable. As no two branches test the same state (`eligible`),
the loop can go nowhere else, and leaves where the walk ended.

**The ranges.** The tree runs a value down its comparisons, the pass carries a range down the same
nodes; both are recursive functions of the node. Statements are numbered in the order of the text, so
an arm has a greater number than the node it belongs to, and what holds of a node if it holds of all behind
it holds of every node (`FromBehind` of Lemmas). In this way `NodesUnder` and `LeafReached` give the two
functions their values, `RangesResolved` says that the ranges of a node are those of its then-arm and of
its else-arm in a row, `ApartUnder` that two arms have no node in common, hence no leaf (`LeavesApart`), and
`LedToLeaves` that values and ranges end at leaves below the node. The step that matters is `ArmsLed`: if
the two arms part the values at x, and in each of them a value within the arm's range is led to the leaf in
whose range it lies, then so it is in the node. A value outside the range of an arm must lie in none of
its ranges; that is why `led` also says that every range lies between the ends, and why `RangesExact` asks
that each range be in order: below a redundant test it need not be. `TreeLed` puts the arms together, sorting
permutes the row (`SortedRanges`, by `OrderedIsSorted`), and `LeavesCounted` says that the row has as many
places as `leafCount` promises, which bounds the length of the chain. `TreeInv` adds to the types that every
chain is that of a `nested` tree.

**The handlers.** The interpreter meets tests one below the other, which `runs` and `meets` say by recursion
over the nodes; the walk splits an interval at each of them. In an interpreter that is `consecutive` a block is
plain or one test, so the tests an opcode meets are a path (`PathMet`, `PathRun`): `Walked` says
that each leads to the next and all to the same statements, and, since an `if` stands in one place, a test in an
arm is met by exactly the opcodes sent through that arm (`ArmReached`). `DispatchInv` says that a
walk whose range is not empty stands at a block with a whole run of the opcodes that are sent there, an interval that no
other opcode of the block touches, and that an opcode that is to have a handler has it or is
in the range of a walk. At a test the run is all of its opcodes, and the number the test compares with lies within,
so that what `classifyCondition` makes of the six comparisons and their negations is a run, or two with
the number between them (`RangesSplit`); with the number outside, the ranges would grow beyond the interval, and a handler
overwrite another's. At a leaf the run has one end (`ArmEnds`), hence as many opcodes as its range is long
(`HandledTogether`), which is what the cap is compared with. An opcode that `DispatchInv` loses at a test went
through an `else` that is not written, and is to have no handler.

**The trace.** A dispatch goes into a buffer, and the buffer to the trace as a chunk when it is full
or another program takes over; a chunk without a program belongs to the one named last. What a chunk means
thus depends on all chunks before it. `Follows` says that reading the trace and then the buffer
gives all that was executed, or, after the cap was met, a beginning of it. `ReplayAppend` gives what one more
chunk adds to a reading, and `FollowsFlush`, `FollowsMarker` and `FollowsDispatch` are the three
things a dispatch may do. `Reading` shows that the recursive function behind `replay` has values at all (`StepsExist`).

**The dumps.** Snapshots are sorted by length and kept unless a kept one extends them.
`RankedSorted` shows that the sort yields the same snapshots in descending order; `KeepComplete` that
one step keeps what was said of the snapshots before: each is the beginning of a kept one, and no kept one of
another, for which the order is needed, since a longer one that comes later would extend one already kept.
That a program is dumped once comes from `vmids`, whose programs are those that were dispatched (`DumpTypes`).

**The syntax check.** The reference is a recursive function: `ends[i]` holds the positions at which a
stretch that nests and starts at i may end. It says nothing of a stack, and the checker goes on after an error.
In between stands a run (`IsRun`): one stack over all positions, which is `lost` at the first closer that
does not fit. `NestKeepsStack` shows, by induction on its length, that a stretch that nests leaves the stack as it
was; `StackKeepsNest`, by induction on the position, that what lies between the openers
on the stack, and above the last, nests, two such stretches in a row being one (`Joined`).
Hence a run is empty at the end exactly if all of it nests (`NestsIfEmpty`). `CheckInv` then ties the code to two
such runs, one over the brackets and one over the blocks: as long as nothing is blamed they have the code's stacks,
and from the first error on one of them is lost or a string is open. That no token is blamed twice is a
matter of the three sequences of positions: they share nothing, and a position that enters one is new or leaves another.

**The layout.** The beautifier keeps no stack; it has a count and two flags where the program has blocks in
blocks. `Oriented` says what they stand for: the count is the depth after the last token, and a flag is
up exactly if an if-expression still waits for that arm (`awaited`), which is why `understood` lets none begin
before the arms of the one before it. `OrientedNext` goes through the tokens that change any of the three. `Follows`
ties the last token of an open line to the program, so that two tokens on a line are two tokens side by side,
of which `BlanksKept` says that Lua does not run them together where the code leaves no blank, `runTogether` aside:
by what each spelling can stand next to (`besides`). `Aligned` follows a line from its first token, when the indent is
taken, to its end. `Complete` numbers the words: on a line and from one line to the next their tokens follow
one another and are those of the program, and the last word written is the last token read. `LineKept` carries all of
this over the collapse of line breaks, which changes the `newlines` of a token and nothing the rest looks
at. The attempt to prove this found the hypothesis too weak: the code looks at the last token
that is no comment (`lastOf`), and with a comment between `=` and `if` the text before the `if` and what the
beautifier sees are not the same, which no program of the run had shown; `understood` now looks over comments, and the run
has such programs.

The assumptions are about constants only (ChainAssumption, OrchestratorAssumption,
LimiterAssumption, FetcherAssumption, CacheAssumption, DynamicDecodeAssumption,
StateFlattenerAssumption, FinitelyManyStates, InlineAssumption, UnrollAssumption, BinaryTreeAssumption, DispatchAssumption,
QualityAssumption, MultiPassAssumption, BeautifyAssumption): types, that there are finitely many engines with a place
each, that a valid text is balanced, that a program has an opcode, a branch two successors, a
statement one place in the text, a token a kind and neighbours as the grammar has them, and the budget an end within the clock. TLC evaluates them in the runs.

Only model-checked:

- all liveness (`Termination` of the chain, the orchestrator and the cleanup, `CallEnds`,
  `PassesEnd`): the prover has no rules for fairness.
- `FoldKeepsValue`, `CallsExact`, `DeadBranchesOnly`, `TablesKeepMeaning`,
  `LiteralsKeepValue`, `RenamingKeepsBindings`, `LiftingFollowsProgram`,
  `ListingFollowsProgram` and `RecoversProgram`. Each compares what a pass computes with a
  meaning that is given by recursion over the text, the tree or the program; a proof is an induction
  over data with a recursive definition on both sides, which the prover cannot instantiate, and many of the
  definitions are RECURSIVE, which it cannot be used with. Least counterexamples (`Least`, `UpTo`,
  `Descent`, `StepsExist` of Lemmas) reach functions along one sequence: the byte total of the cache, the
  reading of a trace, the snapshots kept, the stretches of a source that nest; and along the order of the
  text (`FromBehind`) the nodes of a tree and the tests of an interpreter.

## 6. Not modelled

- *Recognising shapes in texts by regular expression*, log messages, wording and
  the fake Roblox environment of the sandbox: a model of them would be a copy. Where a part is
  modelled from its tokens or its tree on, the search for it in the text is left out: the loop of a
  dispatcher, the fetch of an interpreter, the fragments of a build, the handler of a rule.
- *The detector* sums weights over regular expressions; Orchestrator takes any ranking of engines.
- *Pattern engines and the other payload decoders* are straight lines of text rewrites and table
  look-ups without state that outlives the call; the orchestrator sees engines that answer, fail or
  stall, and Ironveil, the one with a stateful cipher and a retry, is modelled from its fragments to the
  printed source.
- *The Luraph engines* are a fixed list of stages around the dynamic decode and the lifter, which
  are modelled.
- *Unreached code*: `orchestrator-v2.ts` is imported by nothing, and with it symbolic execution,
  the structuring of control-flow graphs, lifetimes, call reconstruction, `advanced-const-eval.ts`
  and `luraph-lifter-v2.ts`. `static-opcode-lifter.ts` prints every arithmetic handler as `+`.
- *Passes that change what a script prints on purpose* (`foldEncodedStringTableLiterals`,
  `substituteStringTableRefs`, which takes a neighbour's entry for an index that is not in the table)
  have no meaning to keep. `foldGlobalIndexing`, `foldFragmentJoin` and the loadstring wrapper are
  not modelled.
- *The preprocessing* that precedes detection in v6.1 is an arbitrary text for the orchestrator.
- *Reports across options*: the cache is keyed by the source alone (`orchestrator.ts:497`), and
  no text of the repository says whether a report may serve a run with other options.
- *Command line, tests, corpora and `node_modules`.*

## 7. How it was built, and what is left

The order was by what the rest depends on, the steps that interact first: the chain and the
orchestrator; cleanup, scoring and the utilities; the sandbox and the Luraph listing; the
dispatcher passes; then values, literals, names and the Ironveil decoder; last the theorems,
from the invariants that one action can break to those that take several.

Left: the symbolic executor and the
structurer are worth a module (a machine of basic blocks, and the passes against it) from the day
the command line reaches them.
