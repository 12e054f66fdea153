# BlockType in TLA+

BlockType is a C++26 compiler: a preprocessor and lexer, a recursive-descent
parser, semantic analysis over an AST, an intermediate representation with its
own containers and query machinery, an LLVM backend, and a subsystem that asks
AI providers about the code being compiled. This directory holds a
specification of the parts whose correctness depends on long sequences of
operations or on several threads, the TLC configurations that check them on
small instances, and proofs checked by TLAPS.

Paths below are relative to the root of the repository (`src/Lex/...`,
`include/blocktype/...`).

## 1. Inventory

Only the AI subsystem uses threads; everything else runs in one thread of one
process. Files are written by the IR cache, the response cache and the query
cache only; the IR cache may be shared by several compilers at a time.

| Component | State it keeps | Operations | Used by / uses | What must hold |
|---|---|---|---|---|
| Preprocessor (`Lex/Preprocessor`) | include stack, open conditional sections, `Skipping`, macro table, `PragmaOnceFiles`, guard detector, current file name and ID | `enterSourceFile`, `reset`, `lexToken` and a handler per directive | Parser and driver pull tokens; it drives Lexer, HeaderSearch, SourceManager, Diagnostics | exactly one group of a section is read; nothing skipped reaches the parser; inclusion cannot recur for ever; a file resolves to its own ID |
| HeaderSearch | search path, caches, guarded files | `lookupHeader`, `lookupHeaderNext` | Preprocessor | the first directory that holds a name wins |
| SourceManager | `Files`, `FilenameToID` | `createMainFileID`, `createFileID`, lookups by name | Preprocessor, Diagnostics | open files have IDs of their own |
| Lexer | position, directive mode | `lexToken` | Preprocessor | an end-of-directive token only inside a directive |
| ConcurrentRequestManager (`AI/ConcurrentRequest`) | `ActiveRequests`, futures and results of each call | `sendSingle`, `sendConcurrent*`, `waitForAll` | threads of `std::async`; any number of callers | counter exact; results in order; every call ends |
| RequestBatch (`AI/ConcurrentRequest`) | requests, `Results`, `Cancelled` | `execute`, `cancel`, `retryFailed` | one task per request, `cancel` from any thread | retries bounded; cancel stops; what is returned agrees with the results |
| ConnectionPool, ResponseCache, CostTracker | connections, cached answers, spending | acquire/release, lookup/store/evict/save/load, record | providers | limits respected, no stale answer |
| AIOrchestrator, providers, HTTPClient | table of providers | `sendRequest` | libcurl | outside the model: an answer or a failure |
| DenseMap (`IR/ADT/DenseMap.h`) | buckets, entry and tombstone counts | insert, `operator[]`, find, erase, clear, move | IRContext, IRTypeContext, DependencyGraph, QueryContext, RedGreenMarker, RegisterAllocator, IRToLLVMConverter, ASTToIRConverter and others | a finite map |
| Incremental queries (`IR/DependencyGraph`, `QueryContext`, `RedGreenMarker`, `ProjectionQuery`, `QueryCacheSerializer`) | memoised results, edges, fingerprints, marks | query, invalidate, mark, save, load | IncrementalBuildIntegration | a result that is reused is what recomputing would give |
| IR cache (`IR/Cache`) | a directory of artifacts, each up to three files written in place | `store`, `lookup`, `evictIfNeeded` | CompilerInstance, CacheCleaner; other compilers on the same directory | half an artifact is never left behind or returned; the size limit |
| Parser (`Parse`) | two tokens, the C++ call stack, `ConsecutiveErrors`; in Sema the chain of scopes and the stack of declaration contexts | a function per construct, five ways of skipping | Preprocessor gives tokens, Sema builds nodes | valid input is accepted and invalid input is not; scopes are balanced on every way out; recovery goes forward |
| Modules (`Module/*`, `Driver/ModuleLinker`) | loaded modules, import graph | load, add, sort, link | Sema, driver | imports before importers, cycles refused |
| Sema, AST, IR data, frontend emitters, backend | trees and tables | sequential passes | each other, in the order of CompilerInstance | the rules of the language; not state machines |

What is hard here:

* *Sequences of directives.* Three booleans per section encode which group is
  read; a wrong one shows many lines later. File identity goes through names,
  paths and IDs that are reused and mapped again.
* *Threads.* The slot test of `sendConcurrentWithProgress` and the increment it
  looks for are in different threads; a future may be asked twice; `cancel()`
  may come between any two steps of a task.
* *Partial failure.* `retryFailed` runs part of the batch and merges.
* *Recovery.* A parse function has a dozen early returns, each of which has to
  undo what was opened; and the recovery stops in front of tokens that the
  caller may refuse once more.
* *A shared directory.* Compilers store, read and evict the same files without
  a lock, and any of them may be killed between two system calls.
* *Probe chains.* In DenseMap an erasure leaves a tombstone that may be reused,
  and growth moves the entries elsewhere.

`PROJECT.json` lists each hazard at its line with the properties aimed at it.

## 2. Modules

| Module | Models | Source |
|---|---|---|
| `HeaderSearch` | header lookup over a fixed disk, as operators | `src/Lex/HeaderSearch.cpp` |
| `Preprocessor` | the directive machine; EXTENDS HeaderSearch | `src/Lex/Preprocessor.cpp`, parts of `SourceManager.cpp`, `Lexer.cpp` |
| `ConditionalSections` | what the conditional directives promise (abstract) | refined by `Preprocessor` |
| `PreprocessorProofs` | theorems about Preprocessor | |
| `ConcurrentRequest` | a manager with several callers, and `waitForAll` | `src/AI/ConcurrentRequest.cpp:12-108` |
| `RequestBatch` | a batch with retries, cancellation and `retryFailed` | `src/AI/ConcurrentRequest.cpp:110-308` |
| `ConcurrentRequestProofs`, `RequestBatchProofs` | theorems about the two | |
| `DenseMap` | the hash table; `grow()` one bucket at a time | `include/blocktype/IR/ADT/DenseMap.h` |
| `Dictionary` | a finite map (abstract) | refined by `DenseMap` |
| `DenseMapProofs` | theorems about DenseMap | |
| `DependencyGraph` | which query depends on which; least closed sets as the reference | `src/IR/DependencyGraph.cpp` |
| `RedGreenMarker` | `getTransitiveDependents`, `hasCycle`, `tryMarkGreen`; EXTENDS DependencyGraph | `src/IR/DependencyGraph.cpp:170-249`, `src/IR/RedGreenMarker.cpp` |
| `RedGreenProofs` | theorems about both | |
| `DiskCache` | the artifact cache on disk, several compilers, crashes and full disks | `src/IR/Cache/IRCache.cpp` |
| `DiskCacheProofs` | theorems about DiskCache | |
| `ParserCore` | tokens, the call stack, scopes and contexts of Sema, the ways of skipping | `src/Parse/Parser.cpp`, parts of `src/Sema/Sema.cpp` |
| `ParserExpressions` | precedence climbing, calls, lists in braces; EXTENDS ParserCore | `src/Parse/ParseExpr.cpp` |
| `ParserStatements` | statements; EXTENDS ParserExpressions | `src/Parse/ParseStmt.cpp`, `ParseStmtCXX.cpp` |
| `ParserDeclarations` | the main loop, declarations, declarators, templates; EXTENDS ParserExpressions | `src/Parse/ParseDecl.cpp`, `ParseDeclSpec.cpp`, `ParseType.cpp`, `ParseTemplate.cpp` |
| `ParserClasses` | classes, unions and their members; EXTENDS ParserDeclarations | `src/Parse/ParseClass.cpp` |
| `Parser` | composes them; the properties | `src/Parse` |
| `ParserGrammar` | what the parser promises: a predictive grammar (abstract) | refined by `Parser` |
| `ParserProofs` | theorems about Parser | |
| `DataLemmas` | lemmas about natural numbers, flattened sequences, sums and maxima that several proofs use | |
| `MC*` | values of the constants for TLC; `MCHeaders` reads headers in two vocabularies | |

### Preprocessor

One step is one turn of the loop of `lexToken`: a line of source, the end of
the current file, or the end-of-directive token of a lexer that an `#include`
suspended. The environment picks each line from `Lines`, so every content of
every file over that vocabulary is covered, and the file that is current is the
last frame of `stack`. Each handler of a directive is an action; `Misplaced` and
`BadDirective` are their error paths, `IncludeRefused` the early returns of
`handleIncludeDirective`. State variables carry the names of the members they
model (comments in the module).

Abstractions: a line of text is one token; a file ends in a newline; a file
that cannot be read counts as not found; the value of a condition is whether
the macro it names is defined; macro expansion, function-like macro parsing,
`#embed`, `_Pragma` and `#include <...>` are left out;
`enterSourceFile` is called only with an empty stack, as its callers do. The
history fields `past` and `oncePaths` exist for properties only.

### ConcurrentRequest and RequestBatch

A step of a thread is the code between two accesses to shared state: the atomic
counter or flag, or a future. An answer is `ok` or not; HTTPClient's timeout
makes it arrive. The destructor of a future of `std::async` waits for its task
(`Joined`, `Leave`). `get()` or `wait_for()` on a future that has been emptied
throws (`Throw`). `FailFast` and the error strategy are variables that never
change, so that one run covers every value. `MaxConcurrentRequests = 0`, with
which the slot loop never ends, is excluded by `ConcurrentRequestAssumption`.
In RequestBatch the flag of the batch and the flag of the `RetryBatch` that
`retryFailed` makes are two; `sends`, `late` and `stopping` are history.

### DenseMap

`key[i]` stands for the state and the key of a bucket. `LookupBucketFor`
is the probe loop written as a least stopping probe and a least tombstone before
it. `grow()` is spread over one step per old bucket, with the insertion that
called it waiting, so that the invariants are checked in the middle as well;
nothing else runs meanwhile. Moving a map leaves the source empty (`MoveOut`).
The destructor calls on buckets are not modelled.

### DependencyGraph and RedGreenMarker

The two tables of adjacency lists are two sets of pairs; the walks pick the next
node or dependency in any order, which covers every order of the lists. A step
of a walk is one turn of its loop; `path` is the stack of frames of `hasCycle`
and the call stack of `tryMarkGreen`. The user changes the graph, fingerprints
and marks between the walks only (one thread). A fingerprint is reduced to
whether there is one (`known`) and whether computing it now would give another
(`changed`). `stale` is history: marks are not meant to survive a change of the
graph, and `canReuseCompilation` makes a new marker each time. `MaxPath` stands
for the end of the C++ stack.

### DiskCache

One step is one operation on the file system: opening a file for writing, a
block of it, asking for the size of a file, reading it, unlinking a file of an
entry that is evicted. `proc[p]` is where a compiler is; `disk` is what the
names stand for. Who has a file open keeps it when it is unlinked (`Unlink`
takes `open` from whoever had it), so a writer goes on into a file that has no
name any more. A compiler may be killed between any two steps (`Crash`), also
by an exception: `computeTotalSize` throws if a file vanishes under it. Writing
may fail (`WriteFails`); an error on `meta.json` shows when the stream is closed
and is not looked at, so `store` goes on with it empty.

Abstractions: a payload is blocks whose bytes follow from the key; a walk over
the directory is one step; reading the clock and making the directory are one
step; a file that is unlinked while it is read is read as it is at that moment;
hit and miss counters are left out. `torn`, `debt` and `alone` are history.

### Parser and ParserGrammar

The C++ call stack is the variable `stack`: a frame names a parse function and
a place in it, and `ret` is what the last call returned (a null pointer, a node,
or which kind of declaration). One step consumes a token or chooses what to do
by the token ahead; a table of such steps is one parse function (`Shift`,
`Finish`, `Step`, `Done`, `Report`, `Reject` of `ParserCore`), and a function
that every caller treats alike is called by pushing its frame. `Tok` is the
current token; the input is not fixed but drawn token by token, so a run covers
every input, finite or not, over the kinds of tokens, as long as it does not
nest deeper than its vocabulary allows. Every parse function pushes and pops the
scopes and contexts of Sema where the code does. `Refuse` stands for a Sema
function that reports an error and returns null; it is a choice, as types and
names are not modelled. Three things of names do matter and are choices too:
whether an identifier is the name of the class it stands in (a constructor or
destructor), whether it names a type that is not complete, and whether a member
initializer names the class itself.

A kind of token stands for all that the code treats alike (`ParserCore` lists
them); `"params"` is `()`, which keeps parameter lists out of the vocabularies
that are not about them, and `"template"` is a whole header. The conditions
`AfterName` to `AfterSpecifier` keep to the part of the language that is
modelled: a cast, a declarator in parentheses, the declaration in a condition,
`extern` as a storage class and a class template without a name are never in
the input.

`ParserGrammar` says in terms of grammar symbols what may come next, as two
tables: what follows a token that is read, and what a symbol is replaced by. The
refinement maps the call stack to the rest of the sentence (`Expected`), so it
says that until the first error the parser reads exactly the sentences of the
grammar and reports a syntax error exactly where the grammar has no rule. The
grammar is that of the code; where it differs from C++ section 5 says so.

## 3. Runs

| Run | Instance | Distinct states | Shows |
|---|---|---|---|
| `conditional` | a file and a header, 2 macros, sections 3 deep, every conditional directive with and without an operand, `#pragma once` and `#line` | about 191 000 | the three section invariants, the refinement of `ConditionalSections`, text only while every section is read |
| `headers` | 5 names, 2 directories; plain `#include` 4 files deep with 4 file IDs, and `#ifndef`, `#define`, `#include_next`, `#line` 3 files deep | about 126 000 | no name twice on the include stack; open files resolve to themselves; the guard detector; IDs of open files distinct |
| `pragma_once` | a header that says `#pragma once` | violation | it is included again |
| `concurrent` | callers with 2 and 1 requests, one slot, a waiter; FailFast on and off | about 42 500 | counter, order, early end, every call ends |
| `batch` | 2 requests, 1 retry, 2 calls, 3 strategies, `cancel` at any time | about 25 000 | bounds on sends, cancellation, return values, every call ends |
| `batch_merge` | 2 requests, no retry, 2 calls | violation | `retryFailed` overwrites the result of another request |
| `densemap` | 4 keys, 3 with the same home, table 4 to 16 buckets | about 23 000 | counts, searches end, unique keys, find exact, refinement of `Dictionary` |
| `marking` | 3 queries, every graph of up to 3 edges, self-dependencies and cycles included, stack of 4 | about 1 400 000 | both directions of the graph agree; transitive dependents and cycles exact; colours right; the recursion overflows on a cycle only |
| `fingerprint` | 2 queries | violation | an edited query is green |
| `diskcache` | 2 compilers, 2 entries of 3 blocks, room for 4, 2 seconds | about 610 000 | no half payload without a writer, undisturbed lookups whole, the size limit, the newest entry kept |
| `parser` | 19 vocabularies of 6 to 13 kinds of tokens, constructs 1 or 2 deep in each other | about 525 000 | refinement of `ParserGrammar`, scopes balanced, recovery goes forward but at a stray brace |
| `parser_hang` | blocks and classes | violation | parsing never ends at a `}` that closes nothing |

Why the bounds are enough: three sections are a section inside a skipped group
inside another one, which is the deepest relation the flags record; four open
files let a name come back through two other headers and through an absolute
spelling; the file IDs include 0, which is used again after `reset`. Two callers
with a slot between them give contention, and a caller with two requests has a
first, a second and a "started but not yet counted" request. A batch of two
with one retry has a failed first request with a succeeded second, which is what
the merge gets wrong, and a cancel at each step of a retry. Colliding keys in a
table of four give chains that wrap around, tombstones inside chains, a full
load, and two growths. Three queries with three edges give a cycle of every
length, a query reached in two ways, and a cycle with a way out of it; a stack
deeper than the number of queries overflows only if a query is on it twice.

Two compilers and two entries let a store meet an eviction of its own entry, a
second store of the same key, and a lookup; a payload of two blocks has a middle
to be killed in; two entries of three blocks do not fit together, so evictions
happen; two timestamps can be equal or different.

The vocabularies of `parser` are grouped by what interacts: blocks with class
bodies, templates with what they hold, loops with the statements in them, labels
with blocks, handlers with `switch`, members with the kinds of members, and so
on. Braces, and with them every skip that looks for one, are in nearly all. A
construct two deep in another is enough for each early return to be taken with
something open around it, and for a recovery to end in a frame it did not start
in. What is not covered is a mixture of vocabularies, such as a loop in a
method; the frames of a method body and of a function body are the same.
`MaxSkipTokens` is 2 instead of 50 and the skip of nested braces one deep; one
variable template may leak its scopes.

Deadlock is checked except in `concurrent`, where the calls end and nothing is
left to do, in `marking`, where a stack overflow ends the program, and in
`parser_hang`, where the end of the input does.

Fairness. `concurrent` and `batch` assume weak fairness of each thread: a thread
that can go on does. The operating system schedules runnable threads, and the
waiting loops poll. Nothing has to call `waitForAll`, `execute` or `cancel`.
The parser is one thread that nothing waits for: `Spec` of `Parser` assumes weak
fairness of its own next step, and nothing of the input, which may be endless.
`MCSpec`, which `parser` checks, says the same without ENABLED, which TLC would
evaluate in every state: the parser is done again and again, or steps again and
again. That a step is possible until the parser is done is what the check for
deadlock shows in that run, and a step that changes something is, as the end of
the input may come next at any time.
Strong fairness is not assumed: a caller waiting for the slot is served because
the other callers run out of requests, not because the code is fair.

## 4. Proofs

Every invariant and every action property that a run checks is a theorem, for
every value of the constants, and so are two of the three refinements. Each
proof module EXTENDS the module it is about; the assumptions are those on the
constants (`BoundsAssumption`, `DiskCacheAssumption` and the like), which TLC
evaluates in the runs of their modules, and where a theorem needs more its
statement says so.

`PreprocessorProofs` proves, for every set of lines, layout of headers and
bound: `TypeCorrect`; `SectionsCorrect`, the inductive invariant; from it
`SkippingInherited`, `OneGroup`, `ElseIsComplement`, `TextIsRead` and
`SectionsRefine` (the implementation of `ConditionalSections`). The invariants
are not inductive one by one: what `FoundNonSkip` and `WasSkipping` say of a
section has to be related to the history field `past` and to the section above
it in the stack, which `SectionsCorrect` does. Of the files: `IDsDistinct`, as
the IDs of open files are below the next one to be given; `PlainIncludes`, that in a program whose lines have no `#include_next` no
name is twice on the stack and open files are found under their names, whatever
was read before a `reset`; `HeadersNeverCircular` and `HeadersResolve`, the same
of the two vocabularies of `MCHeaders`; `PendingRecorded`, the guard detector.
The two halves of `PlainIncludes` need each other: entering a file maps its name
to a new ID, which leaves the IDs of the open files alone because the
circularity check has found none of that name among them. All of these rest on
one case analysis of what a line does to the include stack (`LineFiles`).

`DenseMapProofs` proves, for every set of keys and values, every hash function,
every first size from 4 on (the code has 16) and every bound: `TableCorrect`,
the inductive invariant `IInv`, and from it `TypeCorrect`, `CountCorrect`,
`KeysUnique`, `EverySearchEnds`, `FindSeesEntries` and `MapRefines` (the implementation of
`Dictionary`). `IInv` adds to the properties: every occupied bucket is reached
from the home of its key without meeting an empty bucket (`Reachable`); both
counters are exact (`Counted`); outside `grow()` entries and tombstones together
leave a bucket empty (`Room`), and within it the entries still to move fit
(`Growing`). A search then ends at the bucket of the key if it has one
(lemma `Search`), whatever was erased on the way. The load factor of 3/4 needs
a table of at least four buckets to keep one empty.

`RedGreenProofs` proves, for every set of queries: `TypeCorrect`,
`DependentsCorrect` and `CycleCorrect`. The reference is the least set that is
closed under the edges, so completeness needs no induction over paths: with an
empty work list the visited nodes are closed and hold the direct dependents, so
they hold the least such set (`DependentsInv`). For `hasCycle` the invariant
`Search` says that the gray nodes are a chain each of which reaches the next
ones, that what a gray node has passed is black or the next gray node, and that
black nodes have black dependencies and do not reach themselves. `MaxPath` and
`MaxEdges` play no part in these. `MarksCorrect` is about `tryMarkGreen`, for
finitely many queries and a stack that takes as many frames: its invariant
`MarkInv` says that, unless the graph has changed since, green queries have a
fingerprint and green dependencies only and red ones have a reason below them,
that what a call has passed is green, and that the call stack is a chain of
dependencies, so that a chain longer than there are queries has one twice.

`ConcurrentRequestProofs` proves, for every finite set of callers, every number
of requests each and every limit: `TypeCorrect`, `SpecActiveIsExact`,
`SpecResultsInOrder` and `SpecShortOnlyAfterFailure`. `CountInv` adds to the
counter which tasks have been started, so that a task that increments it is not
one that is counted already; that callers are finitely many is assumed because
`ActiveIsExact` counts a set. `OutcomeInv` says for each place in a call what its
`results` hold so far and which futures are still full: the loop that collects
and the loop of `FailFast` that polls empty futures in different orders, and the
call throws at a future that is empty.

`RequestBatchProofs` proves, for every size of batch, `MaxRetries` and number of
calls: `SpecRetriesBounded` from `CountInv` (how `sends` and `RetryCount` are
related in each state of a task), `SpecCancelStopsExecute` from `StopInv` (once
the flag is up, a task that has sent late is past both places it could send
from), `SpecTrueUnlessCancelled` and `SpecFalseHasFailure` from `AnswerInv`: while
the collecting loop runs, the results are those of the first requests in order,
or a future that the polling loop has emptied lies ahead, so that the loop will
throw instead of returning. `TypeCorrect` bounds the list of results over any
number of calls: during a call there are as many results as futures have been
emptied (`Held`), and what `retryFailed` sends is no longer than what it kept
them from. `Failed` flattens a sequence of empty and one-element lists, since
the provers know nothing of `SelectSeq`.

`DiskCacheProofs` proves, for every set of compilers and keys, every number of
blocks and every limit:

* `SpecIncompleteHasWriter` and `SpecLookupIsWhole`. The
  invariants are one for what a compiler keeps for itself (`LocalInv`: a writer has
  a payload open whose blocks exist), one for the payloads (`KeptInv`) and one for
  lookups (`AloneInv`). `IncompleteHasWriter` is not inductive: a second store
  truncates the payload under the first writer, and an eviction takes its name
  away. `KeptInv` adds that a payload that is absent is open to nobody and that a
  writer lacks only blocks from its offset on, whoever else writes; so the last
  writer to close it leaves it whole.
* `TypeCorrect`: the size of a payload is the last of its blocks, a maximum of a
  finite set.
* `SpecSizeBounded` from `SizeInv`: if the entries nobody is storing are together
  above the limit (`SteadySize`), each readable entry is covered by a compiler
  that will look at the size again or has yet to decide whether to evict it
  (`Covers`). An entry that is being stored is left out of the sum because its
  writer will look at the size when it is done. A compiler gives up its part only
  when the total it has just measured is within the limit, and that total is no
  less than the steady one. Sums are over the whole directory, hence the lemmas
  on `MapThenSumSet`; `Named` adds that every file is in a directory of the walk.
* `SpecNewestIsKept`. A compiler that is alone has in its list exactly the
  readable entries (`ExactInv`), the first of the list is the least by time and
  key (`FirstIs`), and a cache whose only directory is that of one entry is as
  large as that entry (`OnlyEntry`).

`ParserProofs` proves, for every set of vocabularies and every bound,
`ParserInvariant` and from it `TypeCorrect` and `ScopesAlwaysMatch`. The scopes
are a flattened sequence over the call stack, so a step is classified by what
it does to the stack and to Sema: it exchanges frames that hold nothing, opens
or closes a construct with its scopes, leaks the two of a variable template,
ends the program, or is a turn of a skipping loop. One lemma per kind says that
the invariant survives it, one per parse function says of what kinds its steps
are. The invariant adds that the frame of the translation unit is at the bottom
of the stack only and that the counters of the skipping loops rest outside them.

`DataLemmas` has what these share. The induction theorems of the library take an
operator, which the provers cannot instantiate; the inductions here are by the
least counterexample in a set (`LeastNatural`, `UpTo`, `SubsetInduction`), and the
folds of the community modules are unfolded through the functions that their
definitions choose. What a sum over a finite set adds up to, and what a
concatenation of sequences is, are proved this way.

Only model-checked: `ImplementsGrammar`, the refinement of `ParserGrammar`, and
liveness (`EveryCallEnds` of both request modules and `StuckOnlyAtStrayBrace`),
since TLAPS handles neither ENABLED nor fairness. The four violations are TLC's.

## 5. What the code does otherwise than it says

Four divergences are runs (`pragma_once`, `batch_merge`, `fingerprint`,
`parser_hang`). The models contain others, read off the actions, and a few more
were met on the way; they are stated here rather than run.

Preprocessor, requests, tables and queries:

* The lexer of an including file stays in directive mode and hands its
  end-of-directive token to the parser after the header
  (`Preprocessor.cpp:422`; action `EndOfDirective`).
* `CurrentFilename` and `CurrentFileID` are not restored at the end of a file
  (`:174`), so an include guard may be credited to another file (`:506`).
* A file may end inside a conditional section without a diagnostic (`:174`).
* Directives in groups that are not read take effect (`:186`).
* `#ifdef` and its relatives without a name discard the rest of the file (`:982`).
* `#include_next` starts after the first directory that holds the current name,
  not after the one the file came from (`:774`).
* `ConcurrentRequest.cpp:64`: more than `MaxConcurrentRequests` tasks may run,
  as the counter is incremented in the task (`:17`).
* `:72-74`, `:91`, `:213-215`, `:235`: with `FailFast` or `StopOnFailure` a
  future is asked again after `get()` and the call ends in an exception.
* `:105`: `waitForAll` may return while a started task has not been counted.
* `:194-196`: after `cancel()`, `execute` returns true if what was started
  succeeded; `:273`: `cancel()` does not reach the batch of `retryFailed`;
  `:178`: `execute` clears a `cancel()` that came just before.
* `RedGreenMarker.cpp:23-48`: on cyclic dependencies `tryMarkGreen` recurs until
  the stack ends (action `Depend`); `DependencyGraph.h:18` calls the graph a DAG
  and nothing enforces it.

* `DenseMap.h:217`: `erase`, `clear` and growth run destructors that `delete[]`
  runs again; `:189`: a reference of `operator[]` is stale after growth.
* `DependencyGraph.cpp:74`: the fingerprint of a function has its opcodes and no
  operands.

IR cache:

* `IRCache.cpp` writes in place; `src/docs/plan/多前端后端重构方案/44-AI-Coder-任务流-PhaseB-BF8.md:394`
  promises a temporary file and a rename. A crash in a second store of a key
  leaves the old `meta.json` with a truncated payload, and `lookup` returns it
  (the size in `meta.json` is not compared).
* Directories without a readable `meta.json` count in the size and are never
  evicted; once they take a tenth of the limit, a store evicts its own entry.
* Of entries of the same second the first path goes first, also if it is the
  entry just stored.
* `:64`: the hash of the dependencies in a key is always 0, so headers are not
  part of it.
* Eviction is by the time of the store; the plan (`:393`) says last access.

* `ResponseCache.cpp:120` asks for room at `MaxSize` entries and `:149` makes some
  only above it, so the cache grows to `MaxSize + 1`; its times are those of a
  clock that another process cannot compare (`:56`, `:126`, `:261`).

Parser and Sema:

* A variable template is always refused, and its two scopes are not popped
  (`ParseTemplate.cpp:341`, `:349`, `:363`; `tests/lit/parser/template.test:23`
  expects the declaration). An alias template with bad parameters leaks as well
  (`:378`).
* After a declaration that Sema refused, the body of a namespace or class is
  skipped to the next `;` although the refused one was read whole, so the next
  declaration is lost (`ParseDecl.cpp:606`, `ParseClass.cpp:253`).
* `int f()` needs no `;`. A lone `;` and `class A;` are errors.
* `A();` and `~A();` in a class leave the `;`, which is refused as the next
  member (`ParseClass.cpp:925`, `:985`).
* `using X = type;` in a class is always refused: `parseTypeAliasDeclaration`
  expects the `using` that has been read (`ParseClass.cpp:374-377`,
  `ParseDecl.cpp:1306`). `using id;` in a namespace is refused (`:258`).
* The comma before the message of a `static_assert` and the one after a default
  argument are read as operators, against the comment at `ParseDecl.cpp:419`.
* A bad underlying type of an enumeration goes unreported.
* An unnamed class template casts a null pointer (`ParseTemplate.cpp:314`).
* `skipPreprocessingDirective` swallows tokens up to the start of a declaration
  without a report.
* The recovery of an expression statement skips to `;` past any `}`
  (`ParseStmt.cpp:389`).
* `emitError` and `recoverFromError` both count an error, so two bad
  declarations in a row make the recovery aggressive (`Parser.cpp:293`).
* `Preprocessor::consumeToken` and `peekToken` bypass `lexToken`: after the first
  token the parser sees no directive handled and no macro expanded.
* `requires { ; }` loops for ever (`ParseExprCXX.cpp:505-510` with `:463-466`).
* A call that Sema refused and that is followed by another postfix operator is
  used although it is null (`ParseExpr.cpp:1316`).
* `int x(10)` is read as a function declarator (`ParseType.cpp:884`), so the
  direct initialisation of `buildVarDecl` is never reached.
* `Sema.cpp:2523-2586` raise the depth that `break`, `continue`, `case` and
  `default` are checked against after the body has been parsed, so those
  statements are always reported (`:2590`, `:2607`, `:2616`, `:2625`).
* The initializer of an enumerator is parsed as a full expression and takes the
  enumerators after it as a comma expression (`ParseDecl.cpp:1249`).
* `f(c ? a : b, d)` passes one argument: the false branch is a full expression.
* `for (int x : v)` is refused, as the declarator of the classic loop takes the
  name first (`ParseStmt.cpp:889-905`).
* `export { }` returns null without a report and starts the recovery
  (`ParseDecl.cpp:1081`).
* `->` is consumed before `parseTrailingReturnType`, which expects another one
  (`ParseType.cpp:981-988`, `:759-765`), so `auto f() -> int` is always reported.
* The type of `new` takes `(...)` as a function declarator and `[n]` as an array
  dimension (`ParseType.cpp:435-443`), so the branches for a size and for
  arguments (`ParseExprCXX.cpp:51`, `:61`) are not reached.
* `parsePrimaryExpression` peeks one token too far (`ParseExpr.cpp:673`, `:722`:
  `peekToken(0)` is the token after `NextTok`), so `(... op pack)` is not read as
  a fold and `auto(x)` is not read as a decay copy.
* An init-capture is a full expression and takes the captures after it as a comma
  expression (`ParseExprCXX.cpp:298`).
* A simple requirement without `;` skips to the next `;` or `}` without a report
  (`ParseExprCXX.cpp:468-478`). `(const int)x` is not read as a cast, as
  `ParseExpr.cpp:346-351` lists no qualifier.
* `CurFunction` is null after a nested function, and bodies of methods never set
  it; nested classes are added to their class twice; what Sema did in an aborted
  tentative parse is not undone.

## 6. Plan

Done: the preprocessor, the AI requests, DenseMap, the marking of queries, the
IR cache, and the parser. Left, in order of what can go wrong for a user of the compiler:

1. The expressions and types of C++ that the parser modules leave out: casts,
   `new`, lambdas, requirements, pointers and arrays.
2. *ResponseCache*: expiry, eviction, save and load between two processes.
3. *Modules*: the import graph, its sort and its cycles against a reference
   definition.
4. The parser on top of the preprocessor (lookahead over the end of a file), and
   *SymbolTable*.
5. *QueryContext* over DependencyGraph, and *ConnectionPool*, once the program
   uses them: today `query` and `invalidate` have no caller, and the pool none
   outside its own files. What an environment may do to them (call `invalidate`
   while a query is computed, `clear` the pool while a handle is in use) would
   have to be invented.

Proofs to come: `ImplementsGrammar`, with the sentence that a call stack stands
for written as a flattened sequence, and one lemma per parse function.

## 7. Not modelled

The parts of the grammar that the parser modules leave out (literals, casts,
qualified names, template parameters and arguments, pointers, references and
arrays, most specifiers, attributes, lambdas, `new`, coroutines, operators as
members, modules, the tentative parse), the semantic rules, AST and IR data structures, serialisation,
code generation, Unicode tables, option parsing and the providers' HTTP
requests: sequential translations of data, better tested than model-checked.
`PROJECT.json` lists them one by one with the reason.

## 8. Running

    tlc -workers 2 -config MCDenseMap.cfg MCDenseMap
    tlapm DenseMapProofs.tla
