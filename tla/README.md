# TLA+ verification of ipa.c

`ipa.c` compiles a schema of named nodes with example descriptions into a
`.ipa` file and then finds, in natural-language text, the spans ("islands")
that match a node. This directory holds TLA+ models of the parts of it that are
hard to test, the TLC runs that check them, and TLAPS proofs of the properties
that matter most.

```
tlc -config MCNgram.cfg MCNgram        # one run
tlapm NgramProofs.tla                  # the proofs of one module
```

## 1. Inventory

| Part | Source | State | Operations | Used by |
| --- | --- | --- | --- | --- |
| closed-span array | `lib/libngram.c` 188-376 | sorted array of token spans | `kc_ngram_span_is_closed`, `kc_ngram_add_closed_span` | the traversal |
| n-gram traversal | `lib/libngram.c` 402-502 | window size and position, closed spans, emitted count | `kc_ngram_execute`, calls a visitor | the parser, twice (input and matched span) |
| embedding context | `lib/libemb.c` 116-151, 765-1046 | pool mutex and condition, worker mutex, `has_req`, `done`, `shutdown`, request, result | `kc_emb_open`, `kc_emb_exec`, `kc_emb_close`, worker thread | the parser and the compiler |
| inference | `lib/libemb.c` 1-757 | model weights, scratch buffers | `kc_emb_ctx_exec` | the worker thread |
| vector index | `lib/libhnsw.c` | items, capacity, layered graph, entry point, read-write lock | `kc_hnsw_add`, `reserve`, `build`, `search`, `close` | `kc_ipa_open`, the visitor |
| island scan | `src/libipa.c` 1595-1909 | match arrays, the match being built, parent id | `kc_ipa_ngram_visit`, `kc_ipa_scan_children`, `kc_ipa_match_push`, emits | `kc_ipa_parse` |
| parse entry point | `src/libipa.c` 1918-1981 | `schema->lock` | `kc_ipa_parse`, `kc_ipa_result_free` | the command line, any thread of a program |
| schema life cycle | `src/libipa.c` 1271-1330, 1477-1593, `lib/libmmap.c` | mapped file, two indexes, embedding context | `kc_ipa_open`, `kc_ipa_close` | |
| schema compiler | `src/libipa.c` 70-1261 | manifest, string table, output buffer, output file | `kc_ipa_build` | the command line |
| signal registry | `src/libipa.c` 61-66, 1384-1469 | handler array, `g_signal_ctx` | `kc_ipa_on_signal`, `kc_ipa_raise_signal`, `kc_ipa_listen_signal(s)` | programs |
| command line | `src/ipa.c` | none | build mode, parse mode, JSON output | |
| ggml | `lib/ggml` | | vendored tensor library | inference |

How they interact. `kc_ipa_parse` takes `schema->lock` and calls
`kc_ngram_execute` with the visitor `kc_ipa_ngram_visit`. For each window the
visitor calls `kc_emb_exec`, which hands the text to the worker thread and
sleeps until it is done, then asks the node index for the nearest neighbour. A
neighbour at or above the threshold becomes a match, and answering 1 closes the
window, so that no window inside it is visited. If the node has children the
visitor calls `kc_ngram_execute` again on the matched text, with itself as
visitor and the child index.

What is hard here: the worker protocol (two mutexes, three conditions, one set
of flags shared by all callers), shutting it down, concurrent parses; binary
searches over an array that is pruned while it is used; allocation failures in
the middle of a scan and who owns which match then; the crash of a build while
the file is being written; asynchronous signals. `PROJECT.json` lists each
hazard at its line with the properties that watch it.

What makes each part correct:

- closed-span array: it stays sorted, loses no information when it prunes, and
  a query that looks at one element gives the answer a full scan would give;
- traversal: exactly the admitted windows that lie in no island are visited,
  in order, and the call ends;
- embedding context: a call's buffer is written while the call lasts and not
  later, it is filled when the call returns, the status returned is its own,
  and closing ends;
- parser: concurrent parses are serialised and return; every match is owned by
  one array; a child is kept once, with its best window; the result is ordered
  and not nested;
- vector index: results are items of the index, ordered, at most `limit`; the
  heaps and neighbour lists stay within their capacity; to concurrent callers
  each call is atomic and returns, and the ids a search hands out stay valid;
- compiler and file: every embedding and emit has the label of its own node;
  what `kc_ipa_open` accepts is a file a build completed, and it refuses no
  such file without a reason;
- signal registry: at most one handler for each signal, and a signal reaches
  the callback registered for it on a schema that is still open.

## 2. Modules

| Module | Models | Uses |
| --- | --- | --- |
| `SpanArray` | tests and splices on the closed-span array, as operators | |
| `ClosedSpans` | the array as a data type, its calls stepped one loop iteration at a time, any client | `SpanArray` |
| `Windows` | windows of a token sequence, the visiting order, the windows still pending | `SpanArray` |
| `Traversal` | abstract: what `kc_ngram_execute` promises its visitor | `Windows` |
| `Ngram` | `kc_ngram_execute` | extends `ClosedSpans` and `Windows`; implements `Traversal` |
| `EmbPool` | `kc_emb_exec`, the worker thread, `kc_emb_close` | |
| `EmbService` | abstract: one call at a time is answered with its own status | |
| `IpaParse` | `kc_ipa_parse` and `kc_ipa_close` by several threads | extends `EmbPool`; implements `EmbService` |
| `IpaScan` | the scan of one parse: visitor, child scan, match memory, `kc_ipa_result_free` | `Windows` |
| `HnswScore` | scores of the vector index for each metric | |
| `PriorityQueue` | abstract: what the heaps of the index promise | |
| `Heap` | `kc_hnsw_heap_push`, `kc_hnsw_heap_pop` | `HnswScore`; implements `PriorityQueue` |
| `HnswGraph` | `kc_hnsw_build` and `kc_hnsw_search` | `HnswScore`; takes its heaps as priority queues |
| `IndexService` | abstract: a set of items that concurrent callers add to, build and search | |
| `HnswIndex` | items, capacity and read-write lock of the index: `kc_hnsw_reserve`, `add`, `build`, `search`, `close` | implements `IndexService` |
| `IpaBuild` | `kc_ipa_build` up to the finished buffer | |
| `IpaFile` | the write of the file, `kc_ipa_open`, the emit look-ups, `kc_ipa_close`, `libmmap` | extends `IpaBuild` |
| `IpaSignals` | `kc_ipa_on_signal`, the listeners, `kc_ipa_raise_signal`, `kc_ipa_close` | |
| `MC...` | instances for TLC | |
| `...Proofs` | theorems about the module they extend; `NgramProofs` also about `ClosedSpans`, `IpaParseProofs` also about `EmbPool`, `IpaFileProofs` also about `IpaBuild` | |

Operators whose name starts with `Mut` are deliberately wrong variants of the
definition that follows them. They are used nowhere; substituting one must make
the property that `PROJECT.json` names for it fail.

### Closed spans and the traversal

A code array is a sequence, `spans[i]` of the code being `spans[i + 1]`. In
`ClosedSpans` a call begins (`BeginProbe`, `BeginAdd`), iterates its binary
search (`ProbeIterate`, `FindIterate`) and returns (`ProbeReturn`); an insertion
finds its span covered or begins the removal loop (`FindReturn`), goes on with
it or places the span (`PruneOrPlace`), or cannot (`AddFails`). `left` and `right` are the code's variables of that name, and
afterwards `insert_at` and `remove_end`. The history variable `added` records
what was added, so "the answer is right" is a relation between the array and
what happened, not a definition. The array's capacity is left out: growing may
fail at any insertion.

`Ngram` has one action for each branch of `kc_ngram_execute`: the rejected
options, failing tokenisation, no tokens, the two loops (`Narrow`,
`EnterWindow`, `Finish`), the containment query, the visitor's three kinds of
answer and the insertion. Its calls on the array are the steps of `ClosedSpans`,
each conjoined with what the loops do meanwhile. Splitting text into tokens is abstracted to the number
of tokens; the visitor is arbitrary, since the traversal is generic in it.

### The embedding context

Every mutex is a variable holding its owner. Waiting on a condition releases the
mutex and enters the set of sleepers in one step; a signal removes one sleeper,
if any (`Signalled`); a woken thread must take the mutex again; `Spurious` wakes
a sleeper without a signal, as POSIX allows. A critical section in which a
thread neither waits nor can be observed is one step. The request (`w->input`,
`w->out`) is the caller it belongs to, and a status is the caller whose request
it answers; that is all the properties tell apart. `kc_emb_open` creates one
worker, so the loop over the workers is a look at one. The caller's obligation
in `emb.h`, not to close while a call is active, is the guard of `Close`.

### The parser

`IpaParse` puts `schema->lock` around `EmbPool`. A parse asks for any number of
inferences up to `MaxWindows`. `ParseNoBuffer` is the path on which `goto done`
jumps over the initialisation of `ctx`: reading the uninitialised pointer is a
choice between null and not null, and `wild` records who freed through it.

`IpaScan` is one parse seen from inside, from after the lock is taken until
`kc_ipa_result_free`. The windows come as `Traversal` says, at both levels: that
`kc_ngram_execute` does hand them over so is shown by `ImplementsTraversal`, and
is taken from there, not shown again. `rc` is what `kc_ipa_parse` returns, which
does not depend on what the traversal answered. The answer of embedding and search is any node with any score. A match
is identified by the window of its span, or the pair of windows for a child;
`alloc` are the matches whose `id` and `span` are allocated, `strings` those
with allocated emit strings. Emits are not told apart, and a child id that
several nodes use is one id, as in the code.

### The vector index

`HnswGraph` starts after the shuffle of `kc_hnsw_build`, whose outcome is
arbitrary, and ends when one `kc_hnsw_search` has answered. Both functions
share the greedy descent (`Descend`: one pass over the neighbours of the current
node, or the next layer) and `kc_hnsw_search_level` (`Pop`, `Scan`, `Drained`),
as in the code, where the descent is written twice. `building` tells which of
them is running. Vectors have one integer component: the code uses a vector only
through `kc_hnsw_dist`, and on a line there are both equal and different
distances. Rounding is left out. The random level of an item is any layer.
Sorting before linking and before the answer is the choice of a best node among
those left, since the exchange sort puts equal scores in no particular order.
`BuildFails` and `SearchFails` stand for every allocation.

In `HnswGraph` a heap is a set. `Heap` justifies that: stepping the sift loops
on the array, from 0 as in the code, it implements `PriorityQueue`. A slot from
which nothing may be read any more holds `NoNode`, so that a read of it is an
error.

`HnswIndex` is the same index seen from its callers: several threads, the
read-write lock, and the array. A call asks for the lock (`...Call`,
`WriteLock`, `SearchLock`), works under it one early return at a time, and
releases it. `capacity` is the code's field, `allocated` what the array really
has room for; they are two variables because `kc_hnsw_build` changes one and
not the other. An item stands for its copied id and vector, and `live` records
the copies not yet freed. A search compares item after item, so that a writer
let in too early would be seen.

### The schema file

`IpaBuild` is `kc_ipa_build` from the parsed manifest to the buffer: validation,
the two passes that collect labels and meta rows, one embedding at a time, the
rows, the header. The file is a sequence of blocks (header, string table, one
block for each embedding and each row) and an offset is a position in it.
Strings are what their reference resolves to, since the table is only appended
to. `fields` of a manifest stands for the checks of the fields outside the
nodes. `BuildDereferences` is `strlen(NULL)` on the id of a child that has none.

`IpaFile` adds the output (`Create` truncates, `WriteBlock`, `WriteReturns`,
`Flushed`: `fclose` is where the last blocks may be written or lost) and a
process that uses the file: `OpenMap` takes the size, `CheckHeader`, `LoadNode`
and `LoadChild` fill the two indexes, `BindMetas` keeps pointers into the
mapping, and the look-ups of emits for a node or a child count rows in one step
and copy them in the next, while the file may be rebuilt in between. The builder
may die at any moment. A read behind the end of the file ends the reader.

### The signal registry

`IpaSignals` makes every store of `kc_ipa_on_signal` a step, so that a signal
can be dispatched between any two of them. `memmove` copies entry by entry, the
signal before the callback; another order changes which half an interrupting
dispatch sees. `realloc` and the store of its result are
two steps, in between which the array the schema points to is freed (`moved`);
`kc_ipa_close` frees the array in one step and the schema in another. A
dispatch that reads what is freed stops the model in `wild`.
`table` is what the calls that returned have registered: the abstract registry
the array is compared with.

## 3. Runs

| Run | Module, cfg | Checks | Result |
| --- | --- | --- | --- |
| `closed_spans` | `MCClosedSpans` | `SpansTypeOK`, `Sorted`, `ProbeExact`, `KeepsMaximal`, `CallReturns` | pass |
| `ngram` | `MCNgram` | `IslandsKept`, `Termination`, refinement `ImplementsTraversal` | pass |
| `emb_pool` | `MCEmbPool` | `LiveBuffer`, `BufferReady`, `FreedUnused`, `CloseReturns` | pass |
| `ipa_parse` | `MCIpaParse` | `OwnStatus`, `NeverContended`, `ParseReturns`, refinement `ImplementsService` | pass |
| `ipa_scan` | `MCIpaScan` | `Owned`, `BestChild`, `ResultOrdered`, `LeaksOnlyFailedEmits` | pass |
| `heap` | `MCHeap` | `HeapOrdered`, refinement `ImplementsQueue` | pass |
| `hnsw_graph` | `MCHnswGraph` | `InLayers`, `Degrees`, `EntryOnTop`, `LocalOptimum`, `CallsEnd` | pass |
| `hnsw_index` | `MCHnswIndex` | `Owned`, `AnswersStayValid`, `RoomBeforeBuild`, `CallsReturn`, refinement `ImplementsIndex` | pass |
| `ipa_file` | `MCIpaFile` | `RoundTrip`, `OpenSeesBuilt`, `RefusedOnlyFor`, `HarmOnlyDisturbed` | pass |
| `ipa_signals` | `MCIpaSignals` | `Registry`, `CallsStored`, `CallsRegistered` | pass |
| `emb_lost_wakeup` | `MCEmbPool`, `MCEmbLostWakeup.cfg` | `ReadyReturns` | violated |
| `ipa_signal_raise` | `MCIpaSignals`, `MCIpaSignalsRaise.cfg` | `RaisesRegistered` | violated |

Further counterexamples, each a configuration of one of these modules with one
property that a document of the repository states and the code violates on
every such path:

| cfg | Module | Property |
| --- | --- | --- |
| `MCIpaNoBuffer.cfg` | `MCIpaParse` | `FailsCleanly` |
| `MCIpaScanFailure.cfg` | `MCIpaScan` | `FailureReported` |
| `MCHnswOverrun.cfg` | `MCHnswIndex` | `AddStaysInside` |
| `MCIpaSchemaError.cfg` | `MCIpaFile` | `SchemaErrorReported` |
| `MCIpaSignalsRemoving.cfg` | `MCIpaSignals` | `InterruptsSeeRegistered` |
| `MCIpaSignalsGrowing.cfg` | `MCIpaSignals` | `OpenRaisesSafely` |

Of the type invariants only that of `ClosedSpans` is checked by a run, because
it is about the bounds of the binary searches; the others are proved. That the traversal hands over
every window that lies in no island, never one inside an island, and that
islands do not contain each other, is what `Traversal` says and
`ImplementsTraversal` checks; that a heap loses nothing is part of
`ImplementsQueue`.

Bounds.

- `closed_spans`: all ten spans of four tokens, in any order and number of
  calls. The array can hold four spans, so a search takes up to three
  iterations, and an insertion can remove none, some or all of them.
- `ngram`: inputs of 0 to 5 tokens, both options from -1 to 6: every relation
  between the two options, zero, one and the token count. Up to five spans are
  closed at once.
- `emb_pool`: three callers, because one can be served, one be waiting for its
  answer and one be waiting for the worker. The violation needs two.
- `ipa_parse`: two threads, up to two inferences in a parse.
- `ipa_scan`: up to three tokens, windows of one and two, three nodes (two
  children, one shared child, no children), two scores above the threshold. A
  two-token match has three child windows, enough for a child to be found
  twice and replaced.
- `heap`: six nodes with scores 0, 0, 1, 1, 1, 2, in both heap directions and
  under each metric, in an array made for two. Six is the least number at which
  a pop compares two children on the second level of the tree.
- `hnsw_graph`: up to four items at -1, 0 and 1, layers 0 and 1, `M` 1,
  `ef_construction` 2, `ef_search` 1. Lists of layer 1 are pruned at two edges
  and those of layer 0 at three. The brute-force limit is 3 (1024 in the code),
  so that four items are searched through the graph and fewer are not. L2 and
  cosine; on these vectors the inner product is the cosine.

- `hnsw_index`: two threads and three items, in an array that starts with two
  entries (8 in the code), so that the third addition makes it grow; reserving
  one entry and three. A build can come before, between and after the
  additions. With three threads two readers could overlap for ever and starve a
  writer, which the premise `[]<>(readers = {})` of `CallsReturn` allows for;
  that instance is too large for a run.
- `ipa_file`: seven manifests. Two give files of the same size and layout of
  which one has one more emit for the same node, which is what a rebuild under
  a look-up needs; one has two nodes with different numbers of descriptions and
  a child with an emit; the others have a child with an empty id, children
  without an id (with and without descriptions), and a node without a
  description. Any number of builds, deaths and opens, one after the other and
  interleaved.
- `ipa_signals`: one schema, three signals and two callbacks (interchangeable,
  hence the symmetry), in an array that starts with one entry (4 in the code)
  and grows twice. Removing the first of three handlers moves two entries.

Fairness. `ClosedSpans`, `Ngram` and `HnswGraph`: the one thread that runs the
loops goes on (weak fairness), and the visitor returns. `EmbPool` and `IpaParse`: every thread
keeps running and gets a mutex that becomes free again and again (strong
fairness for each thread). POSIX does not promise the second part, but its
implementations provide it, and without it no liveness of lock-based code holds.
`HnswIndex`: a thread that has work to do goes on (weak fairness), and one that
waits for the lock gets it if it is free for it again and again (strong
fairness); readers are let in while writers wait, as glibc does by default.
`IpaFile` and `IpaSignals` state no liveness and assume none.
Nothing is assumed of spurious wakeups. No caller need ever call, parse or
close.

Deadlock checking is off where the system may stop: after a traversal has
returned, after a schema or an index has been closed, after a search has
answered, after freed memory was read. In `ipa_file` the builder and the reader
can always begin again, and deadlock is checked.

### Disagreements between the code and its documentation

- `emb_lost_wakeup`. `emb.h` says `kc_emb_exec` blocks until the result is
  ready. With two callers, the second may post (resetting `done`) after the
  worker has finished the first request and before the first caller has the
  mutex again. The first caller goes back to sleep; the worker's next signal
  wakes one of the two; the other sleeps on although its buffer is filled.
- In the same interleaving the first caller may return the second one's status
  (`OwnStatus` fails on `EmbPool` alone), although `emb.h` says that callers are
  serialised.
- Neither is reachable through `kc_ipa_parse`: `schema->lock` allows one caller
  at a time (`NeverContended`, `OwnStatus` and `ParseReturns` in `ipa_parse`).
- `ipa_signal_raise`. The comment on `kc_ipa_raise_signal` says that it calls
  the registered callback, if any, and `ipa.h` that `kc_ipa_close` releases all
  resources. Closing leaves the schema in `g_signal_ctx` and the OS signals
  wired, so the next signal is looked up in freed memory. The property fails in
  two more ways, which have configurations of their own. A signal between
  `realloc` and the store of its result is looked up in the freed array of an
  open schema (`OpenRaisesSafely`). A signal that interrupts `memmove` finds the
  signal of one handler beside the callback of another
  (`InterruptsSeeRegistered`). `CallsRegistered` shows that a dispatch which no
  removal disturbs and which reads no freed memory does call a registered
  callback, and `CallsStored` that a disturbed one at least calls something that
  was once registered.
- `FailsCleanly`, `FailureReported`. `ipa.h` says `kc_ipa_parse` returns
  `KC_IPA_ERROR` on failure. If the embedding buffer cannot be allocated it
  reads and may free an uninitialised pointer. The -1 of a traversal that
  stopped because memory ran out is dropped, and the matches found so far are
  returned with `KC_IPA_OK`.
- `AddStaysInside`. `hnsw.h` says `kc_hnsw_add` inserts a vector. A build
  installs an array with room for the items there are and keeps the old
  `capacity`, so a `kc_hnsw_add` after it may write beyond the array. `libipa`
  adds only before its one build, and before a build there is always room
  (`RoomBeforeBuild`).
- `SchemaErrorReported`. `ipa.h` says `kc_ipa_build` returns `KC_IPA_EFORMAT` on
  a schema error. A child without an id passes the check of the manifest, which
  looks at top-level nodes only, and ends the process in `strlen(NULL)`, before
  the output is touched.

Other behaviour the models bring out, which the properties state exactly:

- If copying the emits of a match fails half-way, the strings copied so far are
  lost, because `emit_count` is still 0 when the match is freed. It is the only
  leak of a parse (`LeaksOnlyFailedEmits`).
- A truncated or partly written `.ipa` file is never accepted, although a build
  writes in place, ignores the result of `fclose` and may return `KC_IPA_OK`
  for a short file (`OpenSeesBuilt`). A rebuild in place shows through the
  mapping of a running process and can kill it, or make it copy more emits than
  it has counted. The documents promise nothing of a file that is rebuilt while
  it is open, so this is delimited and not reported: only a reader under whose
  mapping a build truncated the file comes to harm (`HarmOnlyDisturbed`).
- A child with an empty id and a description is compiled
  into a file that `kc_ipa_open` refuses (`RefusedOnlyFor`). An emit with an
  empty key is compiled and never used (`RoundTrip`); children of children are
  read and dropped.

## 4. Proofs

All are for every value of the constants: any set of spans, any number of
threads, items, signals or windows, any scores. The assumptions are the named
`ASSUME`s of the modules, for instance: spans are pairs of naturals with
`start <= end`; the worker and `NoThread` are no callers; scores and vectors
are integers; the sizes the code takes as parameters are natural numbers, and
positive where the code sets them so. In each module one inductive invariant
carries all theorems; the properties alone are not inductive, and what follows
says what had to be added.

- `NgramProofs`, first about `ClosedSpans`: `SpansTypeCorrect`, `AlwaysSorted`,
  `ProbeIsExact`, `ArrayIsMaximal`. The inductive invariant `SpansInv` adds to
  the type and to `Sorted` what the loops maintain: everything left of `left` is
  on one side of the searched span and everything from `right` on is on the
  other; in the removal loop everything in `insert_at .. remove_end - 1` is
  inside the new span; and everything added so far lies inside some span of the
  array. That one element decides a query follows from sortedness by both
  bounds: the last span that starts at or before the argument is also the one
  that ends last among those.
- `NgramProofs`, about the traversal: `TypeCorrect`, `IslandsAreKept`, and
  `TraversalKept`, the refinement of `Traversal`. Every step is a step of
  `ClosedSpans` or leaves the array alone (`SpansStep`), so `SpansInv` holds
  here too. `NgramInv` adds which call is in progress at each place and that it
  is about the current window (`CallInv`), that the loops stay on admitted
  windows (`LoopInv`), that every admitted window left behind was handed over
  or lies in an island (`Swept`) and nothing else was handed over
  (`HandedOver`), that `emitted` is the number of windows handed over
  (`Counted`), and that no island lies inside another one (`Apart`). A window
  reaches the visitor only after a negative answer, which `ProbeIsExact` turns
  into "inside no island"; with `Swept` it is the first of the pending windows.
- `IpaParseProofs`, first about `EmbPool`: `EmbTypeCorrect`, `BuffersAreLive`,
  `BuffersAreReady`, `ClosedIsUnused`. `EmbInv` says which thread holds each
  mutex at each place, that only waiting threads sleep, that a posted request
  belongs to a caller that waits for it, that a waiting caller's request is
  either the posted one or carried out, and that after `Close` no caller is
  inside.
- `IpaParseProofs`, about parses: `ParseTypeCorrect`, `StatusIsOwn`,
  `LockPreventsContention`, and `ImplementsEmbService`: the safety part of the
  refinement, with the mapping of `IpaParse` (the one caller inside
  `kc_emb_exec`, and how far its request is). The invariant adds that only the
  holder of `schema->lock` is inside the embedding context.
- `IpaScanProofs`. `TypeCorrect`, `MatchesAreOwned`, `ChildrenAreBest`,
  `ResultIsOrdered`, `OnlyFailedEmitsLeak`. `ScanInv` adds that a match is built for the first
  pending window (`Visitor`), that every window visited comes before every one
  pending (`Swept`), that the spans of the matches are islands (`Spans`), that
  the children kept were accepted, each in a window of its own (`Kids`), and
  that no child has emit strings while children are looked for (`Strings`).
  That a set of windows has a first one is the only place that needs
  well-foundedness.
- `HeapProofs`. `TypeCorrect`, `HeapIsOrdered`, and `HeapIsQueue`, the
  refinement of `PriorityQueue`. `HeapInv` adds to `HeapOrdered` where the hole
  of a call is and that no node is in the heap twice. `Priority` compares two
  ways; the proofs replace it by a rank (`Ranks`), so that the order is
  arithmetic. The root comes first because among the slots that came before it
  the least one would have a parent that does too.
- `HnswGraphProofs`. `TypeCorrect`, `AccessesInLayers`, `DegreesBounded`,
  `EntryIsOnTop`, `AnswerIsLocalOptimum`. `GraphInv` says that every list is
  good (`GoodEdges`), how far the build is and what the entry point is compared
  with (`BuildInv`, `EntryInv`), that everything the search holds lies on its
  layer (`PlaceInv`), that nothing leads to the item being inserted on the
  layers still to be linked, so that it is never joined with itself (`SelfInv`),
  that the search of a layer has expanded what it keeps or still has it as a
  candidate and dropped nothing better (`SearchInv`), and that a first answer
  which is not accepted is followed by none that is (`AnswerInv`). That
  `Nearest` is defined rests on the existence of a greatest element among
  finitely many integers (`GreatestExists`), by the least counterexample.
- `HnswIndexProofs`. `TypeCorrect`, `ItemsAreOwned`, `AnswersAreValid`,
  `RoomUntilBuild`, and `IndexIsService`, the refinement of `IndexService`.
  `IndexInv` says who is inside the lock (`Locking`), what each thread has
  copied at each place, what the array has room for, and where every item is.
- `IpaSignalsProofs`. `TypeCorrect`, `RegistryIsRight`,
  `DispatchCallsRegistered`, `DispatchCallsStored`. While an entry is removed one place
  of the array is a hole; `SigInv` says that all other entries in use are as
  registered, what the call under way has stored so far, and where a dispatch
  is: for what it has passed, which callbacks its signal had meanwhile, and
  that the entry it has chosen, also when removals have left it behind the
  entries in use, has a callback (`StoredInv`).
- `IpaFileProofs`. `TypeCorrect`, `FileRoundTrip`, `OpenedIsWhole`,
  `RefusalsJustified`, `UndisturbedUnharmed`, for every set of manifests; a
  manifest is only assumed to be made of sequences (`ManifestsAssumption`). What
  the compiler collects are sequences flattened over the nodes and children.
  The library's induction theorems cannot be used on them, so the facts needed
  (the partial results exist, two sequences flattened in step stay in step, an
  element of the whole comes from one part) are proved by the least
  counterexample. The file of a manifest is then a layout: which block stands
  at which position. `IInv` says that the buffer is that layout as far as the
  build has come (`BuildInv`), that the file on disk is a prefix of the layout
  of one valid manifest, its header perhaps not filled in (`DiskInv`), and that
  a reader that was not disturbed still has the blocks it mapped, has loaded
  exactly those before its position, and stopped only for a reason
  `RefusedOnlyFor` gives (`ReaderInv`). A header that passes the check is the
  filled-in one, and its size is that of the whole file: a shorter prefix is
  refused.

Only model-checked is liveness: `CallReturns`, `Termination`, `CloseReturns`,
`ParseReturns`, `CallsReturn`, `CallsEnd` and the fairness part of
`ImplementsService`; the prover does not treat fairness. The violated
properties are counterexamples, which TLC finds.

## 5. Not modelled

- Inference and ggml: floating-point computation, and ggml is a vendored
  library that makes up all but a few thousand lines of the repository.
- The JSON parser and the printing of results: data, not control. A parse error
  is a build that fails before it touches the output.
- The command line: sequential I/O around the library calls.
- The branches for Windows.
- Of the file: two builders of one file at once, blocks written in part (a
  prefix of a block is a shorter file to `kc_ipa_open`), writes that a power
  failure reorders, and sizes beyond 32 bits.
- Of the index: overflow of a doubled capacity.
- Of the registry: callbacks that register or remove handlers, and two threads
  registering at once, which nothing in the code makes safe.

In `Ngram` windows come in order of descending size, so no window the visitor
closes contains an earlier one (`IslandsKept`): the redundancy and pruning
branches of `kc_ngram_add_closed_span` are exercised by `closed_spans`, where
any client may call it.

## 6. Plan

1. Done: closed spans, traversal, embedding context, concurrent parses, island
   scan, graph and heaps of the vector index; first theorems.
2. Done: `HnswIndex` with `IndexService`, `IpaBuild` and `IpaFile`,
   `IpaSignals`; the memory of emits in `IpaScan`.
3. Done: proofs for `HnswIndex`, `IpaSignals`, `IpaScan`, `Heap` and
   `HnswGraph`, all safety properties and refinements of those runs.
4. Done: proofs for `Ngram` and `IpaFile`. Every invariant, action property and
   refinement that a passing run checks is now a theorem, but for fairness.
