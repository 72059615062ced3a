# nind in TLA+

nind is a full-text search engine: files of inverted, local and lexicon indexes
and a BM25 search in C++ (`src/src/cpp`), under a Python layer that builds,
updates and searches indexes from several threads and processes
(`src/src/py/nind`). This directory keeps a TLA+ model of its core: modules
translated from the code, TLC configurations that check them on small instances,
and TLAPS proofs for any values of their constants.

`PROJECT.json` gives, for every definition, the lines it models (`map`); for
every run its properties; for every property a plausible bug that breaks it
(`mutants`); what can go wrong and which property watches it (`hazards`); and
where code and documentation disagree (`findings`). Paths below are relative to
`src/src`.

## 1. The system

### Components, their state and their operations

| Component | State it keeps | Operations | Hard because of |
|---|---|---|---|
| Generations on disk, `IndexStore` and `_FileLock` (`py/nind/_index_store.py`) | one directory per build with its `generation.lock`, the pointer file `CURRENT`, `<prefix>.lock`, the flat files of older versions | `new_generation`, `_publish`, `_collect`, `open_current`, `current_version`, `link_generation` | concurrent processes, crashes and power losses, bounded retries, locks on files that get deleted |
| Search engine, `NindEngine`, `_Snapshot` (`py/nind/nind_engine.py`) | the engine's snapshot and its token, the switch lock, one snapshot per thread and outermost call | `_session` around every public call | threads that notice a build together, nested calls |
| Incremental updates, `IndexUpdate` (same file) | the batch: pending documents, next id, names given and taken back | `add_tokens`, `remove`, `doc_id`, `_commit`, end of the block | stale answers of the published index, sequences of changes to one document |
| Segmented updates, `NindSegmentedUpdate` (`cpp/NindIndex`) | the manifest, the segments, their deleted documents and the counts of their postings | `commit` (mask, write, merge by tiers), `forceMerge`, `getMaxDocIdent` | counts carried from batch to batch, boundaries of the merge policy, termination of its loop |
| Segmented index, `NindSegmentedIndex` (`cpp/NindIndex`) | the parts of one snapshot, shared with the previous one by segment name | `locate`, `getDocuments`, `documentFrequency`, search over segments | documents present in several segments, threads of one search |
| Index files, `NindPadFile`, `NindIndex` (`cpp/NindBasics`, `cpp/NindIndex`) | blocks of indirections chained in the file, definitions, empty areas (in memory), specifics and identification at the end | `setDefinition`, `checkExtendIndirection`, `addEntriesBlock`, bulk mode, reopening; readers that follow a growing file | order of writes against a crash, cutting and merging of areas, readers without lock |
| Term, local and lexicon indexes, retrolexicon (`cpp/NindIndex`, `cpp/NindRetrolexicon`) | definitions of an index file and, for the local one, the map of document ids | `setTermDef`, `setLocalDef`, `addWord` | internal ids taken before what they stand for is written; files paired by an identification |
| Building (`NindIndexBuilder`, `NindIndexer`) | the vocabulary and postings of the documents added; the corpus cut in shards | `addDocuments`, `writeTermIndex`, `writeLocalIndex`, `index_jsonl`, `index_files` | every record in one shard, numbered alike however it is cut |
| Update in place, merge, verification (`NindIndexUpdate`, `NindIndexMerge`, `NindIndexVerify`) | the documents of the update and its vocabulary | `addDocument`, `commit`, `rebuild`, `merge`, `verify` | four files that must go on agreeing, terms in several categories, lexicons renumbered |
| Document names and lengths (`NindDocNames`, `NindDocLengths`) | names by document and documents by name, written once | `write`, `merge`, `getName`, `getDocIdent` | names of documents deleted since |
| Scores and threads (`NindBm25Scorer`, `NindThreadPool`) | the shared threshold of a search, the queue of tasks | `search`, `run` | documents skipped by a threshold other threads raise; threads that wait for one another |
| Codec and buffers (`NindFile`, `NindReadBuffer`, `NindBytes`) | a buffer and its position | variable-length integers, in C++ and in Python | boundaries of widths |
| Amose (`cpp/NindAmose`) | typed lexicons, counters in the specifics | updates and merges of counters | counters kept apart from the definitions they count |
| Lexicon in memory (`cpp/NindLexicon`) | maps of words, a file of them | `addWord`, `getId`, `integrityAndCounts` | the file appended to and read again |
| Tokenizer, bindings, dump tools | none, or local | | |

How they interact. An indexer or an `IndexUpdate` runs inside
`IndexStore.new_generation`: it writes files into a directory nobody reads yet
(an update starts from hard links to the published ones), and publication is one
`rename`. A `NindEngine` calls `open_current` when the token of `CURRENT` is not
that of its snapshot; the snapshot opens the C++ files, which stay valid when the
directory is deleted. So the only state shared by processes is the index
directory, and by threads the engine's snapshot and its lock, and the pools and
thresholds of searches. Inside a generation, `NindSegmentedUpdate` works on whole
segments, each made of index files that are written once, in bulk mode. Outside
of generations, `NindIndexUpdate` changes the four files of one index in place,
and a reader may follow a file that is being appended to.

### What makes each component correct

- *Generations*: what `CURRENT` names is complete whatever fails, dies or loses
  power; a reader opens one whole generation, as new as its call; it never goes
  back, never reports a race as an error, never waits forever.
- *Engine*: a call and those nested in it answer from one snapshot, as new as the
  call; a build is opened once; a thread that fails does not block the others.
- *Segmented updates*: the segments are, to readers, one corpus changed by whole
  batches; a document is live once; document frequencies are exact; merges keep
  the tiers bounded, stay under the limit and end.
- *Updates*: ids given are free; names are unique and their owner is found,
  whatever the batch did before.
- *Index files*: no byte has two uses; the empty areas are exactly the gaps; an
  ident keeps its definition whatever happens to the others and wherever the
  writer dies; bulk mode has the same result; a reader finds what is linked, whole.
- *Index in place*: the lexicon, its inverse, the term index and the local index
  agree after every commit, and searches see what the calls said; the description
  of a block never makes a search skip a document; an open reader never takes a
  document for another.
- *Searches*: however many threads and segments, the answer is that of an
  exhaustive search; the shared threshold is always reached by enough documents;
  nothing runs once a search is over, and searches end.
- *Formats*: what is written is read back, at every width, by C++ and by Python.

The hazards these properties come from are listed with their lines in
`PROJECT.json`, with those no property covers yet.

## 2. Modules

| Module | Models | Composes |
|---|---|---|
| `IndexStore` | writers, readers, crashes and power losses on one index directory | |
| `EngineSession` | threads calling one engine | extends `IndexStore`: its readers are the threads |
| `IndexStore_proofs` | theorems of `IndexStore` and of `EngineSession` | extends `EngineSession` |
| `Corpus` | abstract: documents changed by whole batches | |
| `SegmentedUpdate` | batches, segments, masks, merges | implements `Corpus` |
| `SegmentedUpdate_proofs` | theorems of `SegmentedUpdate` | extends it |
| `DocNames` | files of names, as operators | |
| `UpdateNames` | names and ids inside a batch, and in the segments it makes | extends `DocNames` |
| `UpdateNames_proofs` | theorems of `DocNames` and of `UpdateNames` | extends it |
| `Dictionary` | abstract: one definition per ident | |
| `IndexFile` | blocks, areas, definitions, queue, bulk mode, crash and reopening | implements `Dictionary` |
| `IndexFile_lemmas` | where things are in a file: blocks, definitions, areas | extends `IndexFile` |
| `FileReader` | a reader of a file that is appended to | extends `IndexFile` |
| `IndexFile_proofs` | theorems of `IndexFile` and of `FileReader` | extends `FileReader` and `IndexFile_lemmas` |
| `TermPostings` | definitions of terms: categories, blocks, their descriptions, updates; as operators | |
| `InPlace` | the four files of an index: built, merged, updated in place, verified; a reader of the local one | extends `TermPostings`, implements `Corpus` |
| `IndexOnDisk` | an index on disk, at its levels | extends `FileReader` and `InPlace` |
| `ThreadPool` | a pool of threads | |
| `Search` | searches by several threads, segments and slices | extends `ThreadPool` and `TermPostings` |
| `Search_lemmas` | what the operators of `Search` compute: the best documents, block descriptions, scores, windows, slices; theorems on definitions of terms | extends `Search` |
| `Search_proofs` | theorems of `ThreadPool` and of `Search` | extends `Search_lemmas` |
| `Codec` | integers of the files, in C++ and in Python, as operators | |
| `Codec_proofs` | theorems of `Codec` | extends it |
| `TermBytes` | definitions of terms as fields and packed bits | extends `TermPostings` |
| `Amose` | words and counters of typed terms | extends `TermPostings` |
| `MemoryLexicon` | the lexicon in memory and its file | |
| `Sharding` | a corpus cut for several processes | |
| `MC*` | values and symmetry for TLC; `MCFormats`, `MCSegmentedUpdate`, `MCUpdateNames` and `MCIndexOnDisk` also state, as assumptions that TLC evaluates, what operators must return over bounded inputs | |

Definitions whose comment says *Mutant of* are not part of the model: each is the
form of another definition with a plausible bug, used to show that a property
can fail.

### IndexStore

One action is one system call that another process, a crash or a power loss can
tell from the next. A writer goes through `wpc`: `waiting` for `<prefix>.lock`,
`made` (directory created), `building` (holds `generation.lock`, writes files),
`flushed`, `replaced` (`os.replace` done), `collecting`, `deleting` (one entry of
one old generation at a time, as `rmtree` does), `flattening`; `failing` is the
`except BaseException` of `new_generation`. A reader goes through `rpc`: `stat`
(token), `name` (`CURRENT`), `lockfile`, `wait`, `check`, `index`, `extra`, or
`flat`, `flatextra`; `raised` is its handler. `inode` tells apart the
incarnations of a `generation.lock`: `_FileLock` creates the file again when it
is missing, and a lock on a deleted one excludes nobody. `durable` is what
`CURRENT` would name after a power loss.

Abstractions. A generation's files are two: `index`, without which nothing
opens, and `extra`, whose absence means something else (no deleted document, no
names). The token of `CURRENT` is the generation it was written for: that an
inode, a time and a size are never those of an earlier pointer file is assumed.
The temporary pointer file, which nobody reads, is part of the replacement.
Directory entries are persistent in the order they were made, and deleted files
stay deleted after a power loss. Locks are those of POSIX; processes do not fork
while they hold one. `rmtree(ignore_errors=True)` that fails midway leaves what a
crash leaves (`torn`).

### EngineSession

`_session` line by line, for several threads: the token read, then compared with
the engine's outside the lock, both again under it, `open_current` step by step
(`ReaderStep`), the switch, the snapshot taken, nested calls. `at` is the place
of a thread, `state` the engine's snapshot and its version. `SessionStep` is what
a thread does by itself. A power loss ends the process, hence the engine: it is
left out. Queries only read the snapshot of their call: they are in `Search`.

### SegmentedUpdate and Corpus

An index is a function from places of the manifest to segments; a segment has its
documents, the deleted ones, and the counts of their postings that
`.ninddeletes` keeps. A content is a set of terms, of one category. `Begin`,
`Add`, `AddNew`, `Remove` are the calls on an `IndexUpdate`; `Mask`, `Append`,
`Merge`, `Publish` the steps of `NindSegmentedUpdate::commit` in their order;
`Abandon` an exception or a kill at any of them; `ForceMerge` its own update. The
merge policy (`SegmentsToMerge`) is that of the code: a segment over half deleted
first, then the lowest tier with enough segments that are not full, its smallest
ones within the limit. Segment names are their places. Scores, lengths and the
internal ids of a segment are not modelled here; ids are bounded, so the wrap of
the next id past 2^64-1 is not met.

`Corpus` is what an index promises: a function from ids to contents, changed by
one batch as a whole or not at all. `SegmentedUpdate` maps the view of its
published index to it, and `InPlace` what searches see of an index updated in
place.

### UpdateNames and DocNames

`_owner`, `_set_name`, `add_tokens`, `remove` and what `_commit` makes of the
names. The published index is a function from places of the manifest to segments, as
in `SegmentedUpdate`; each has its documents, the masked ones and its file of names,
from which masked documents never leave before a merge; `IdentOf` is the code's search for a name, segment after segment.
`Draft` is what would be published if the block ended now, merges of any segments
included, and the properties relate `_owner`'s answers to it after every call.
`SegmentedUpdate` says which segments merge when; here any may. The largest
published id (`limit`) may be that of a document removed earlier.

`DocNames` gives `write`, `merge`, `getName` and `getDocIdent` as operators on a
file's arrays. `MCUpdateNames` checks, for every two files that name three
documents and every deleted ones, that a merge is the file `write` makes of what is
left ("the same as write() with all their documents", `cpp/NindIndex/NindDocNames.h`),
or is refused as it is.

### IndexFile, FileReader and Dictionary

`disk` is the file as a sequence of cells; `chain` and `entries` are the blocks
and indirections as the file has them, kept beside it. Every write of the code is
flushed at once, so a dead process leaves a prefix of its writes: each action of
the writer is one write, and what a write over the end is (definition and queue
in one `fwrite`) may be cut in two. A write in place (a definition within its
area, an indirection) and the header with the zeros of a new block are taken as
one write; any cut of the latter leaves a file without its queue, as a cut after
it does. The list of empty areas is that of the code, an ordered sequence, with
its search, its cuts and its merges. `Open` computes it again from the
indirections, as `mapEmptySpaces` does; it counts the head among the empty bytes,
which is harmless as long as no definition fits there: `SizesAssumption` has
`MinSize > HeadBytes` (18 or 19 bytes against 4). One writer (`lockExclusive`).

`FileReader` adds a reader in another process or thread: it walks the chain of
blocks when it opens the file, looks an ident up in its map, and maps the blocks
again when it misses and the file has grown; each of its reads is one `pread`, and
the writer's steps, its death and its reopening come between any two. The writer
only gives idents their first definitions there (`Appends`): the code promises
readers nothing of definitions that are rewritten or erased
(`docs/proposals/thread-safe-readers.md`). `visible` is a ghost, the blocks that
were linked when the file last grew: a lookup must find what was there when it
began and was in such a block.

`Dictionary` is what the file promises: a definition, or none, for each ident; a
crash leaves the operation under way done or not; the file may be refused when it
is opened again (a queue cut in two). No part of the code is that module.

### TermPostings and TermBytes

What a term says is a sequence of categories, each a function from documents to
frequencies. `WriteTermDef` cuts long ones into blocks with their descriptions (first
and last document, largest frequency, impacts); `UpdateTermDef` is the update of a
definition: in place, at the end of its last block, when there is room and only
documents after all of it are added, or the whole written again. `fits` is whether
there is room, which depends on bytes: either way.

`TermBytes` is the same definition as `writeTermDefV2` writes it: differences
between ids, gaps and frequencies packed on as many bits as the block needs, and
the reader's checks, each of which refuses (`{}`). `UnpackBits` has the three
branches of the code, the one that reads a word at a time included. Fields are
numbers: `Codec` says how they are written.

### InPlace

`index` is the four files: the lexicon (words, compound ones by their prefix),
its inverse, the definition of every term and the local index, with the largest
internal id. `update` is a `NindIndexUpdate`: documents added, replaced or
removed, and the vocabulary. `Commit` is the whole of `commit()`: new words, the
terms that documents leave or join, in all of their categories, the local
definitions, lengths or not; or a rebuild, through `Merged`, when the index is v1 or
its lexicon is full. `Merged` is `NindIndexMerge`: the union of the lexicons in
the order the code visits them, terms and documents renamed. `Problems` is
`NindIndexVerify`: the list of what it reports, the frequencies of terms included, which
updates and merges carry on without counting again. A commit is one step, since the
header asks that "nothing may read or write the files during commit()".

`reader` is the map from documents to internal ids of a `NindLocalIndex` that stays
open over commits (`Read`), completed only when it misses a document.

### IndexOnDisk

The bytes of a file, a reader of it, and what four files say are levels of the
same thing. A behaviour moves at one of them (`level`): "bytes" (`IndexFile`),
"reads" (`FileReader`), or "contents" (`InPlace`). They meet in `Dictionary`:
`InPlace` takes files for what it promises, one definition per ident, all of a
commit at its end. They are not run together: every step of a commit is many of
`IndexFile`, and no property needs both.

### ThreadPool and Search

`ThreadPool` is `run`, the loop of the threads and the destructor. What is done under
the mutex is one step; `notify_one` and `notify_all`, which come after the unlock, are
steps of their own, and `notifying` is who is between the two. A notification wakes any
of the sleeping threads.

A scene of `Search` is an index (segments with their lengths, deleted documents
and terms) and what each call asks. `SearchStep` has the caller take segments with
the threads it hired, every segment scanned by slices on its scorer's own pool,
each slice window by window (`ScanWindow`) then document by document
(`ScanDocument`); `theta` is the shared threshold, read when a window starts and
raised after a document that improves the k-th best. `ScanFails` is a read that raises. Scores are integers,
increasing with frequency and decreasing with length: the margins by which the
code makes up for rounding are not needed, and an exact comparison is stricter.

### Codec, Amose, MemoryLexicon, Sharding

Operators, checked over bounded inputs by assumptions of the `MC*` modules.
`Codec` takes bytes of any size: TLC counts in bytes of five bits, the proofs are for
eight. `Amose` has the counters `NindTermAmose` keeps as documents come and go,
those `NindAmoseMerge` counts again, and the words of a typed lexicon.
`MemoryLexicon` has the lexicon that no index uses but the bindings offer.
`Sharding` cuts a file of lines, or a list of files, as `NindIndexer` does.

## 3. Runs

Bounds are constants, named in the modules and set in the `.cfg` files.

| Run | Instance | States | What it shows |
|---|---|---|---|
| `store_safety` | 1 reader, 2 writers, 3 builds, 2 attempts, any start | 2 005 598 | `CURRENT` names a complete index; readers open complete, fresh ones and never go back; they fail only for want of an index, or outpaced by as many builds as they have attempts |
| `session_safety` | 2 threads, 1 writer, 3 builds, 1 attempt, 2 nested calls | 2 812 014 | calls are fresh and answer from one snapshot; one switch per build |
| `session_liveness` | 2 threads, 1 writer, 1 build; or 1 thread, 2 writers, 2 builds; 2 attempts, fairness | 204 314 | every call is answered, whoever holds the switch lock it waits for; every `open_current` ends, its retries too; every waiting writer runs |
| `update_safety` | 6 ids, 2 contents, 2 batches of 2 changes, merge factor 2, limit 5; from no index, one segment, or one per document | 512 409 | one corpus, exact frequencies, one segment per live document, free ids, settled tiers, merges that end; corpora are cut without loss |
| `names_safety` | 3 ids, 2 names and the empty one, 2 segments, 2 batches of 2 changes | 377 577 | names unique over batches and merges, found, freed |
| `file_safety` | bytes: definitions of 2 and 3, 2 blocks of 2 idents, 11 bytes; a reader: 8 bytes; contents: 4 documents, 3 calls, blocks of 2 postings with 1 impact, 2 words per bucket | 210 102 | no byte used twice, empties are the gaps, the file implements `Dictionary`; lookups find whole definitions; the four files agree, blocks bound their documents, open readers are never wrong, an index in place implements `Corpus`; formats read back |
| `search` | 2 calls, up to 4 threads, 2 segments, slices of 2 ids, blocks of 2 postings with 1 impact | 77 472 | the exact best documents, a threshold that is reached, nothing left running, no wake-up lost, searches end |

Each of the five others finds one documented promise broken:

| Run | Broken promise | How |
|---|---|---|
| `store_undone` | a failed build never touches `CURRENT` | the flush of the directory fails (or ^C arrives) after `os.replace`: the handler removes the generation it has just published |
| `store_torn` | one consistent index | a writer dies while it deletes an old generation; a reader that had read its name opens what is left of it, `generation.lock` included, as an index without its optional files |
| `store_flat` | every operation safe, flat indexes opened as they are | flat files are removed by the first generation's writer while a reader opens them without lock |
| `update_ids` | the highest id ever given | a merge drops the removed document of largest id, which `getMaxDocIdent` then forgets: its id is given again |
| `names_nothing` | `doc_id` counts the changes of the update | a document replaced by one without tokens, which will not be stored, keeps its name until the batch ends |

Why the bounds are enough.

- *Store.* Three builds let one be published while a reader opens another whose
  deletion has begun, with an older one still to collect, and let an older writer
  compete with a newer one; two attempts distinguish the last from the others.
- *Sessions.* Two threads are what the double check of `_session` is about, and
  the third build comes while one of them is still opening the second. In
  `session_safety` one attempt makes `open_current` fail as early as it can. For what
  must end there are two, so that the loop of `open_current` goes round, and two casts
  (`MCEngineLiveness`), of whom all together are too many: two threads, one of which
  fails, the generation that `CURRENT` names having gone, while the other waits for the
  switch lock; or two writers that compete for the lock of the index, while a thread
  whose generation is deleted under it tries again.
- *Segments.* Two batches of two changes over six documents reach every step of
  the merge policy: a rewrite of a segment over half deleted, merges in two tiers,
  a tier with a segment left out by the limit, a segment emptied by its masks, ids
  between and above those of the index; documents deleted twice need a second
  batch.
- *Names.* Two names and three documents allow a name to move and come back, and a
  third document to ask for it; two segments and a second batch make a masked
  document's name remain in a file while another one has it.
- *Bytes.* Eleven bytes hold three definitions, and areas that fit, that are too
  large and get cut, and that merge with the one before, after, or both; two blocks
  have one linked while the other is in use. Eight are enough for a reader: a new
  block and the definitions around it.
- *Contents.* Three calls on four documents make a document added, replaced and
  removed, over one or several commits, on no index, on one whose blocks are full
  and on one merged of two shards of which one had a document deleted; a text with a
  word in two categories and a compound word, another whose words come in the other
  order in the other shard. Blocks of two postings fill up, get cut and are appended
  to; one impact is fewer than two postings may need.
- *Searches.* Scenes are in `MCSearch`: one word in every way over four documents,
  another with several lists; a document replaced in another
  segment; a document in two categories; reads that fail; two calls on one pool with
  fewer threads than tasks. Slices of two ids make windows begin, end and skip
  blocks at their boundaries.
- *Formats.* Bytes of five bits are the smallest whose first byte has room for
  the marks of all sizes; values on both sides of each change of size are tried.
  Definitions: bytes of two bits and words of four bytes, so that gaps need more
  bits than the accumulator takes; frequencies of four bits, blocks of three,
  impacts of two, up to five documents. Amose: counters of three bits, sequences of
  three calls on two terms and of four on one. Lexicon in memory: three words of up
  to three components. Corpora: up to five bytes, two or three shards, pieces of
  one or two bytes, any limit; up to six files in up to seven shards.

Deadlock is checked, except where the system may really stop: a file that is
lost or refused, calls used up (`file_safety`), batches used up (`update_*`,
`names_safety`).

Fairness. Weak fairness of what a writer or a reader does by itself once it has
started: a running process goes on. Nobody has to start a call or a build, to
fail or to crash. Waiting for a lock is a step that is not enabled while another
holds it: fairness asks for it only if it stays free, so the models do not assume
that the kernel serves waiters in order. Nor does the switch lock of an engine: a thread
whose opens raise for ever may call again and take it each time, so `CallsAnswered` is
about threads whose fellows stop raising at some point. Builds are bounded, as is the
number of retries: a call of `open_current` ends because its attempts do. In `Search`, some
thread that can go on does (`WF_vars(SearchStep)`): nobody has to begin a search,
a read does not have to fail, a pool does not have to be closed; a thread that has
queued a task goes on to notify. A search terminates because the work it has is finite
and no thread is left asleep before a queue.

## 4. Proofs

`tlapm` checks them, for any values of the constants under the assumptions named
in the modules.

**`IndexStore_proofs`.** `Invariant` proves the inductive invariant `IInv`; the
six state properties, and `NeverGoesBack`, follow. None is inductive by itself:
that a generation is opened whole rests on which incarnation of its lock the
reader and the deletion meet on (`LockInv`), on what each phase of a writer knows
(`WriterInv`: there is one active writer, its generation is newer than `CURRENT`
until it is published and is `CURRENT` after; what it deletes is neither that nor
what a power loss would bring back), on the order in which a reader reads the
token, `CURRENT` and the files (`ReaderInv`), and on what is flushed (`StoreInv`).
`OnlyOutpaced` is about a reader's failures: there is no index, or as many builds
as it has attempts were published since its call began. `OnlyForward` is an action
property, from the same invariant. All theorems assume `NoFailureOncePublished`: no
exception between `os.replace` and the end of `new_generation`'s handler. It is
not a convenience: run `store_undone` is the counterexample without it.

**`SegmentedUpdate_proofs`.** The argument is one of views. When no document is
live in two segments, the view of an index is the union of their live documents
(`ViewOf`); masks take the changed documents out of it (`MaskedView`), the new
segment adds its own (`AppendedIs`), a merge leaves it as it is (`MergedIs`,
whatever segments are chosen, and `SegmentsToMergeIs`: the policy only chooses
existing ones). `IInv` says what the view of the new generation is at each step of
a commit (`Progress`), so that `Publish` publishes the corpus with the whole
batch applied: `Refines` proves `Spec => RefinesCorpus`, `OneSegment` that
documents are live once, `IdIsFree` that ids given are free. `LoopEnds` proves
`MergesShrink`, the argument for the end of commit's loop: what the policy asks
for is one segment with deleted documents (`HasDeleted`, `RewriteShrinks`) or
several segments (`MergeShrinks`). `BuildsAssumption` is what sharded builds
guarantee: each document in one shard (checked of `Sharding`). `CountsAreExact` proves
`FrequenciesExact`: the counts a segment keeps of its dead postings are what its masked
documents have (`Counted`), which a mask keeps, since it counts a document only when it
takes it from the live ones, and a merge, which counts nothing; then the sum over
segments is the number of documents, because a document is live in one
(`CountedIsExact`). `CommitsSettle` proves `TiersSettled` for a `MergeFactor` of two at
least: a commit publishes only what the policy asks nothing more of. The community
modules define `Min` and `Max` by `CHOOSE`: `MinIsLeast` and `MaxIsLargest` prove
what is needed of them.

**`Search_proofs`.** Of a pool first: `NoWakeUpLost`, while a task is queued, some
thread of its pool is awake or a caller has yet to notify one, whoever comes between the
unlock and the notification, and whenever the pool is destroyed. Its invariant adds that
a thread returns only once its pool stops (`ExitedStopped`) and that a pool with a task
has a thread, awake or asleep (`SomeoneLeft`); a notification then wakes one if all
sleep, and none falls asleep before a task. Then of searches:
`SearchesUsePools` proves `Spec => PoolSpec`, that all a search does to the pools is
what a pool is made for (it gives a task to a pool that has a thread for it and has
not stopped, one at a time from each thread), so that `SearchesWake` follows;
`ReturnsAlone` proves that nothing runs for a search that has returned, and that none of
its threads is still in `run`. The invariant behind both says that a task is in one
place (`Once`: a place of its queue, a thread, or what has ended), and who may have
given it. A worker of a search is given once, in the order of `work`, and its task ends
after it (`WorkOf`). A part is taken once, since `next` only grows and `BySize`, which
ranks the parts, is injective (`Taken`): so one worker is at a part, it gives the
slices of it once, in their order, and stays until they have ended (`PartOf`).
`ReturnInv` concludes: a search returns when its workers have ended, and the index goes
when all searches have returned. This first invariant (`SearchInv`) leaves open what a
slice reads, finds or raises, but for the fields the threads go by.

**What a search answers (in `Search_lemmas` and `Search_proofs`).** `AnswersExactly` proves
`TopKExact`: blocks skipped, documents given up, thresholds raised by other threads and
slices merged change nothing to the answer. Two notions carry the argument. A
document is `Outdone` when as many documents of the index as asked for are better than
it, and a threshold is `Attained` when as many documents reach it: what is below an
attained threshold is outdone, and the best of a set from which outdone documents are
missing are the best of all (`BestSame`). The rest is to see that whatever the code
passes is outdone.

- *A description bounds a block.* `BlockDescribed`: the pairs that `buildFrontier` keeps
  bound the frequency and the length of every document of the block, so `BlockBound`
  bounds what the word adds to its score; `InfosAre` carries it to the terms of a query,
  in their order.
- *A window is decided once.* In a window each term has at most one block (`WindowIs`),
  so that the sum of their bounds is over the score of every document in it. Scores are sums over
  the words of the query (`ScoreIs`): the essential terms are added first, the
  others while what is left to add may still reach theta, and a document that is given
  up is under it (`CompletedScore`). `AheadOk` is the step that reads or skips a window,
  `FurtherOk` the one that scores a document and may raise theta.
- *Slices cover a part.* `SlicesCovers`: every document of the essential terms' blocks is
  between the bounds of a slice, and a slice whose window is past its end has passed all
  of its own. `SlicesComplete`: the best documents that the slices kept are those of the part,
  but outdone ones.

`BestInv` puts them together, and is what every step keeps beside `SearchInv`: each slice is
`Sound` (every document it has passed is one of its candidates or outdone); theta is
attained (`ThetaOk`: in any interleaving, since it only takes values that some heap of a
slice reached); a part that has been taken is `Complete`, unless a thread still works on it or
has failed (`FoundOk`); a thread is over only when no part is left, so that an answered
search has taken them all (`NextOk`, `AnswerOk`). TLC checked it on the instance of run
`search` before it was proved. `ThetaIsReached` and `SearchTypesHold` follow. The
assumptions are those of the module: indexes are finite, with numbers for lengths and
frequencies, a word of a document occurs at least once, and a search has at least one
thread. Nothing is assumed of how ids are spread, of deletions, of the order of
words, of the number asked for, nor of what is known of lengths.

**Definitions of terms (in `Search_lemmas`).** `IsDefinition` says of the definition
of a term that it holds some postings and that the descriptions of its blocks are bounds,
for given lengths of documents. `DefinitionReadBack` proves it of a definition written whole,
with `DecodeTermDef` as the inverse of `WriteTermDef`; `UpdateSaysTheChange` that an
update, in place or whole, keeps it, and changes the postings as it was asked to, no more.
Written whole, every block is cut and described again (`WrittenHolds`). In place, the
last block alone is: what was there comes first, in the same order, and the added
documents, which are after all of it, fill it and others (`AppendedCut`); the impacts go
everywhere when one block has none (`SameImpactsDescribe`). What was not looked at again
is right only if its documents kept their lengths: a hypothesis of the theorem for the
definition before the update, which callers have to keep, and what `BlocksHold` checks
of them. `IsDefinition` says nothing of the frequency a category keeps of itself, a sum
over its postings, which `Verified` checks.

**Sessions (in `IndexStore_proofs`).** Every step of a session is a step of `IndexStore` or leaves
the store alone (`SessionIsStore`), so `IndexStore`'s invariant holds here. `SessionInv`
adds what a thread knows at each place of `_session` (`ThreadKnows`): the token it
compared is not older than its call; under the lock, where it compares again, not older
than the engine's snapshot, which nobody else replaces; what `open_current` returns not
older than the token. `CallsAreFresh`, `BuildsOpenedOnce` and `CallsKeepSnapshot` follow,
the last two as action properties. The second comparison is what
`BuildsOpenedOnce` rests on. They assume `NoFailureOncePublished`, as the theorems
they build on.

**`IndexFile_lemmas`, `IndexFile_proofs`.** Two notions carry the argument. `Placed`:
the head, the blocks of the chain and the definitions that the indirections name lie
apart from one another, before a given end. `Gaps`: the list of empty areas is ordered,
no two of its areas touch, and they have exactly the bytes after the head and before the
end that nothing placed has (but those an operation has taken). The lemmas say what each helper of the code does
to them: searching an area and cutting it, freeing one and merging it with its
neighbours, linking a block, writing over the end, and computing the areas again from
the indirections (`ReopenedGaps`), which gives the very list that was kept, since what
is placed has only one list of gaps (`SameGaps`). `IInv` says between which blocks,
definitions and end they hold at each step of an operation: before it has taken
anything (`WholeInv`), when a block replaces the queue (`GrowthInv`), when a
definition is written and its indirection is not (`MoveInv`: the file with the
old indirections and the file with those to come are both placed, which is why a
crash leaves one of the two), in bulk mode (`BulkInv`); with the blocks the ident
needs (`ReachInv`) and the bytes the operation has yet to write (`RoomInv`). `NoOverlap`
and `EmptiesAreGaps` are not inductive: a byte has one use because areas taken were
gaps, which they are because what was placed had one use. `FileIsDictionary`
proves `Spec => RefinesDictionary`. In an operation, linking a block is the dictionary's
`Grow`, the write of an indirection, or of a definition in its place, its `Apply`, and
the other writes are stutters; a crash, a reopening and the steps of bulk mode are its
steps of those names. The assumptions are
`SizesAssumption`: sizes are positive, and no definition is as small as the head (18
bytes at least against 4), without which the head that `mapEmptySpaces` counts as empty
could be given to one.

**Readers (in `IndexFile_proofs`).** `WriterInv`: an appending writer sets an indirection once, to a
definition that is already whole in the file, and nothing it does after, dead and
reopened or not, touches those bytes (`BytesHaveOneUse`'s invariant). `WalkInv` is the
reason a map may be trusted: one that is kept with a size has every block that was
linked before the file grew beyond that size, since the reader reads the size first.
`LookupInv` carries an ident that was there when the lookup began through its reads.
`LookupsAreRight`: in every interleaving of reads with writes, a lookup gives a whole
definition, or none only if the ident was not due.

**`Codec_proofs`.** For bytes of eight bits (`Byte = 256`): what `putUIntLat`,
`putSIntLat` and `putUIntLat64` write is read back by their decoders, which take
exactly those bytes, for every value of the width and whatever follows; Python's
decoders give, on every sequence of bytes, cut short or invalid too, what C++'s
give; and what Python's signed encoder writes, C++ reads. Each number of bytes is
a case (`Sizes`, `FirstByte`, `LatRead`), and each case linear arithmetic.
`IdentifierRecovered` is why identifiers may be written as signed differences of 32
bits, however far apart.

**`UpdateNames_proofs`.** What `write` makes of any names is a file
of them (`WrittenIs`), `getName` and `getDocIdent` answer from one what it was made of
(`GetNameIs`, `GetDocIdentIs`: the binary search is a recursive function, whose steps
are followed by the least length at which it would fail), and `merge` makes the file of what is left
or refuses as the code does (`MergeIs`; `MergeSteps` is one turn of its loop, and
`StepsExist` that the loop is a function). Segments are then a function from documents
to names (`PublishedIs`), of which masks, new segments and merges say what they change
(`MaskedIs`, `WithNewIs`, `MergedIs`). `IInv` is that an index is sound (no document live in two
segments, each file a file of its names), its published names unique, and, in an update,
`EditInv`: `_names` and `_ids_by_name` are inverse of each other but for `None`, a
document with a name is in the batch, one taken out of it is not in the index, and the
published owner of a name given since to another document has been renamed in the
batch too. The last is why `_owner` may trust its two maps before it asks the index:
without it a commit would publish a name twice. `NamesAreUnique`, `HoldersAreFound`,
`NamesAreFreed` and `TypeCorrect` follow.

Only model-checked, and why:

- every liveness property: fairness and `ENABLED` are out of the prover's reach;
- the properties of `InPlace`, and what `TermBytes`, `Amose`, `MemoryLexicon` and
  `Sharding` compute, whose definitions recur over data.

## 5. Not modelled

`PROJECT.json` lists every component with its status. What the models leave out:

- *Index in place.* A crash inside a commit: one writer, no reader, and no promise
  of what is left (`cpp/NindIndex/NindIndexUpdate.h`); the four renames of a rebuild
  are part of it. Beside `ReaderNeverWrong`, a reader that stays open over commits may
  not find a document that has been removed and added again, or that took the
  internal id of a removed one; its callers open the index again.
- *Files.* A reader of definitions that are rewritten or erased: only appended ones
  are promised. A block linked after the growth of the file was noticed is missed
  until the file grows again (`visible`). `setDefinitionParts`, the statistics, the
  growth of specifics.
- *Formats.* Strings, the room left in buffers, the places of blocks in a
  definition; definitions in format v1 only as what they say.
- *Scores.* Their rounding; the caches of directories and of scratch arrays, which
  change no answer; single lookups (`termFrequency`, `documentLength`).
- *Segmented index.* The sharing of segments between snapshots by their names, taken
  for unique (a number and 32 random bits).
- *Amose.* The queries of `NindLocalAmose`, which only read; counters beyond 2^32,
  which wrap, as in the model; and a lemma of one piece added as a `MULTI_TERM`,
  which reads back as a `SIMPLE_TERM`: words are given with the type their pieces
  call for.
- *Lexicon in memory.* A reader whose reads fall between two of the bytes a writer
  is writing; the width of its identifiers; its hashes.
- *Building.* A corpus that changes while processes read it, and what they compute
  of a text.
- *Generations.* Hard links to the published files that an update starts from: what
  it changes in them is taken to be in new files, so that a batch that fails midway
  leaves nothing (`Abandon`); no property checks it (hazard at `py/nind/nind_engine.py:733`). Processes that fork while they hold a lock.

Left out for good: the tokenizer (a function on characters), the bindings (no
state), signals (they put an interrupt off until a write ends; the models' writers
may die anywhere), the dump tools (pure reading), `NindLexiconIndexK` (no
`CMakeLists.txt` builds it), tests and vendored code.

## 6. Plan

Done: the shared directory, the engine and the updates, with the names; the files,
their readers and their contents; searches and their threads; formats; corpora.

What is left, by worth:

1. Theorems: `BlocksHold` and `Verified` of `InPlace`, from `UpdateSaysTheChange`.
2. `LinkedGenerations`: inodes shared with the published generation, the files that
   are replaced and those that are not, composed with the steps of a commit.
3. Several readers of one file, that share a map of its blocks.
