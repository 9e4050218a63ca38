# MIQS in TLA+

MIQS indexes the metadata (attributes) of HDF5 files. Every MPI rank walks a
directory, takes its share of the files, puts their attributes into an
in-memory index, writes the index to disk, and loads the files of the other
ranks. Afterwards it answers exact searches: attribute name and value to a
list of `<file, object>` pairs.

This directory holds TLA+ models of that system, TLC configurations that check
them on small instances, and proofs checked by TLAPS. Paths below are relative
to the root of the repository (`src/...`).

## 1. Inventory

| Part | State | Operations | Hard behaviour |
|---|---|---|---|
| Thread pool, `src/utils/thread/thpool.c` | job queue, binary semaphore, two counters, two process-wide flags | init, add_work, wait, pause, resume, destroy; `thread_do` | collapsed semaphore posts, unlocked reads of counters, asynchronous pause signal, freeing under the feet of workers |
| In-memory index, `src/index/in_mem_index.c` | per shard: read-write lock, name tree, two path lists; per name a leaf with a number tree and a string tree | `create_in_mem_index_for_attr` | search-then-insert from several threads; postings that hold positions instead of paths; one name with several types |
| Exact search, `src/miqs_querying.c` | result array | `exact_metadata_search` | a walk over lists that writers extend |
| MDB file, `src/index/on_disk_index.c`, `src/index/storage` | a sequence of typed binary fields | dump, load, merge | a process that dies during the dump; a second file loaded into an index in use |
| Append-only file, same files | a sequence of records | `write_aof`, `load_aof` | lost buffers, torn records |
| Directory walk, `src/utils/fs`, `src/miqs_indexing.c` | recursion stack, file counter | `collect_dir`, `parse_single_hdf5_file` | ranks that divide the files without talking to each other |
| HDF5 extractor, `src/metadata`, `src/h52index` | anchor with current paths, object being built | `op_func`, `attr_info`, callbacks | order of callbacks, state left over from the file before |
| Driver, `src/miqs_indexing.c` | configuration, loaded files | collect, recover | own file skipped, results of two recoveries combined (not modelled, see 5) |
| Sequential containers, `src/index/libhl`, `src/index/art` | linked list, red-black and AVL tree, adaptive radix tree, skip list, trie, sparse array, heap and priority queue, ring and growing byte buffer | insert, find, remove, walk, sort | balance and order, compressed paths, cached cursors, wrap-around, growth |
| Hash table, `src/index/libhl/hashtable.c` | buckets with locks, a status word, a list of all buckets | set, get, delete, conditional forms, foreach, clear; growth | calls that look for their bucket while the table grows |
| Ring queue, `src/index/libhl/rqueue.c` | a ring of pages and one page outside it | read, write, both modes | a reader that swaps pages while writers claim them |
| Index interface, `src/index/spi` | a container chosen by an environment variable | create, insert, search, affix and range search | agreement between the containers |

`PROJECT.json` lists every part with its status, and every hazard with its line
and the properties that cover it.

## 2. Modules

Each module stands for the code it names; a definition has the name of the
function it translates. An operator named `..._Something` and commented
*Variant* is a wrong version of the definition that follows it. It is used to
see that a property fails when the code is wrong, and is part of no
specification.

| Module | Models |
|---|---|
| `ThreadPool` | the whole of thpool.c: workers, clients, signals |
| `PathList` | the path lists: tagged entries with recorded positions |
| `IndexData` | leaves of the name tree, keys and their comparators |
| `InMemIndex` | `create_in_mem_index_for_attr` and `exact_metadata_search` with the locks |
| `AttrIndex` | what the index promises: an abstract map that `InMemIndex` implements |
| `BinFile` | typed fields of a binary file, and what a reader gets from a torn one |
| `MdbFile` | writer and loader of the MDB format, as operators on an index |
| `MdbStore` | processes that index, dump, die, restart, recover and merge |
| `AofFile` | writer and loader of the append-only file |
| `HdfScan` | walk, division of files, extractor, callbacks, logging, death, reload |
| `Dictionary` | what the maps promise: a finite map from keys to values |
| `BinaryTree` | search, neighbours, rotations and walks that the two balanced trees share |
| `RbTree`, `AvlTree`, `Art`, `SkipList`, `Trie`, `SparseArray` | the maps |
| `LinkList`, `RBuf`, `FBuf`, `PQueue` | the linked list, the two byte buffers, the heap with the priority queue |
| `Spi` | the string and number indexes on top of the maps |
| `Containers`, `ContainerMaps`, `ContainerSeqs` | a container that is called beside the value it stands for |
| `HashTable` | the hash table with its threads |
| `RQueue` | the ring queue with its readers and writers |
| `MC...` | the constants of the small instances |
| `ThreadPoolSteps`, `ThreadPoolProofs` | the proofs about `ThreadPool` |
| `InMemIndexLocks`, `InMemIndexProofs` | the proofs about `InMemIndex` |
| `HashTableSteps`, `Lists`, `Places`, `Proofs` | the proofs about `HashTable`, one layer each |

How they fit: `HdfScan` produces the calls that `InMemIndex` receives.
`MdbStore` takes over the index after the scan; its `Put` is the sequential
effect of `create_in_mem_index_for_attr` on the same leaves (`IndexData`) and
lists (`PathList`). Both files are sequences of `BinFile` fields. No program of
the repository uses the thread pool, so it is a module by itself. `InMemIndex`
takes the containers for their values; the container modules are about whether
they are. `Spi` is built on the modules of the containers it chooses from.

### ThreadPool

A worker's step is one critical section or one read of a shared flag of
`thread_do`. A mutex that is held over several steps is a variable, one that
covers a single step is implicit. `has_jobs` is the binary semaphore. SIGUSR1
is a `pending` bit that any later step may deliver; `held` is a thread spinning
in `thread_hold`. A client is a thread of the application that makes one call
after the other. `thpool_destroy` requires that nobody else uses the pool.
Condition variables may wake up spuriously. The two file-static flags are
global, so that several pools influence each other as they do in the code.

### InMemIndex

One step is one call into a container (`art_search`, `rbt_find`, `rbt_add`,
`list_...`). Without the lock two threads would meet between a search and the
insertion it decides on. Containers are their values: the name tree is a
function, a path list a sequence, a number tree a function from keys. A key
carries its size, because the comparators look at it. Doubles are counted in
halves, so that the comparator, which cuts off the fraction of a difference,
has something to cut off. Integers are close enough for their difference not to
overflow (`IndexAssumption`). Where the code reads an array through a pointer
of another type the key is any value. A search that finds nothing dereferences
NULL: the variable `crashed` ends all activity.

### BinFile, MdbFile, MdbStore

A file is a sequence of fields with a type and a value. A process that dies
while writing leaves a prefix whose last field may be cut: the reader, which
reads into zeroed memory and ignores the count, gets a smaller number or a
shortened string. Loading is a fold over the regions with a cursor; `dead` says
that the loader dereferenced NULL. Ranks share nothing but files, and the
barrier keeps readers from files being written. Therefore one process at a
time runs in the model, as any rank, any number of times. Within a process
indexing and dumping come before loading, as in `indexing_data_collection`.

### AofFile, HdfScan

A rank is in the walk, at an object or at an attribute. The stack of
`collect_dir` is explicit, the callbacks of the HDF5 library are steps. The
index is reduced to the sequence of calls it receives, and to its list of
object paths, because a NULL path there ends the process at the next lookup. A
rank may be killed at any step. Its append-only file then keeps any prefix,
since nothing flushes the stdio buffers. String values are logged as the bytes
of a pointer (`PtrStr`); the paths that `load_aof` leaves uninitialised are
`Garbage`.

### Containers

A tree is a record with its subtrees, a list a sequence, a radix node its kind,
its partial path and its children; the operations are functions on these
values. `ContainerMaps` and `ContainerSeqs` choose one container per behaviour
and make every call on it (`s`) and on the dictionary, sequence or set it
stands for (`ref`); `ret` and `out` are what the two returned. The coin of the
skip list, the bytes a search reads past the end of a key, and the answers of
callbacks are choices. The skip list is modelled down to the pointers of its
wrappers, because its layers can come to share a chain.

The operators do what the code does for all arguments. Where that is not what a
header promises, `ContainerMaps` and `ContainerSeqs` do not make the call, or
say nothing of the container from there on; the comments there name each case.
These are the cases, none of which is covered by a property:

* Red-black tree: `rbt_add` returns before the size is counted when the parent
  is black, so `rbt_size` is not the number of nodes (`rbtree.h:177`).
* AVL tree: when `avlt_add` finds the key between a node and its parent, it puts
  the new node above a subtree that can have keys on both sides, or hold the key
  already (`Splits`). The order of the sorted walk (`avltree.h:94`) is lost
  then, and the key is in the tree twice. A key that is found is refused with
  -1 and keeps its value, where `avltree.h:47` promises an update and 1.
  `WalksExact` counts until the first split; `AvlBalanced` is about all trees.
* Skip list: a key below all others is put at the tail, where lookups do not
  find it. Where `path[i]` is a wrapper of a higher layer, the new wrapper gets
  into that layer's chain, and `tqh_last` of its own layer stays behind; when
  the item it points into is freed, the next insertion at the tail writes to
  freed memory (`wild`). Five calls are enough: insert 1, 2 and 3, the latter in
  two layers, remove 2 and insert it again. `LookupsAgree` and `WalksExact` say
  that shared chains do no harm before that.
* Trie: `trie_remove` takes the longer keys that begin with the key along
  (`trie.h:131`), and `trie_find_or_insert` inserts nothing where there is a
  node without a value (`trie.h:57`). A prefix walk reports a key equal to the
  prefix twice.
* String indexes: a key and its reverse share one trie, and a key is stored with
  the address of a parameter until its reverse is, so the values that a search
  for a suffix or an infix finds can be dangling. The radix tree index does not
  reverse suffixes and finds no infixes. The `tsearch` index of numbers keeps
  nothing, because it changes only its own copy of the root.
* Linked list: `list_set_tagged_value` releases a new value after pushing it,
  because the push returns 0 for success (`linklist.h:378`).
  `slice_foreach_value` shortens the slice when a callback removes an item that
  was also counted as visited, and stops early. An entry inserted in the middle
  does not learn which list it is in; a quicksort that has to move such an entry
  dereferences NULL (`down`). `list_swap_values` of a missing position moves a
  third entry or dereferences NULL.
* Ring buffer: `rbuf_skip` and `rbuf_read_until` do not look at how much is
  stored, and go on with bytes that were read before (`rbuf.h:104`).
* Growing buffer: `fbuf_remove`, `fbuf_trim` and `fbuf_rtrim` of a buffer that
  was never extended write the terminator through NULL (`fbuf.c:653`, `:672`,
  `:686`), and `fbuf_nprintf` whose text is longer than its maximum writes it
  behind the end (`fbuf.c:492`); both set `wild`. `fbuf_extend` refuses a length
  above the preferred maximum, which `fbuf.h:114` says it exceeds once.
* Priority queue: the item dropped from a full queue or pulled at the low end
  need not be the lowest (`pqueue.h:58`, `:78`); `pqueue_remove` compares
  pointers that never agree and removes nothing (`pqueue.h:118`).

### HashTable

A step is one section between two accesses to the status word or to a lock. A
bucket is found with the size read before the status is taken
(`get_list_index`, `set_list_index`). A growth in between makes the index that
of another bucket, and a growth between the publication of a new list and its
registration does not see the list. `overtaken` records that one of the two
happened, and `Placed` and the second part of `AllReachable` are about the
other behaviours: the item of an overtaken thread is where no lookup goes, in a
table that `hashtable.h:5` calls thread-safe. `ht_unset` leaves an item without a value behind, and a later set of the
key adds a second one. Iterations remove items without counting them
(`uncounted`), so that `ht_count` is the number of stored items
(`hashtable.h:296`) only until one has. A list is named by the number of growths and clears before it
was made and its bucket, so that a list and its successor in the same bucket
are told apart. The hash of a key is a constant function; tables start with
one of `Presets`, each key in a bucket of its own, as sets leave them.

### RQueue

A step is one access to what the other side changes; accesses to what the lock
in hand protects belong to the step. `log` is history: values accepted and
taken in their order, values freed, and `stale`: a writer acted on a page that
a reader had swapped out since the writer read it. The code does not exclude
that. In blocking mode `next_page` is read before the swap and used after it:
the tail moves to the page that is taken out, and a value is overwritten. In
overwrite mode `head` is read before `read_sync` is taken: the ring gets a
second flag. The properties are about all behaviours in which this does not
happen. `RQueueAssumption` asks for a size above 1: with size 1, a ring of
two pages, overwriting lets a reader take a page that is claimed and not
yet filled, and the value is skipped.

## 3. Runs

Properties are stated and explained in the modules. `pass` means that TLC
explored every state of the instance without an error; `violation` that it
found the behaviour described, which contradicts the quoted comment
(`findings` in `PROJECT.json`).

| Run | Instance | Shows |
|---|---|---|
| `threadpool_safety` | 1 pool, 2 workers, 2 clients, 2 jobs, all calls | no job lost or run twice, no lost wakeup, `thpool_wait` covers earlier jobs, destroy waits for the loops |
| `threadpool_live` | 2 workers, 1 client, 3 jobs, fair | jobs of a live pool are run, wait and destroy return |
| `threadpool_two_waiters` (violation) | 1 worker, 2 clients | of two waiting threads only one is signalled |
| `index_integers` | 3 threads, 4 calls, 2 shards, attributes that share names, values, paths | paths are numbered, positions are stable, a search sees one state, `AttrIndex` is implemented |
| `index_mixed` | 2 threads, 3 calls, one name with every type, fair | types are kept, postings stay in range, calls end |
| `mdb_store` | 2 ranks, 3 attributes, 2 dumps, 1 of them torn, 2 loads per process | complete files are restored, torn ones invent nothing, merged ones serve their names |
| `mdb_parallel` (violation) | 2 shards | the file of an index with two shards cannot be loaded |
| `hdf_scan` | 2 ranks, 3 datasets of 2 or 3 files, fair | files are divided once, every specified attribute is put once, the log is a faithful prefix, ranks finish |
| `hdf_scan_object` (violation) | the same | attributes are filed under the object visited before |
| `containers` | 10 containers and the indexes over five of them, up to 9 keys or 4 entries | for the calls on which headers and code agree (section 2), they answer and walk like what they stand for, count their entries, stay balanced, ordered, without useless nodes and within their memory |
| `hash_table` | 2 threads, 2 calls each, 3 keys, tables of 2 and 4 buckets, deadlock checked | no list is used after it is freed, every list is registered once, and, unless a growth overtook a thread, is in the table with its items where lookups look; nobody waits forever |
| `ring_queue` | 1 reader, 2 writers, 3 pages and the reader page, 4 writes, 3 reads, both modes | one circle with one flag, values come out in order, none is lost or read after it was freed |

More disagreements with comments are visible in the models without a run of
their own. Those of the containers are listed in section 2; the others:

* `thpool_destroy` (`thpool.c:238`) frees the pool when the last worker has
  decremented `num_threads_alive`, before that worker has unlocked
  `thcount_lock` inside the pool; `DestroyAfterLoops` states what does hold.
* `libhl_cmp_keys_double` (`comparators.h:58`) returns the difference of two
  doubles as an integer: values less than one apart share a node, and a search
  for one returns the objects of the other.
* In `create_in_mem_index_for_attr` (`in_mem_index.c:119`) the string case of a
  switch falls through: the leaf of a new string attribute is filled and never
  inserted into the name tree (`private` in the model).

### Bounds

* Thread pool: two workers are needed for a worker that takes the semaphore
  while another one is between pull and repost; a third job makes several posts
  collapse into one. Two clients cover a wait that races with an add, and a
  pause that races with a resume.
* Index: two names in one shard and one in another make threads that exclude
  each other and threads that do not. With three threads a writer, a reader and
  a second writer overlap. Attributes have up to two values, equal or
  different, so that a node is created once and used twice within one call.
* Store: three puts fill two names, one of them with numbers and strings. Two
  loads are a recovery followed by a merge. One torn dump is enough, because
  each dump replaces the file. The file is cut after every field and inside
  every field. `StoreAssumption` keeps counts below 256, so that a cut number
  keeps its value or becomes zero.
* Scan: the datasets have a subdirectory between files, a root group with
  attributes, an attribute of unknown type and one of several values, and a
  directory cut by `topk`.
* Containers: the keys of the radix tree include one that is a prefix of five
  others, a byte above 127, and paths longer than what a node stores; capacities
  of nodes are scaled down so that every kind of node is grown into and shrunk
  from. Seven keys reach every repair of both trees. Four keys in the layers of a
  skip list make chains that are shared, and a last cell that is freed. A sparse
  array is filled beyond its largest size (5) and one has none. Lists of four entries have
  a middle that is neither end nor neighbour of one. Buffers of three bytes wrap
  around with every combination of offsets; the limits of the growing buffer
  are scaled so that fast growth, slow growth and the maximum are all met.
* Hash table: the keys collide in the small table and are apart in the large
  one, and initial contents just below the load that makes it grow let one call
  of each thread trigger a growth beside any call of the other.
* Ring queue: three pages are the smallest ring that can be full, be
  overwritten and have a page between head and tail; two retries let each loop
  be repeated and given up.

`CHECK_DEADLOCK FALSE` is used where the program ends: calls, jobs, files and
attributes are finite, and a process may be killed. The hash table has an
explicit end instead, so that threads waiting for each other would be found.

### Fairness

* Thread pool: weak fairness of every thread and of signal delivery is the
  scheduler of the kernel. Strong fairness for steps that take a mutex says
  that a thread that finds a mutex free again and again gets it one day; it is
  needed because spurious wakeups may take the mutex infinitely often. Nothing
  is assumed about when the application makes calls.
* Index: weak fairness of a thread inside a call. The calls of an instance are
  finite in number, so that the lock is free for good at last and starvation of
  writers does not arise.
* Scan: weak fairness of a rank. Being killed is never forced.

## 4. Proofs

TLC looks at small instances; the theorems hold for all values of the
constants under the assumptions of their module.

### ThreadPool

`PoolAssumption`: workers are finitely many and belong to pools, and the
special values are not among the things they stand for.

| Theorem (`ThreadPoolProofs`) | Statement |
|---|---|
| `TypeCorrect` | `Spec => []TypeOK`; the counters never become negative |
| `DestroySafe` | `Spec => []DestroyAfterLoops` |
| `RunsOnce` | `Spec => []JobsRunAtMostOnce` |
| `JobsKept` | `Spec => []NoJobLost` |
| `WakeupsKept` | `Spec => []NoLostWakeup` |
| `WaitIsComplete` | `Spec => WaitCoversEarlierJobs` |

None of the properties is inductive. The invariant is built in layers, each of
which is preserved by every step if the layers below hold:

1. `Typed` (`ThreadPoolSteps`): types; a client in a call
   has a pool; sleeping clients are those on the condition variable; threads of
   a pool that is not created do not run.
2. `CountersOK` (`ThreadPoolSteps`): `num_threads_working` is the number of
   threads between the increment and the decrement, `num_threads_alive` the
   number between register and exit. A thread that decrements is one of those
   counted, so the counters stay natural numbers. `CountersSay` turns this into
   what the callers rely on: a zero that is read means that no thread is there.
3. `CallInv`, `StageInv` (`ThreadPoolSteps`): which call a pool can be in at
   each stage of its life; a freed pool has no thread in its loop.
4. `JobInv` (`ThreadPoolProofs`): every job is in exactly one place, with the
   client that adds it, at one position of one queue, in the hands of one
   worker, or run.
5. `WakeInv`, `WaitInv` (`ThreadPoolProofs`): the semaphore is up or a worker
   is on its way while jobs are queued; a client that found the queue empty is
   owed only jobs that were run or are in the hands of a counted worker.

### InMemIndex

`IndexAssumption`: a name has a shard, `NoThread` is no thread, and attributes
and searches have the fields of their C structures. Threads, shards, names,
attributes and the number of calls are arbitrary. `IntAssumption` (no difference
of two values overflows) belongs to the model and is used by no proof.

| Theorem (`InMemIndexProofs`) | Statement |
|---|---|
| `IndexTypeCorrect` | `Spec => []TypeOK` |
| `PathsAreNumbered` | `Spec => []PathsNumbered` |
| `PositionsAreStable` | `Spec => PositionsStable` |
| `SearchesUndisturbed` | `Spec => SearchUndisturbed` |
| `PostingsStayInRange` | `Spec => []PostingsInRange` |

1. `Typed` and `ListsNumbered` (`InMemIndexLocks`): types, a thread in a call
   has the argument of that call, every path list is numbered. The lemmas
   `TagInserted` and `TagPosition` say what `insert_tagged_value` does to a list:
   it keeps the numbering, moves nothing and returns a position of the result.
2. `LockInv` (`InMemIndexLocks`): a writer past `pthread_rwlock_wrlock` is alone
   in its shard, a reader past `rdlock` meets no writer.
3. `ListStep` and `TreeStep` (`InMemIndexProofs`): what one step may do to the
   path lists (extend them) and to the name tree (change the leaf of its own
   name, as a writer). With `LockInv` this gives `SearchesUndisturbed`.
4. `LeavesOK` and `WritersOK` (`InMemIndexProofs`): every leaf in the tree holds
   postings into the lists of its shard, and so does the leaf a writer works
   on; the positions a writer has in hand are inside the lists; only a writer
   of strings can hold a private leaf. `PostingsInRange` alone is not
   inductive: it says nothing of the positions between their computation and
   the push.

`insert_tagged_value` is two steps, a lookup and an insertion at the position
counted. The argument for the numbering is `Fresh`: between the two the path is
still missing and the counted position is still the end of the list, because
the write lock keeps other writers out of the shard.

### HashTable

`TableAssumption`: threads are finitely many, the smallest table has a bucket,
every key has a hash, there are two values at least (they are bytes of the
caller) and `NULL` is none of them; the keys that a table starts with have
buckets of their own. The number of threads and calls, the keys and their
hash, the collisions, the sizes and the limit of the size are arbitrary.

| Theorem (`HashTableProofs`) | Statement |
|---|---|
| `Invariant` | `Spec => []IInv`, the three layers below |
| `LocksExclude` | `Spec => [](StatusInv /\ IterInv)` |
| `ListsStayAlive` | `Spec => []ListsAlive` |
| `ListsRegistered` | `Spec => []Registered` |
| `ItemsPlaced` | `Spec => []Placed` |

`ListsAlive` is not inductive, for a list is freed on the strength of who is
inside the table, and `Placed` is not, for it says nothing of the list that a
thread has in hand. The invariant:

1. `ControlInv` (`HashTableSteps`): types; what a thread has at each point of
   its call (`ArgsOK`); the status word counts the readers above `IDLE` and
   names the one thread inside below it (`StatusInv`); `iterator_lock` belongs
   to the thread that goes through the lists (`IterInv`). Every action is one
   of the moves of `StatusStep` and `IterStep`.
2. `ListsInv` (`HashTableSteps`, `HashTableLists`): a list in hand is locked by its thread; a
   list of the current generation is in its bucket, and what is in a bucket is
   allocated; during a growth the new lists are those of the current
   generation and nobody has one, during a clear there are none; `Registered`.
   A growth may free a list because the lists it goes through are old, so no
   bucket leads to them, and it has taken the lock of the one it frees.
3. `PlaceInv` (`HashTablePlaces`): unless `overtaken`, a list that no growth is
   to empty is in the table and its items hash to its bucket; the list and the
   bucket index of a thread are those of its key; the lists still to be emptied
   are on `iterator_list`. A growth that replaces the array sets `overtaken`
   exactly for the threads whose index would become wrong.

The actions are sorted into kinds: `Quiet` (lists untouched), `Takes`, `Puts`,
`Visits`, `Publishes`, and the steps of growth and clear one by one. A layer is
shown to survive each kind, and then each action to be of a kind
(`HashTablePlaces`), so that no layer meets the code of an action twice.

`ListsRegistered` is the first conjunct of the property `AllReachable`. TLC
checks the others: that every list is in the table, and that `count` is the
number of items, a sum over all lists whose change under one of them takes
induction.

### Provers

A leaf goes to the SMT solver unless it names another prover. Leaves that expand
a definition with `CHOOSE` (`First`, `SetIfEquals`, `FirstWith`, the initial
items) name Zenon: the SMT encoding of this version of TLAPS takes a `CHOOSE` that nothing
satisfies for equal to every value, which proves too much.

### Model-checked only

* Liveness, which needs fairness, and absence of deadlock, which is `ENABLED`.
* The refinement of `AttrIndex`.
* `MdbStore` and the files: what is read back is a fold over what was written,
  and its correctness an induction over the file.
* `HdfScan`: the files below a directory are a recursive operator, and which
  rank gets which file is a statement about the sequence it returns.
* The sequential containers: recursive functions on recursive data.
* `RQueue`: its invariant is about the path from the head to the tail of the
  ring, of any length.
* In the hash table, `count`, and that allocated lists are in the table.

## 5. Not modelled

* The driver. `indexing_data_collection` and `recovering_index` copy their paths
  with `strncpy(dst, src, strlen(dst))` into an empty `dst`
  (`miqs_indexing.c:178`, `:179`, `:267`), which copies nothing. With empty
  paths no directory exists, nothing is scanned and nothing is loaded, and
  `recovering_index` reports that there are no index files. What the code around
  the barriers would do with a path cannot be reached; the functions it calls
  are in `HdfScan`, `MdbStore` and `InMemIndex`, in its order.
* `rbt_remove`: nothing calls it, and it leaves `root` and parent pointers that
  lead to freed or wrong nodes, which a tree as a value cannot express.
* The reference counts and the lock-free queue on top of them: nothing in the
  repository uses them, and they need the memory of freed nodes as state. The
  graph, which nothing uses either.
* Of the containers: destruction, printing, statistics, copies between two
  buffers, keys of a heap that are changed in place, and the string indexes of
  `src/index/spi` in a hash table and a red-black tree, which read past the end
  of their keys. `PROJECT.json` says so for each part.
* Memory: allocation failures, sizes of arrays, leaks, and the statistics about
  memory and time.
* `find_index_record` and other functions called only from code that is
  commented out; the RPC engine, whose files are empty; the applications, which
  determine how the clients of the models call; MongoDB.

## 6. Plan

In the order of what is gained:

1. The refinement of `AttrIndex` by `InMemIndex` as a theorem, and proofs about
   the file formats where they need no induction over data.
2. The ring queue with weaker conditions than `stale`: what is still true after
   a writer has used an old page.
3. The reference counts with an explicit memory, and the queue on top of them.
4. The driver, once its paths are set.
