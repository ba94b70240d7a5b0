# Cuckoo hash table and cuckoo filter: a TLA+ verification project

The repository pairs two structures: a cuckoo hash table that stores keys with
12-bit fingerprints (`cuckoohashtable/hashtable/`), and a cuckoo filter
(`cuckoofilter/src/`) into which the table's fingerprints are copied.
`example.cc` is the program that joins them: insert a set *r* into the table,
look up another set *s* by fingerprint, rehash the buckets that give false
positives with new seeds until a round gives none, export fingerprints and
seeds, and build the filter from them. The outcome is meant to be a filter
without false negatives for *r* and without false positives for *s*.

## Inventory

| component | source | state | operations |
|---|---|---|---|
| bucket container | `bucketcontainer.hh` | per slot: `occupied_`, `keys_`, `partials_` | construct, `setK`, `eraseK`, `setFP`, `clear`, destroy |
| hash table, insert and find | `cuckoohashtable.hh` | `num_items_`; in a call: BFS queue, pathcode, `cuckoo_path` | `insert` (`cuckoo_insert`, `run_cuckoo`, `cuckoopath_search`, `slot_search`, `cuckoopath_move`, `add_to_bucket`), `find` |
| hash table, lookup rounds | `cuckoohashtable.hh` | `seeds_` (one per bucket), `num_lookup_rds_` | `start_lookup`, `lookup`, `rehash_buckets`, `export_table`, `get_seeds` |
| the program | `example.cc` | *r*, *s*, loop counters, `fp_table`, the filter | `hashtable_ops`, `create_filter` |
| cuckoo filter | `cuckoofilter.h` | tags, `seeds_`, `num_items_`, `victim_` | two constructors, `Add`, `AddImpl`, `Delete`, `Contain`, `CopyInsert` |
| SingleTable | `singletable.h`, `bitsutil.h` | tags packed in bytes | read, write, find, insert, delete, copy a tag |
| PackedTable, permutation encoding | `packedtable.h`, `permencoding.h` | semi-sorted buckets | read, sort, encode, write a bucket; find, insert, delete a tag |
| SIMD block filter | `simd-block.h` | `log_num_buckets_`, `directory_` | construct, `Add`, `Find` |
| sizing and formulas | `cuckoohashtable.hh`, `cuckoofilter.h`, `bitsutil.h` | none | `reserve_calc`, the filter's constructors, `upperpower2`; `partial_key`, `index_hash`, `alt_index`, `TagHash`, `IndexHash`, `AltIndex` |
| statistics | `cuckoohashtable.hh`, `example.cc` | `total_rehash`, `rehashBSet` | `seedInfo`, `num_rehashes`, `load_factor`, `info` |
| hash functions | `city.*`, `hashutil.*` | none | vendored |

**Interaction.** Everything runs in one thread, although the table is derived
from a concurrent one and its comments still speak of locks. The table calls
its container; the program calls the table, takes copies of the fingerprints
(`export_table`) and the seeds (`get_seeds`), destroys the table, and hands both
copies to the filter. The
filter recomputes indexes and fingerprints with the same formulas and the copied
seeds; the agreement of the three copies (fingerprints in the table, seeds, tags
in the filter) is what the program's assertions depend on.

**What is hard here.** No crash recovery, messages or threads. Instead:
long sequences of legal inserts, each a chain of evictions along a path that was
computed before it is used; a search whose queue has to have exactly the right
size and whose path is squeezed into 16 bits; a retry loop without a bound;
storage that is read where it was never written; fingerprints that are stale
between the lookup that raises a seed and the rehash, and a rehash that picks its
buckets by an indirect test; a filter in which two functions compute "the other
bucket" from different things; sizes and hashes cut to a width at every turn;
assertions with side effects, and assertions that are all that ends a loop. `PROJECT.json` lists each at its line.

**What makes each component correct.**
Table: every key once, in one of its two buckets, with its own fingerprint,
counted; an insert ends, and fails only if no path exists. Rounds: after a
rehash a bucket's fingerprints are those under its seed. Program: it ends, its
figures are right (true of all but one), the filter answers as the table. Filter: tags are conserved, what was added can be
deleted, and (true of this version only until a bucket overflows) is found.
Constructors: there is room for what they are asked for. Formulas: table and
filter agree. Block filter: it finds what was added.

## Modules

| module | models | how |
|---|---|---|
| `BucketContainer` | `bucketcontainer.hh` | the three arrays as functions of `<<index, slot>>`; uninitialised arrays start with any value of `GarbageKeys`, `GarbagePartials`; `eraseK` leaves key and fingerprint bytes behind, `clear` does so everywhere |
| `KeySet` | what `insert` promises | a set and the last outcome: inserted, duplicate, or full |
| `CuckooHashtable` | `insert`, `find` | `pc` names the function an insert is in; one step per dequeued `b_slot`, decoded slot, path record, moved item. Key, hash and fingerprint functions are constants, `alt_index` an involution per key |
| `LookupRounds` | `lookup`, `start_lookup`, `rehash_buckets` | actions on `seeds`, `num_lookup_rds` and the fingerprints |
| `RoundsClient` | any caller of the rounds | insert first, then look up any keys in any order; the history `streak` counts the rounds a bucket was hit in without a gap |
| `ExampleProgram` | `example.cc` | *r*, *s* chosen in `Init`; one action per loop iteration or assertion; table, exported copies and filter are three pieces of state; uses the filter's `CopyInsert` and `Contain` through `INSTANCE CuckooFilter` |
| `CuckooFilter` | `cuckoofilter.h` over `singletable.h` | a tag per slot, `0` for empty; the loop of `AddImpl` stepped by iteration; `rand()` is a choice |
| `FilterClient` | a caller that deletes only what it added | the histories `ledger`, copies per item, and `moved`, whether a bucket overflowed |
| `TagTable` | what a filter expects of a table | a bag of four tags per bucket, 0 for none |
| `Words` | machine words | `1 << n`, the bits of a number, and `&`, `\|`, `^` as the operations on the sets of a word's ones; all recursion is in functions, so that everything above it can be proved about |
| `BitMemory`, `SingleTable` | `singletable.h`, `bitsutil.h` | the array is the set of the positions of its ones; tags at the byte and shift the code computes for each width; the word-parallel search lane by lane, with its borrows |
| `PermEncoding`, `PackedTable` | `permencoding.h`, `packedtable.h` | a bucket is decoded, sorted by the code's five comparisons, encoded and stored; a codeword is the position of a quadruple in the order of `gen_tables`, and 0 for a quadruple that is not ascending |
| `TagTables` | a filter's calls to either table | the table type is chosen in `Init`; both are mapped to `TagTable` |
| `Sizing` | `reserve_calc`, `upperpower2`, the filter's first constructor, `main`'s size | functions of n in a `size_t` of `2^LogSizeBits` bits; `/ 0.95` and `> 0.96` as fractions |
| `Hashing` | fingerprint and index formulas of table and filter | keys as numbers of a `size_t`, with the code's shifts, masks and product |
| `BlockFilter` | `simd-block.h` | a lane of a bucket is a set of positions; hash, mask and directory mask are cut to `WordBits` where the code converts to 32 bits |
| `Containers` | constructors and the sizes their callers ask for; the block filter's calls | the kind of container and n are chosen in `Init` |
| `CuckooHashtable_proofs` | | theorems about `CuckooHashtable`, in three parts: the table, the search, the path |
| `LookupRounds_proofs`, `RoundsClient_proofs` | | lemmas about the rounds' operators; theorems about `RoundsClient` |
| `ExampleProgram_proofs`, `FilterClient_proofs` | | theorems about the program and the filter |
| `TagTables_proofs`, `Containers_proofs` | | theorems about the two tables; about sizes, formulas and the block filter |
| `NatFacts` | | lemmas about induction, recursion, quotients and words |
| `MC*` | | instances for TLC |

Names follow the source. Definitions whose comment begins with *Faulty* are
plausible mistakes in the definition after them; no specification uses them.
They document, for every property, a mistake that the property would expose.

Two abstractions deserve a word. A key is an abstract value; `partial_key`,
`index_hash` and `alt_index` are constant functions constrained by what the code
guarantees (range, `alt_index` its own inverse for each key), so a run or proof
covers collisions of every kind. The filter's `TagHash`, `IndexHash` and
`AltIndex(index, item)` are code of their own, but the same formulas as the
table's, which is why `ExampleProgram` substitutes the table's functions for
them. `HashesAgree`, checked of the formulas in `Hashing`, is what justifies both.

## Runs

| run | asks | bounds |
|---|---|---|
| `ring` | table invariants, refinement of `KeySet`, termination and the steps it takes, under multi-step evictions | 4 buckets x 2 slots, 7 keys linking the buckets in a ring and across, paths of 3 records |
| `narrow_pathcode` | safety when the pathcode wraps | 4 x 3, paths of 2 records, `PathcodeMax` 15: 3^2 = 9 < 15 meets the static_assert, root 2 produces codes up to 17 |
| `rounds` | seeds against rounds, which buckets a rehash synchronises | 2 x 2, 5 keys, 3 rounds, any lookups |
| `tag_tables` | that both tables keep bags of tags in their bytes, and find exactly what is there | 2 adjacent buckets; SingleTable with 12 bits (tags share bytes), PackedTable with 13 (buckets share words); two tags, one of them with low bits 0 as an empty slot has; low bits 0 and 1 (`Nibbles`), which suffice for a network of comparisons |
| `program` | the assertions of `example.cc`, the figures it prints, the filter it makes, and why | 2 x 2; every *r* of two keys of eight and vectors that overfill a bucket; every *s* of two keys of sixteen, and one with a key that *r* may hold, too; at most 4 rounds, of which three are ever needed |
| `filter` | conservation, counters, victim cache, what is found | 2 x 2, 4 items up to twice each, 3 tags, 3 kicks, all seed vectors and the empty one |
| `containers` | room, agreement of the formulas, the block filter | a `size_t` of 8 bits, n from 0 to 70 and 251 to 255 (where rounding up wraps); keys as wide, fingerprints of 3, tables of up to 64 buckets and filters of up to 128, so that there are fewer buckets than tags, as many, and more; block filters of 2 to 32 buckets of four lanes of four bits, so that the directory is larger than its mask once, with eight hash values that differ in the bits of bucket, mask, or neither |

The bounds are small but are reached: in `ring` the BFS queue fills exactly,
paths have two moves, and inserts fail on a full table; `narrow_pathcode` fires the
failed move. In `program`, seeds 0
and 1 may collide in any way and later seeds separate *r* from *s*: this is the
assumption under which the real program ends, too (it ends when some seed
separates them, and 12-bit hashes under fresh seeds do so with probability
1 eventually; the model fixes when). A key in both vectors is never separated:
then the assertion on `definite_queries` stops the program after one round.
`CHECK_DEADLOCK FALSE` is given for the program, which terminates, and for
`containers`, where most kinds are only constructed.

Runs that are expected to end in a counterexample, each a difference between
the code and what a comment, assertion or document says (`findings`):

| run | difference |
|---|---|
| `pathcode_overflow` | the static_assert on `pathcode` is too weak by the bit that names the root; `run_cuckoo` then loops. Not reached with the default 4 slots (codes up to 2047) |
| `rehash_lag` | a bucket first hit in a later round is not rehashed, so its keys become false negatives; clients must look up the same keys each round, as `example.cc` does |
| `ghost_tags` | uninitialised fingerprints are exported and become tags |
| `filter_added_found` | after a kick, `Contain` looks in another bucket than the tag is in |
| `filter_unseeded` | a filter from the first constructor has no seeds; `Add` throws. (With the default hash family, which takes no seed, the call does not compile) |

More defects are found by the same modules with other constants, and are listed
as hazards. With `GarbageKeys` containing a key, `FindExact` of `ring` fails:
`find` compares the keys of unoccupied slots, so in zeroed memory it reports the
key 0 in an empty table. With `NDEBUG = TRUE`, `FilterSeparates` fails: the call
of `CopyInsert` goes with the assertion around it. With `CountModulus` as small
as the table, `StatisticsTrue` fails: the 16-bit counts wrap. With `SingleBits = 2`, `ImplementsTagTable` fails:
`WriteTag` ORs a 2-bit tag into its byte, so a deleted tag stays and an
overwritten one is mixed with the new. With `PackedBits` other than 13,
`FindsExactly` fails: `FindTagInBuckets` has the shifts of 13-bit tags built in.
`PackedTable` is also out of date with the filter that names it
(`cuckoofilter.h:30`): its `FindTagInBuckets` takes one tag where `Contain`
passes two, and it has no `CopyTagToBucket`. `TagTables` therefore calls it
directly.

Some properties state less than a comment does, because the rest is not so.
`RoomForAll` bounds the load of `main`'s table by 95% and less than one key ("max
load factor of 95%": 16 keys fill a table of 16 slots), and the heap of a block
filter by two buckets ("at most (1 << log_heap_space) bytes"). `HashesAgree`
says how many buckets the tags of a bucket may be kicked to: a tag is shifted
like a 64-bit item, so that a filter of 1024 buckets and 12-bit tags leaves four,
one of 4096 or more a single one, and `Add` fails in a filter that is nearly
empty. `ItemsCounted` says that `num_items_` counts the tags in the table: with a
victim cached the items are one more, and `Size()` is not "the total number of
items currently in the filter" (`cuckoofilter/README.md:22`), the "number of
current inserted items" or the "number of items stored" (`cuckoofilter.h:177`, `:39`).
Those documents say `SizeIsItems`; given as the invariant of
`MCFilterAddedFound.cfg`, TLC refutes it with three Adds whose tags overfill a
bucket, the last of which ends in the victim cache.
`StatisticsTrue` says of `rehashBSet` only that it holds no bucket that was
not rehashed. The set is to "track buckets needing rehash" and its size is printed
as "percent rehashed buckets" (`example.cc:43`, `:111`), which would be
`PercentTrue`; given as the invariant of `MCProgram.cfg`, TLC refutes it with a key
of *s* that matches in both its buckets: `lookup` raises both seeds, both buckets
are rehashed, and only the second is returned and counted. `FindExact` says that `find` returns -1 for a key that is not
stored; the comment above it (`cuckoohashtable.hh:257`), taken over from libcuckoo, speaks
of the value found and of `std::out_of_range`, which that function no longer
throws (line 281 has it commented out).

Two comments are stale: the code no longer does what they say. The TODO in
`lookup` (`cuckoohashtable.hh:353`: "INACCURATE TRACKING OF REHASH INDEX -
not_found gives index 0 if false pos. is in alt. bucket ONLY") says that such a
false positive is tracked under index 0; but by then `lookup` has returned the
index of that bucket (line 351). `StatisticsTrue` excludes what it says: with the
faulty `lookup_AltZero`, which does return 0, bucket 0 is counted and was
never rehashed. And `example.cc` says of its check
for false negatives that it is "failing here with sizes above 10k" (line 156), and
names false negatives for sizes 24000 and 10000 (lines 120 and 123), while
`FilterSeparates` says that there are none, and its theorem says so for every
size. The model tells what was wrong. Code that is commented out in `lookup`
returned after a hit in the first bucket (line 331), and a comment explains why
it must not: "this outer conditional is necessary if false pos. happen to occur
in BOTH buckets - pos1 cannot return yet" (line 314). With that return back in
place (the faulty `Lookup_FirstHit`) TLC finds `LaggardsQuiet` and
`FilterSeparates` violated: a key of *s* hits both its buckets, the second is
raised a round late, to a seed below the round's number, and is never rehashed,
so that its keys of *r* become false negatives. In large tables such keys are
likely, in small ones rare, hence the sizes in the comments. The program itself
agrees: compiled with its assertions and run with sizes 1000, 9000, 10000, 12000,
24000, 30000 and 60000 no assertion fails; with line 331 restored it ends well for 1000
and 9000, and the assertion below line 156 fails for 10000, 12000, 24000 and 60000.

### Fairness

`FairSpec` has `WF_vars(Step)`: one thread runs an insert to its end, and nothing
outside the call can delay its steps. No fairness is put on calls. `ProgramSpec`
is the whole single-threaded program, weakly fair. `ClientSpec` of the filter
is fair to the steps of a call, not to the choice of `rand()`.

## Proofs

Checked by TLAPS for every value of the constants that meets the assumptions the
modules name, all of which TLC evaluates on its instances: any table and filter
size, any hash functions with an involutive `alt_index`, any path length, any
*r* and *s*, any memory contents at the start, any width of a `size_t` from 8
bits (unless a hypothesis below says otherwise). Every safety invariant, action
property and refinement of the passing runs is a theorem.

A theorem that needs more than those assumptions states it as a hypothesis. There
are eight, and each is the other side of a hazard, a finding or a constant of the
code:

| hypothesis | used for | without it |
|---|---|---|
| `PathcodeFits`: twice `slot_per_bucket ^ MAX_BFS_PATH_LEN` fits the pathcode's type | `PathcodeNamesRoot`, `PathNeverStale`, `FindExact`, `InsertBounded` | run `pathcode_overflow`; the static_assert asks for half as much. 4 slots, 5 buckets and 16 bits satisfy it |
| `NoStaleKeys`: uninitialized slots hold no key's bytes | `FindExact`, `AssertionsHold` | `find` reads unoccupied slots |
| `BucketCount < CountModulus` | `StatisticsTrue` | the 16-bit counts of `seedInfo` wrap |
| `~NDEBUG` | `FilterSeparates`, `FilterAgrees` | the call of `CopyInsert` is inside an assertion |
| `NarrowGarbage`: an uninitialized fingerprint that is no key's (`NoPartial`) is no wider than a tag | `FilterSeparates`, `FilterAgrees` | run `ghost_tags`: garbage becomes tags |
| `SingleBits # 2` | `TablesTypeOK`, `FindsExactly`, `ImplementsTagTable` | `WriteTag` ORs a 2-bit tag into its byte |
| `PackedBits = 13` | `FindsExactly` | `FindTagInBuckets` has the shifts of 13-bit tags built in |
| 3 slots to a bucket or more; for `RoomForAll`, 3 to 12 | the properties of `Containers` | with 1 or 2, doubling a filter's buckets can wrap to none; with 13 or more, `n / assoc` rounded down leaves a single bucket for `2 * assoc - 1` keys, and doubled once it is loaded above 0.96. The code has 4 |

*Table* (`CuckooHashtable_proofs`). `TypeOK`, `KeyHome`, `NoDuplicates`,
`NumItemsExact`, `PartialsMatch`, `FreedSlotUsable`, `NoKeyLost`, and that the
specification implements `KeySet`. (`NoKeyLost` follows
from the last, so no run checks it apart.) None of these is inductive alone. The
invariant `IInv` adds: the key of an insert in progress is a key, and is not in
the table (`PendingNew`); while a path is filled in, moved along or used, its first bucket is one of
the two buckets of the pending key and each bucket follows from the record
before it by `alt_index`; when the slot is written it is empty (`PathOK`). With that,
a move takes a key from one of its buckets to the other because `alt_index` is an
involution, and it changes neither the stored set nor the count. The proof has one step per
action. It makes no use of the pathcode naming the right path: a wrapped
pathcode makes a move fail, never corrupts, which `narrow_pathcode` shows and the
theorem says in general.

*Search* (the second part of `CuckooHashtable_proofs`). `QueueFits` is about a closed formula, the size
of the array in `b_queue`. `QueueShape` numbers the entries of the queue by
levels: the children of an entry stand at a place given by its level and its place in
it, so a level holds twice a power of the slot count and the formula is their
sum. `Searched` says what was dequeued: full buckets, each of whose items had its
other bucket queued. When the queue runs dry, every
walk of evictions through full buckets was followed (`FullMeansNoPath`): an
insert reports a full table only if there is no path. Both hold for every
width of the pathcode; the invariant, `SearchInv`, contains `IInv`.

*Path* (the third part). A `Trail` is the walk a pathcode stands for. Every
queued entry is on one (`PathInv`), and while `PathcodeFits` decoding goes back along it to its
root. Its buckets, but for the last, are full and the last has an empty slot: as the search is breadth-first,
the trail is shortest and meets no bucket twice. So each record names the item
that is in its slot, and no move disturbs a later one (`Movable`): the path never
goes stale and `run_cuckoo` searches once. Then every slot freed is
filled again, and `find`, which compares the bytes of unoccupied slots too, sees
the stored keys and no other (`FindExact`). And every step leaves an insert fewer
to take (`InsertBounded`, by the measure `StepsLeft`): at most as many as the queue
has places and three for each record of a path, 697 in the code. This is the part
of `InsertTerminates` that can be proved; that the thread takes the steps is fairness.

*Rounds* (`RoundsClient_proofs`, on the lemmas about `lookup` and
`rehash_buckets` in `LookupRounds_proofs`). `ClientTypeOK`, `UntouchedInSync`,
`SeedsBetween` and `StreakSynced`, from an invariant that says all seeds are 0
and all fingerprints are those of seed 0 while no round has begun. `StreakSynced`
speaks of the history `caught`: the buckets that had been hit in every round so
far when the last rehash ran, which are the ones its indirect test must pick.

*Program* (`ExampleProgram_proofs`). All seven invariants of the run, from `PInv`:
one conjunct per phase of `main`. While *r* is inserted it contains `IInv`. In a
round, a bucket reaches the round's number with its first hit; one that has not
was hit by no key looked up so far; and one that was left behind in an earlier
round is hit by no key of *s* at all (`InRound`). This is why the test of
`rehash_buckets`, which looks at the seed and not at the hits, misses no bucket
here, where it misses some for other callers (run `rehash_lag`), and why
`total_rehash` is the sum of the seeds. After a round without false queries the fingerprints and seeds
separate *r* from *s* (`AfterRounds`); the copies keep that while the
table is destroyed, and `Copied` says which prefix of the slots the filter has.

*Filter* (`FilterClient_proofs`). All the properties of the run but liveness, from
`FilterInv`: the tags in the table, the victim and the one tag that a step of
`AddImpl` has in hand are together those of the items held, per tag
(`TagsConserved`) and, until one was moved, per tag and bucket (`AtHome`);
`num_items_` counts them (`Counted`). Counts are cardinalities of sets of slots
and copies; a write takes one element from one such set and adds one to another.

*Tag tables* (`TagTables_proofs`). The bits of a slot are disjoint from those of
every other slot and lie inside the array: for `SingleTable` by cases on the
width and the slot, for `PackedTable` because a bucket's bits are a codeword of
12 and four times the direct bits, and neighbours that share a byte start four
bits apart. So a field that is written reads as what was written and every other
field as before. What a packed bucket holds is a bag because five comparisons
sort any four numbers and exchange only; because the quadruples in ascending order
are numbered without gaps or repetition, in the order `gen_tables` visits them,
so that `dec_table` undoes `enc_table` on them; and because there are at most 3876 <
2^12 of them, the combinations with repetition of four of sixteen. The invariant,
`TablesInv`, adds `PackedOK` to the types: every bucket
holds a codeword that `enc_table` has, which is what makes decoding it defined. `FindsExactly` of `SingleTable` rests
on lanes: a borrow enters a lane only from a lane that was 0, which has already answered.

*Sizes, formulas, block filter* (`Containers_proofs`). The or-shifts of `upperpower2`
are followed bit by bit: after k of them a bit is one if one of it and the
2^k - 1 bits above was. From there on sizes are least powers of two, and
the rest is arithmetic, with every cut to the width of a `size_t` shown to
change nothing (or, in `ReserveAsserts`, found out). For any number of buckets, a power of two or
not, masking twice with the same number is masking once, and the second
exclusive or undoes the first on the bits that the mask keeps. How many buckets
the tags of one lead to follows from a product with an odd number being one-to-one modulo
2^h. The invariant, `ContainersInv`, says which size each kind of container was given
(`MadeFor`, `Constructed`), and of a block filter that each lane of each bucket has
the ones of the keys added to that bucket and no others (`BucketsHold`).

*Facts about numbers* (`NatFacts`). Powers, quotients, words, recursive functions
and induction. The library's induction theorems take an operator, which the
provers cannot instantiate, so `NatInductionInSet` is stated for a set of numbers
and proved from the least element of its complement, and `RecursionExists` gives
the function that a recursive definition names from its finite prefixes. A word
is determined by its bits (`WordsEqual`); `&`, `|`, `^`, shifts and masks are
what they are bit by bit. `const_pow`, `pow2`, `number` and `OrShifts` are
recursive functions, not RECURSIVE operators, for the same reason.

*Only model-checked*: liveness (`InsertTerminates`, `ProgramEnds`, `CallEnds`);
fairness and ENABLED are out of the prover's reach (the first is proved as a bound, `InsertBounded`). And what the hypotheses above
exclude is shown by the runs and the instances described under *Runs*.

## Not modelled

The vendored hash functions; tags of 32 bits; load factors, bits per item and
all printing; the block filter's test for AVX2, failing allocations and its move
constructor; `cuckoopair.hh` and `test.cpp`, which call functions this version
does not have; benchmarks (but for the sizes they ask for), scripts, data.
Rounds beyond the 16 bits of a seed. `lookup` is not combined with inserts after a rehash: the code does
not forbid it, but gives an inserted key the fingerprint of seed 0 whatever the
seed of its bucket.

## Plan

1. *Done*: `BucketContainer`, `KeySet`, `CuckooHashtable` with proofs,
   `LookupRounds`, `RoundsClient` with proofs, `ExampleProgram`, `CuckooFilter`,
   `FilterClient`.
2. *Done*: `SingleTable`, `PackedTable` with `PermEncoding`, as implementations
   of `TagTable`.
3. *Done*: `Sizing`, `Hashing`, `BlockFilter`, `Containers`; the statistics, the
   assertions and the three copies in `ExampleProgram`.
4. *Done*: proofs about the search, the path, the program and the filter.
5. *Done*: words as sets of bits instead of recursive operators, and with them
   the proofs about both tables, the sizes, the formulas and the block filter.
6. The filter over `TagTable` instead of slots, so that its properties hold for
   either table by composition: of little weight while `PackedTable` does not
   compile into the filter.
7. A table that goes on inserting after a rehash (see *Not modelled*), if a
   client ever does.
