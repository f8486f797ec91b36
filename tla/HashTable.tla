----------------------------- MODULE HashTable -----------------------------
(***************************************************************************)
(* The hash table of CommonHashTable.cpp, with its cells and pointers.     *)
(* Every entry is a cell on two lists: its bucket's, and the list by age   *)
(* that iterations follow.  A call is one step, because the driver calls   *)
(* the table under its lock; only a rehash, which builds a second table    *)
(* next to the first one, takes a step per entry, and an insertion that    *)
(* rehashes waits for it with its new cell.                                *)
(***************************************************************************)
EXTENDS LinkedList, Integers

CONSTANTS
    Keys,     \* keys (the driver's are operation vectors)
    Data,     \* what is stored (the driver's are FltVnodeHookEntry objects)
    Values,   \* bound: Values[k], the data that callers store for the key k
    NoKey, NoData, \* what is in freed memory, and NULL
    Hash,     \* Hash[k]: the value of fn_hash
    Sizes,    \* bound: the sizes asked of ght_create and ght_rehash
    MaxSize,  \* bound: the largest number of buckets
    Load,     \* entries per bucket that make an insertion rehash (2)
    Configs,  \* bound: the settings that callers choose
    Usual     \* Usual[c]: the key for which fn_alloc prefers the cell c

ASSUME KeysAssumption ==
    /\ Hash \in [Keys -> Nat]
    /\ NoKey \notin Keys /\ NoData \notin Data
    /\ Values \in [Keys -> SUBSET Data]
ASSUME SizesAssumption ==
    Sizes \subseteq Nat \ {0} /\ MaxSize \in Nat /\ Load \in Nat

Heuristics == {"none", "transpose", "front"}
Settings == [limit : Nat, heuristics : Heuristics, rehash : BOOLEAN]

Defaults == [limit |-> 0, heuristics |-> "none", rehash |-> FALSE]

ASSUME ConfigsAssumption == Configs \subseteq Settings

VARIABLES
    tab,   \* p_ht: i_size, i_items, pp_entries, p_nr, p_oldest, p_newest
    tmp,   \* p_tmp of a rehash, NoTable when there is none
    next, prev, newer, older,  \* the pointers of each cell
    key, data,                 \* key.p_key and p_data of each cell
    used,  \* the cells that are allocated
    opts,  \* bucket_limit, i_heuristics and i_automatic_rehash
    pc,    \* "idle", or where a call is: "rehash", "link" of ght_insert
    new,   \* p_entry of ght_insert, until it is linked
    rit,   \* ght_rehash: the next cell to copy
    lost,  \* history: keys of the entries this rehash could not copy
    it     \* a caller's iteration, see ght_first

ageVars  == <<newer, older>>
linkVars == <<next, prev, ageVars>>
heapVars == <<key, data, used>>
callVars == <<pc, new>>
rehashVars == <<tmp, rit, lost>>
vars == <<tab, linkVars, heapVars, opts, callVars, rehashVars, it>>

NoTable == [size |-> 0, items |-> 0, head |-> <<>>, nr |-> <<>>,
            oldest |-> NoCell, newest |-> NoCell]

\* it: on, whether an iteration is under way; at, p_next of the iterator;
\* seen, the cells it has returned; due, those it has to return.
NoIteration == [on |-> FALSE, at |-> NoCell, seen |-> {}, due |-> {}]

Init ==
    /\ tab = NoTable /\ tmp = NoTable
    /\ next  = [c \in Cells |-> NoCell] /\ prev  = [c \in Cells |-> NoCell]
    /\ newer = [c \in Cells |-> NoCell] /\ older = [c \in Cells |-> NoCell]
    /\ key  = [c \in Cells |-> NoKey]
    /\ data = [c \in Cells |-> NoData]
    /\ used = {}
    /\ opts = Defaults
    /\ pc = "idle" /\ new = NoCell /\ rit = NoCell
    /\ lost = {}
    /\ it = NoIteration

-----------------------------------------------------------------------------
(* The lists of a table.                                                   *)

Index(t, k) == Hash[k] % t.size  \* fn_hash & i_size_mask, sizes are 2^i
Buckets(t)  == 0 .. t.size - 1
Bucket(t, b) == [first |-> t.head[b], nxt |-> next, prv |-> prev]
Ages(t) == [first |-> t.oldest, nxt |-> newer, prv |-> older, last |-> t.newest]

Chain(t, b) == Reach(t.head[b], next, used)  \* a walk along p_next
Aged(t)     == Reach(t.oldest, newer, used)  \* a walk along p_newer

\* search_in_bucket: the cells it finds, none or one.
Found(t, k) == {c \in Chain(t, Index(t, k)) : key[c] = k}

\* The number of buckets for the size n: the next power of two.
SizeFor(n) == CHOOSE p \in {2 ^ i : i \in 0 .. n} :
    p >= n /\ \A q \in {2 ^ i : i \in 0 .. n} : q >= n => p <= q

\* The bound is a power of two: no size asked for within it exceeds it.
ASSUME MaxSizeAssumption ==
    /\ Sizes \subseteq 1 .. MaxSize
    /\ \A n \in 1 .. MaxSize : SizeFor(n) \in 1 .. MaxSize

EmptyTable(n) ==
    [size |-> n, items |-> 0, head |-> [b \in 0 .. n - 1 |-> NoCell],
     nr |-> [b \in 0 .. n - 1 |-> 0], oldest |-> NoCell, newest |-> NoCell]

-----------------------------------------------------------------------------
(* Steps shared by the calls.                                              *)

Idle == pc = "idle" /\ tab.size # 0

\* fn_alloc: some free cell.  Cells have no identity beyond equality, so a
\* fixed choice loses nothing; this one reuses what the key had before.
Fresh(k) ==
    IF \E c \in Cells \ used : Usual[c] = k
    THEN CHOOSE c \in Cells \ used : Usual[c] = k
    ELSE CHOOSE c \in Cells \ used : TRUE

\* he_create
HeCreate(c, k, d) ==
    /\ used' = used \cup {c}
    /\ key'  = [key EXCEPT ![c] = k]
    /\ data' = [data EXCEPT ![c] = d]

\* Mutant: an insertion does not count the entry.
RelinkedUncounted(t, b, l, a, n) ==
    LET m == IF n > 0 THEN 0 ELSE n IN
    [t EXCEPT !.head[b] = l.first, !.nr[b] = @ + n, !.items = @ + m,
              !.oldest = a.first, !.newest = a.last]

\* The fields of the table t after bucket b has become l, the list by age a,
\* and n entries have been added.
Relinked(t, b, l, a, n) ==
    [t EXCEPT !.head[b] = l.first, !.nr[b] = @ + n, !.items = @ + n,
              !.oldest = a.first, !.newest = a.last]

SetPointers(l, a) ==
    next' = l.nxt /\ prev' = l.prv /\ newer' = a.nxt /\ older' = a.prv

\* The field f of the cells S is overwritten.
Wiped(f, S, x) == [c \in Cells |-> IF c \in S THEN x ELSE f[c]]

\* Mutant: freeing an entry forgets the cell.
FreeLeak(S, l, a) ==
    /\ SetPointers(l, a)
    /\ UNCHANGED heapVars
    /\ it' = [it EXCEPT !.seen = @ \ S, !.due = @ \ S]

\* he_finalize of the cells S, when the lists have become l and a.  Freed
\* memory is overwritten (a debug build does it at once); an iteration does
\* not owe a freed cell.
Free(S, l, a) ==
    /\ SetPointers([nxt |-> Wiped(l.nxt, S, NoCell),
                    prv |-> Wiped(l.prv, S, NoCell)],
                   [nxt |-> Wiped(a.nxt, S, NoCell),
                    prv |-> Wiped(a.prv, S, NoCell)])
    /\ used' = used \ S
    /\ key'  = Wiped(key, S, NoKey)
    /\ data' = Wiped(data, S, NoData)
    /\ it' = [it EXCEPT !.seen = @ \ S, !.due = @ \ S]

\* free_entry_chain for every bucket of p_ht.
FreeChains ==
    Free(UNION {Chain(tab, b) : b \in Buckets(tab)}, Bucket(tab, 0), Ages(tab))

-----------------------------------------------------------------------------
(* Creating, configuring and finalizing the table.                         *)

\* ght_create; without memory there is still no table.
Create(n) ==
    /\ pc = "idle" /\ tab.size = 0
    /\ tab' \in {NoTable, EmptyTable(SizeFor(n))}
    /\ opts' = Defaults
    /\ UNCHANGED <<rehashVars, linkVars, heapVars, callVars, it>>

\* ght_set_heuristics, ght_set_rehash, ght_set_bounded_buckets
Configure ==
    /\ Idle
    /\ opts' \in Configs
    /\ UNCHANGED <<tab, rehashVars, linkVars, heapVars, callVars, it>>

\* ght_finalize: the chain of every bucket is freed.
Finalize ==
    /\ Idle /\ ~it.on
    /\ FreeChains
    /\ tab' = NoTable
    /\ UNCHANGED <<rehashVars, opts, callVars>>

-----------------------------------------------------------------------------
(* ght_rehash: the entries are inserted, oldest first, into p_tmp, which   *)
(* has no bucket limit; then the old ones are freed and p_ht takes over    *)
(* the lists of p_tmp.                                                     *)

BeginRehash(n) ==
    /\ pc' = "rehash"
    /\ tmp' = EmptyTable(SizeFor(n))
    /\ rit' = tab.oldest /\ lost' = {}

\* The caller's ght_rehash.
Rehash(n) ==
    /\ Idle /\ ~it.on
    /\ BeginRehash(n)
    /\ UNCHANGED <<tab, linkVars, heapVars, opts, new, it>>

\* One entry is copied.
RehashCopy ==
    /\ pc = "rehash" /\ rit # NoCell
    /\ Found(tmp, key[rit]) = {} /\ used # Cells
    /\ LET c == Fresh(key[rit])
           b == Index(tmp, key[rit])
           l == PushFront(Bucket(tmp, b), c)
           a == AddLast([Ages(tmp) EXCEPT !.nxt[c] = NoCell], c)
       IN /\ HeCreate(c, key[rit], data[rit])
          /\ SetPointers(l, a)
          /\ tmp' = Relinked(tmp, b, l, a, 1)
    /\ rit' = newer[rit]
    /\ UNCHANGED <<tab, lost, opts, callVars, it>>

\* Mutant: an entry for which there is no memory is tried again.
RehashSkipAgain ==
    /\ pc = "rehash" /\ rit # NoCell
    /\ lost' = lost \cup {key[rit]}
    /\ UNCHANGED <<tab, tmp, linkVars, heapVars, opts, callVars, rit, it>>

\* One entry cannot be copied, for lack of memory or because its key is
\* there already: it is skipped.
RehashSkip ==
    /\ pc = "rehash" /\ rit # NoCell
    /\ rit' = newer[rit]
    /\ lost' = lost \cup {key[rit]}
    /\ UNCHANGED <<tab, tmp, linkVars, heapVars, opts, callVars, it>>

RehashEnd ==
    /\ pc = "rehash" /\ rit = NoCell
    /\ FreeChains
    /\ tab' = tmp
    /\ tmp' = NoTable /\ lost' = {}
    /\ pc' = IF new = NoCell THEN "idle" ELSE "link"
    /\ UNCHANGED <<opts, new, rit>>

-----------------------------------------------------------------------------
(* ght_insert                                                              *)

\* An insertion during an iteration is legal, but not one that may free
\* entries: the iterator is not told.
MayInsert == it.on => ~opts.rehash /\ opts.limit = 0

\* The number of items is too high.
Crowded == opts.rehash /\ tab.items > Load * tab.size

\* Up to he_create.  An insertion of a key that is there already, or that
\* gets no memory, changes nothing.
Insert(k, d) ==
    /\ Idle /\ MayInsert
    /\ Found(tab, k) = {} /\ used # Cells
    /\ LET c == Fresh(k) IN
         /\ HeCreate(c, k, d)
         /\ next'  = [next EXCEPT ![c] = NoCell]
         /\ prev'  = [prev EXCEPT ![c] = NoCell]
         /\ newer' = [newer EXCEPT ![c] = NoCell]
         /\ older' = [older EXCEPT ![c] = NoCell]
         /\ new' = c
    /\ \/ /\ Crowded /\ 2 * tab.size <= MaxSize
          /\ BeginRehash(2 * tab.size)
       \/ /\ ~Crowded
          /\ pc' = "link"
          /\ UNCHANGED rehashVars
    /\ UNCHANGED <<tab, opts, it>>

Full(b) == opts.limit # 0 /\ tab.nr[b] >= opts.limit

\* The rest of ght_insert, where the bucket has room.
LinkRoom ==
    /\ pc = "link"
    /\ LET b == Index(tab, key[new])
           l == PushFront(Bucket(tab, b), new)
           a == AddLast(Ages(tab), new)
       IN /\ ~Full(b)
          /\ SetPointers(l, a)
          /\ tab' = Relinked(tab, b, l, a, 1)
    /\ pc' = "idle" /\ new' = NoCell
    /\ UNCHANGED <<rehashVars, heapVars, opts, it>>

\* The rest of ght_insert, where the bucket is full: the last entry of its
\* chain, which now starts with the new one, is evicted and its data given
\* to fn_bucket_free.
LinkEvict ==
    /\ pc = "link"
    /\ LET b == Index(tab, key[new])
           l == PushFront(Bucket(tab, b), new)
       IN /\ Full(b)
          /\ \E p \in Reach(l.first, l.nxt, used) :
               LET a == AddLast(UnlinkAged(Ages(tab), p), new) IN
               /\ l.nxt[p] = NoCell
               /\ tab' = Relinked(tab, b, Unlink(l, p), a, 0)
               /\ Free({p}, Unlink(l, p), a)
    /\ pc' = "idle" /\ new' = NoCell
    /\ UNCHANGED <<rehashVars, opts>>

-----------------------------------------------------------------------------
(* ght_get, ght_replace, ght_remove.  The data returned is that of the    *)
(* entry found; a call that finds none changes nothing.                    *)

\* What a search that has found c does to the list l of its bucket.
Moved(l, c) ==
    CASE opts.heuristics = "front"     -> MoveToFront(l, c)
      [] opts.heuristics = "transpose" -> Transpose(l, c)
      [] OTHER -> l

MoveFound(k, c) ==
    LET b == Index(tab, k)
        l == Moved(Bucket(tab, b), c)
    IN /\ next' = l.nxt /\ prev' = l.prv
       /\ tab' = [tab EXCEPT !.head[b] = l.first]

Get(k) ==
    /\ Idle
    /\ \E c \in Found(tab, k) :
         /\ MoveFound(k, c)
    /\ UNCHANGED <<rehashVars, ageVars, heapVars, opts, callVars, it>>

Replace(k, d) ==
    /\ Idle
    /\ \E c \in Found(tab, k) :
         /\ MoveFound(k, c)
         /\ data' = [data EXCEPT ![c] = d]
    /\ UNCHANGED <<rehashVars, ageVars, key, used, opts, callVars, it>>

\* While a caller iterates it removes only entries the iteration has passed.
MayRemove(c) == it.on => c \in it.seen

Remove(k) ==
    /\ Idle
    /\ \E c \in Found(tab, k) :
         LET b == Index(tab, k)
             l == Unlink(Bucket(tab, b), c)
             a == UnlinkAged(Ages(tab), c)
         IN /\ MayRemove(c)
            /\ tab' = Relinked(tab, b, l, a, -1)
            /\ Free({c}, l, a)
    /\ UNCHANGED <<rehashVars, opts, callVars>>

-----------------------------------------------------------------------------
(* ght_first and ght_next: the iterator holds the entry after the one it   *)
(* has returned.                                                           *)

\* p_newer of the entry c, if there is one.
NextOf(c) == IF c = NoCell THEN NoCell ELSE newer[c]

First ==
    /\ Idle
    /\ it' = [on |-> TRUE, at |-> NextOf(tab.oldest),
              seen |-> {tab.oldest} \ {NoCell}, due |-> Aged(tab)]
    /\ UNCHANGED <<tab, rehashVars, linkVars, heapVars, opts, callVars>>

\* Mutant: the iterator's next entry is read when it is needed, from an
\* entry that may have been removed.
AdvanceLate ==
    /\ Idle /\ it.on /\ it.at # NoCell
    /\ it' = [it EXCEPT !.at = NextOf(NextOf(it.at)), !.seen = @ \cup {it.at}]
    /\ UNCHANGED <<tab, rehashVars, linkVars, heapVars, opts, callVars>>

Advance ==
    /\ Idle /\ it.on /\ it.at # NoCell
    /\ it' = [it EXCEPT !.at = NextOf(@), !.seen = @ \cup {it.at}]
    /\ UNCHANGED <<tab, rehashVars, linkVars, heapVars, opts, callVars>>

\* ght_next returns NULL, or the caller leaves its loop.
EndIteration ==
    /\ Idle /\ it.on
    /\ it' = NoIteration
    /\ UNCHANGED <<tab, rehashVars, linkVars, heapVars, opts, callVars>>

-----------------------------------------------------------------------------

Next ==
    \/ \E n \in Sizes : Create(n) \/ Rehash(n)
    \/ Configure \/ Finalize
    \/ RehashCopy \/ RehashSkip \/ RehashEnd
    \/ \E k \in Keys : \E d \in Values[k] : Insert(k, d) \/ Replace(k, d)
    \/ \E k \in Keys : Get(k) \/ Remove(k)
    \/ LinkRoom \/ LinkEvict
    \/ First \/ Advance \/ EndIteration

Spec == Init /\ [][Next]_vars

-----------------------------------------------------------------------------
(* Properties.                                                             *)

PointerType == [Cells -> Cells \cup {NoCell}]
TableType(size) ==
    [size : {size} \cap 0 .. MaxSize, items : Nat,
     head : [0 .. size - 1 -> Cells \cup {NoCell}], nr : [0 .. size - 1 -> Nat],
     oldest : Cells \cup {NoCell}, newest : Cells \cup {NoCell}]

TypeOK ==
    /\ tab \in TableType(tab.size) /\ tmp \in TableType(tmp.size)
    /\ {next, prev, newer, older} \subseteq PointerType
    /\ key \in [Cells -> Keys \cup {NoKey}]
    /\ data \in [Cells -> Data \cup {NoData}]
    /\ used \subseteq Cells
    /\ opts \in Settings
    /\ pc \in {"idle", "rehash", "link"}
    /\ {new, rit} \subseteq Cells \cup {NoCell}
    /\ lost \subseteq Keys
    /\ it \in [on : BOOLEAN, at : Cells \cup {NoCell},
              seen : SUBSET Cells, due : SUBSET Cells]

\* The pointers of a table: each bucket is a doubly linked list of entries
\* that hash to it, no key occurs twice, and the list by age holds the same
\* entries.  It is about the relinking of cells by insertion, eviction,
\* removal and the heuristics.
TableSound(t) ==
    /\ \A b \in Buckets(t) :
         /\ Paired(Bucket(t, b), Chain(t, b))
         /\ \A c \in Chain(t, b) : Index(t, key[c]) = b
    /\ LET X == Aged(t) IN
         /\ Paired(Ages(t), X) /\ Ended(Ages(t), X)
         /\ X = UNION {Chain(t, b) : b \in Buckets(t)}
         /\ \A c, d \in X : key[c] = key[d] => c = d

ListsSound == TableSound(tab) /\ TableSound(tmp)

\* i_items and p_nr count the entries; the limit of a bucket and automatic
\* rehashing rely on them.
CountsExact ==
    \A t \in {tab, tmp} :
        /\ t.items = Cardinality(Aged(t))
        /\ \A b \in Buckets(t) : t.nr[b] = Cardinality(Chain(t, b))

\* Every allocated cell is in one table, or is the entry that an insertion
\* holds: eviction, rehash and finalization neither leak nor free twice.
MemoryExact ==
    /\ used = Aged(tab) \cup Aged(tmp) \cup ({new} \ {NoCell})
    /\ Aged(tab) \cap Aged(tmp) = {}
    /\ new \notin Aged(tab) \cup Aged(tmp)

\* An iteration, whatever is inserted and whatever it has passed is removed
\* meanwhile, holds no freed cell and has before it every entry that it has
\* not returned (the contract of ght_first, which the deletion of the
\* driver's table relies on).
IterationComplete ==
    it.on => /\ it.at \in Aged(tab) \cup {NoCell}
             /\ it.due \subseteq it.seen \cup Reach(it.at, newer, used)

\* The entries that a rehash has yet to copy.
ToCopy == Reach(rit, newer, used)

\* A rehash, which runs under the driver's lock, has one entry less to copy
\* after each turn of its loop, whether that was copied or skipped, and ends when
\* it has tried them all: relinking the copies does not disturb the walk through
\* the list it copies (ght_rehash, CommonHashTable.cpp:873-886).
RehashAdvances ==
    [][pc = "rehash" =>
         IF pc' = "rehash" THEN Cardinality(ToCopy') < Cardinality(ToCopy)
                           ELSE ToCopy = {}]_vars
=============================================================================
