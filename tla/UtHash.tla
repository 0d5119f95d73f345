------------------------------- MODULE UtHash -------------------------------
(***************************************************************************)
(* The hash table of p2/C/uthash.h, in which symbol.c keeps the names of a *)
(* scope and project 1 its variables.  An item is a structure with a hash  *)
(* handle; the two linked lists a handle is on are sequences: order, the   *)
(* list of all items as they were added (hh.prev, hh.next, tail), and the  *)
(* chain of its bucket (hh_prev, hh_next).  A bucket that grows too long   *)
(* doubles the number of buckets.  Not modelled: the Bloom filter, which   *)
(* nobody here defines, and HASH_SRT and HASH_SELECT, which nobody uses.   *)
(***************************************************************************)
EXTENDS Integers, SequencesExt

CONSTANTS
    Item, NoItem,
    Configurations,     \* the values of conf, below
    MaxLog2             \* bound: larger tables take no further item

(* Every key is that of some item, stored or not.                          *)
ASSUME ConfigurationsAssumption ==
    \A c \in Configurations :
        /\ DOMAIN c.key = Item
        /\ DOMAIN c.hashv = {c.key[i] : i \in Item}
        /\ c.hashv \in [DOMAIN c.hashv -> Nat]
        /\ c.log2 \in Nat
        /\ c.thresh \in Nat \ {0}

ASSUME NoItemAssumption == NoItem \notin Item

VARIABLES
    conf,       \* the keys of the items, the hash of each key and the two
                \* sizes the header defines
    head,       \* the table behind the caller's head pointer, or NoTable
    out         \* the output argument of the last search

vars == <<conf, head, out>>

key == conf.key

hashv == conf.hashv

HASH_INITIAL_NUM_BUCKETS_LOG2 == conf.log2

(* 1 << n                                                                  *)
PowerOfTwo[n \in Nat] == IF n = 0 THEN 1 ELSE 2 * PowerOfTwo[n - 1]

HASH_INITIAL_NUM_BUCKETS == PowerOfTwo[HASH_INITIAL_NUM_BUCKETS_LOG2]

HASH_BKT_CAPACITY_THRESH == conf.thresh

(* hashv & (num_bkts - 1), the number of buckets being a power of two.     *)
HASH_TO_BKT(h, num_bkts) == h % num_bkts

BucketOf(i, t) == HASH_TO_BKT(hashv[key[i]], t.num_buckets)

(* What a null head stands for: no items, and nothing else.                *)
NoTable == [order |-> <<>>]

EmptyBucket == [chain |-> <<>>, count |-> 0, expand_mult |-> 0]

HASH_MAKE_TABLE ==
    [order |-> <<>>,
     buckets |-> [b \in 0 .. HASH_INITIAL_NUM_BUCKETS - 1 |-> EmptyBucket],
     num_buckets |-> HASH_INITIAL_NUM_BUCKETS,
     log2_num_buckets |-> HASH_INITIAL_NUM_BUCKETS_LOG2,
     num_items |-> 0, ineff_expands |-> 0, noexpand |-> 0]

(* Mutant: the bucket of an item is computed before the table has doubled. *)
Rehashed_oldMask(t, b) ==
    IF b < t.num_buckets THEN Reverse(t.buckets[b].chain) ELSE <<>>

(* The items of old bucket b % n go to bucket b or b + n, one after the    *)
(* other, each to the head of the new chain.                               *)
Rehashed(t, b) ==
    LET old == t.buckets[b % t.num_buckets].chain
        moved[n \in 0 .. Len(old)] ==
            IF n = 0
            THEN <<>>
            ELSE IF HASH_TO_BKT(hashv[key[old[n]]], 2 * t.num_buckets) = b
            THEN <<old[n]>> \o moved[n - 1]
            ELSE moved[n - 1]
    IN  moved[Len(old)]

ideal_chain_maxlen(t) ==
    t.num_items \div PowerOfTwo[t.log2_num_buckets + 1]
        + (IF t.num_items % (2 * t.num_buckets) # 0 THEN 1 ELSE 0)

(* Mutant: the multiplier of an overused bucket is forgotten.              *)
NewBucket_noMultiplier(chain, ideal) ==
    [chain |-> chain, count |-> Len(chain), expand_mult |-> 0]

NewBucket(chain, ideal) ==
    [chain |-> chain, count |-> Len(chain),
     expand_mult |-> IF Len(chain) > ideal THEN Len(chain) \div ideal ELSE 0]

HASH_EXPAND_BUCKETS(t) ==
    LET ideal == ideal_chain_maxlen(t)
        new == [b \in 0 .. 2 * t.num_buckets - 1 |->
                    NewBucket(Rehashed(t, b), ideal)]
        nonideal_items ==
            SumFunction([b \in DOMAIN new |-> Max({0, new[b].count - ideal})])
        ineff == IF nonideal_items > t.num_items \div 2
                 THEN t.ineff_expands + 1 ELSE 0
    IN  [t EXCEPT !.buckets = new,
                  !.num_buckets = 2 * @,
                  !.log2_num_buckets = @ + 1,
                  !.ineff_expands = ineff,
                  !.noexpand = IF ineff > 1 THEN 1 ELSE @]

Overfull(t, b) ==
    t.buckets[b].count >=
        (t.buckets[b].expand_mult + 1) * HASH_BKT_CAPACITY_THRESH

(* Mutant: a new item goes to the end of its chain.                        *)
HASH_ADD_TO_BKT_atEnd(t, b, i) ==
    LET added == [t EXCEPT !.buckets[b].chain = Append(@, i),
                           !.buckets[b].count = @ + 1]
    IN  IF Overfull(added, b) /\ t.noexpand # 1
        THEN HASH_EXPAND_BUCKETS(added)
        ELSE added

HASH_ADD_TO_BKT(t, b, i) ==
    LET added == [t EXCEPT !.buckets[b].chain = <<i>> \o @,
                           !.buckets[b].count = @ + 1]
    IN  IF Overfull(added, b) /\ t.noexpand # 1
        THEN HASH_EXPAND_BUCKETS(added)
        ELSE added

HASH_ADD_KEYPTR(h, i) ==
    LET t == IF h = NoTable THEN HASH_MAKE_TABLE ELSE h
    IN  HASH_ADD_TO_BKT([t EXCEPT !.order = Append(@, i),
                                  !.num_items = @ + 1],
                        BucketOf(i, t), i)

HASH_FIND_IN_BKT(chain, k) ==
    LET hits == {n \in DOMAIN chain : key[chain[n]] = k}
    IN  IF hits = {} THEN NoItem ELSE chain[Min(hits)]

HASH_FIND(h, k) ==
    IF h = NoTable
    THEN NoItem
    ELSE HASH_FIND_IN_BKT(h.buckets[HASH_TO_BKT(hashv[k], h.num_buckets)].chain,
                          k)

(* Mutant: the count of the bucket is left as it was.                      *)
HASH_DEL_IN_BKT_keepsCount(bucket, i) ==
    [bucket EXCEPT !.chain = RemoveFirst(@, i)]

HASH_DEL_IN_BKT(bucket, i) ==
    [bucket EXCEPT !.chain = RemoveFirst(@, i), !.count = @ - 1]

(* An item without neighbours is the only one: the table goes with it.     *)
HASH_DELETE(h, i) ==
    IF h.order = <<i>>
    THEN NoTable
    ELSE [h EXCEPT !.order = RemoveFirst(@, i),
                   !.buckets[BucketOf(i, h)] = HASH_DEL_IN_BKT(@, i),
                   !.num_items = @ - 1]

HASH_REPLACE(h, i) ==
    LET replaced == HASH_FIND(h, key[i])
    IN  HASH_ADD_KEYPTR(IF replaced = NoItem THEN h
                        ELSE HASH_DELETE(h, replaced), i)

HASH_CNT(h) == IF h = NoTable THEN 0 ELSE h.num_items

Stored == ToSet(head.order)

RoomToGrow == head # NoTable => head.log2_num_buckets < MaxLog2
-----------------------------------------------------------------------------
Init ==
    /\ conf \in Configurations
    /\ head = NoTable
    /\ out = NoItem

(* The caller adds an item it has just allocated, whatever its key.        *)
Add(i) ==
    /\ i \notin Stored
    /\ RoomToGrow
    /\ head' = HASH_ADD_KEYPTR(head, i)
    /\ out' = NoItem
    /\ UNCHANGED conf

Find(k) ==
    /\ out' = HASH_FIND(head, k)
    /\ UNCHANGED <<conf, head>>

Delete(i) ==
    /\ i \in Stored
    /\ head' = HASH_DELETE(head, i)
    /\ out' = NoItem
    /\ UNCHANGED conf

Replace(i) ==
    /\ i \notin Stored
    /\ RoomToGrow
    /\ out' = HASH_FIND(head, key[i])
    /\ head' = HASH_REPLACE(head, i)
    /\ UNCHANGED conf

HASH_CLEAR ==
    /\ head' = NoTable
    /\ out' = NoItem
    /\ UNCHANGED conf

Next ==
    \/ \E i \in Item : Add(i) \/ Delete(i) \/ Replace(i)
    \/ \E k \in DOMAIN hashv : Find(k)
    \/ HASH_CLEAR

Spec == Init /\ [][Next]_vars
-----------------------------------------------------------------------------
ChainItems(b) == ToSet(head.buckets[b].chain)

(* The integrity check HASH_FSCK that uthash.h runs after every change     *)
(* when it is compiled with HASH_DEBUG: the counts of the buckets are the  *)
(* lengths of their chains and add up to num_items, the length of the list *)
(* of all items.  What the check takes for granted is asked as well: every *)
(* item is on one chain, once, that of its hash in the present table.      *)
Fsck ==
    head # NoTable =>
        /\ head.num_buckets = PowerOfTwo[head.log2_num_buckets]
        /\ DOMAIN head.buckets = 0 .. head.num_buckets - 1
        /\ \A b \in DOMAIN head.buckets :
            /\ head.buckets[b].count = Len(head.buckets[b].chain)
            /\ head.buckets[b].count = Cardinality(ChainItems(b))
            /\ ChainItems(b) = {i \in Stored : BucketOf(i, head) = b}
        /\ SumFunction([b \in DOMAIN head.buckets |-> head.buckets[b].count])
             = head.num_items
        /\ head.num_items = Len(head.order)
        /\ head.num_items = Cardinality(Stored)
        /\ head.num_items > 0

(* The items of a key, in the order they were added, are searched latest   *)
(* first as long as the table has its initial size.  symbol.c relies on it *)
(* when a scope declares a name twice: HASH_ADD_KEYPTR looks for no        *)
(* duplicate.  An expansion turns every chain over and ends the guarantee. *)
NewestUntilExpanded ==
    head # NoTable /\ head.num_buckets = HASH_INITIAL_NUM_BUCKETS =>
        \A k \in DOMAIN hashv :
            LET added == {n \in DOMAIN head.order : key[head.order[n]] = k}
            IN  HASH_FIND(head, k) = IF added = {} THEN NoItem
                                     ELSE head.order[Max(added)]

(* "It is better to let its chain length grow to a longer                  *)
(* yet-still-bounded value": unless expansion is inhibited no chain grows  *)
(* past its bucket's multiple of the threshold, neither by an addition nor *)
(* by the expansion that moved several old chains' items together.         *)
ChainsBounded ==
    head # NoTable /\ head.noexpand = 0 =>
        \A b \in DOMAIN head.buckets :
            head.buckets[b].count <=
                (head.buckets[b].expand_mult + 1) * HASH_BKT_CAPACITY_THRESH

Abs == INSTANCE AbstractTable WITH stored <- Stored

(* The table is one: growth, chains and counts change nothing a user sees. *)
Refines == Abs!AbsSpec
=============================================================================
