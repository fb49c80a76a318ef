-------------------------------- MODULE UtHash --------------------------------
(***************************************************************************)
(* uthash's table as the proxy uses it: socketfds, keyed by the characters *)
(* of an address before its first zero byte, with one list through all     *)
(* items in the order of their addition (prev, next, tail) and one chain   *)
(* for each bucket (hh_prev, hh_next), whose number doubles.               *)
(*                                                                         *)
(* TCPHandle threads add without the mutex, checkLinkTimeOut finds and     *)
(* deletes.  HASH_ADD is three steps, the old tail, the new one and the    *)
(* bucket; HASH_DELETE is two, the list and the bucket.  The program has   *)
(* finer interleavings as well.                                            *)
(***************************************************************************)
EXTENDS Integers, SequencesExt

CONSTANTS Items,        \* bound: the struct proxy_socketfds that malloc may return
          KeyOf,        \* KeyOf[i]: the key of item i
          HashOf,       \* HashOf[k]: HASH_JEN of key k
          Adders,       \* the TCPHandle threads
          NumBuckets,   \* HASH_INITIAL_NUM_BUCKETS
          Threshold,    \* HASH_BKT_CAPACITY_THRESH
          MaxBuckets    \* bound: no item is added to more buckets than these

NULL == 0

ASSUME UtHashAssumption ==
    /\ IsFiniteSet(Items) /\ NULL \notin Items
    /\ HashOf \in [DOMAIN HashOf -> Nat]
    /\ KeyOf \in [Items -> DOMAIN HashOf]
    /\ NumBuckets \in Nat \ {0} /\ Threshold \in Nat \ {0}
    /\ MaxBuckets \in Nat

VARIABLES
    up,         \* FALSE once a call has met a corrupt table
    socketfds,  \* the first item, or NULL
    hh,         \* hh[i]: the UT_hash_handle of item i
    tbl,        \* the UT_hash_table
    adding,     \* adding[c]: the item HASH_ADD has linked but not yet hashed
    linked,     \* linked[c]: that item is the tail
    deleting,   \* the item HASH_DELETE has unlinked from the list only
    order,      \* history: the items in the table, in the order of their addition
    raced       \* history: a call has begun during another one

vars == <<up, socketfds, hh, tbl, adding, linked, deleting, order, raced>>

\* hh.tbl is TRUE if it leads to the table that exists.
NoHandle == [tbl |-> FALSE, prev |-> NULL, next |-> NULL,
             hh_prev |-> NULL, hh_next |-> NULL]

EmptyBucket == [hh_head |-> NULL, count |-> 0, expand_mult |-> 0]

\* HASH_MAKE_TABLE, with its first item.
NewTable(i) ==
    [num_items |-> 0, tail |-> i, num_buckets |-> NumBuckets,
     buckets |-> [b \in 0 .. NumBuckets - 1 |-> EmptyBucket],
     ineff_expands |-> 0, noexpand |-> FALSE]

Init ==
    /\ up = TRUE /\ socketfds = NULL
    /\ hh = [i \in Items |-> NoHandle]
    /\ tbl = NewTable(NULL)
    /\ adding = [c \in Adders |-> NULL] /\ linked = [c \in Adders |-> FALSE]
    /\ deleting = NULL
    /\ order = <<>> /\ raced = FALSE

\* What following "succ" from i comes to, one place after the other, and NULL from the
\* end on; a cyclic chain has no end.
Path(i, succ) ==
    LET at[n \in 0 .. Cardinality(Items)] ==
            IF n = 0 THEN i ELSE IF at[n - 1] = NULL THEN NULL ELSE succ[at[n - 1]]
    IN  at

Places(p) == {n \in DOMAIN p : p[n] # NULL}
Walk(p) == [n \in 1 .. Cardinality(Places(p)) |-> p[n - 1]]

\* The item at the first, or the last, of the places P.
FirstOf(p, P) == IF P = {} THEN NULL ELSE p[Min(P)]
LastOf(p, P) == IF P = {} THEN NULL ELSE p[Max(P)]

ByOrder == Walk(Path(socketfds, [i \in Items |-> hh[i].next]))

\* HASH_TO_BKT.
Bucket(i, t) == HashOf[KeyOf[i]] % t.num_buckets
BucketPath(h, t, b) == Path(t.buckets[b].hh_head, [i \in Items |-> h[i].hh_next])

\* (head)->hh.tbl leads to the table, and the buckets to items that are not freed,
\* and to an end.
Usable ==
    /\ socketfds # NULL /\ hh[socketfds].tbl
    /\ \A b \in 0 .. tbl.num_buckets - 1 :
          LET p == BucketPath(hh, tbl, b)
          IN  p[Cardinality(Items)] = NULL /\ \A n \in Places(p) : hh[p[n]].tbl

\* HASH_TO_BKT and HASH_FIND_IN_BKT, of HASH_FIND.
Find(k) ==
    LET p == BucketPath(hh, tbl, HashOf[k] % tbl.num_buckets)
    IN  IF socketfds = NULL THEN NULL ELSE FirstOf(p, {n \in Places(p) : KeyOf[p[n]] = k})

Busy == deleting # NULL \/ \E c \in Adders : adding[c] # NULL
-----------------------------------------------------------------------------
\* HASH_ADD: the item becomes the first one, of a new table, or the last one's next ...
AddLink(c, i) ==
    /\ up /\ adding[c] = NULL /\ i \notin ToSet(order) \cup {deleting}
    /\ tbl.num_buckets <= MaxBuckets
    /\ IF socketfds = NULL
       THEN /\ socketfds' = i
            /\ tbl' = NewTable(i)
            /\ hh' = [hh EXCEPT ![i].tbl = TRUE]
            /\ linked' = [linked EXCEPT ![c] = TRUE]
       ELSE /\ Usable
            /\ hh' = [hh EXCEPT ![tbl.tail].next = i]
            /\ UNCHANGED <<socketfds, tbl, linked>>
    /\ adding' = [adding EXCEPT ![c] = i]
    /\ order' = Append(order, i)
    /\ raced' = (raced \/ Busy)
    /\ UNCHANGED <<up, deleting>>

\* ... and the tail.
AddTail(c) ==
    /\ up /\ adding[c] # NULL /\ ~linked[c] /\ Usable
    /\ hh' = [hh EXCEPT ![adding[c]].prev = tbl.tail]
    /\ tbl' = [tbl EXCEPT !.tail = adding[c]]
    /\ linked' = [linked EXCEPT ![c] = TRUE]
    /\ UNCHANGED <<up, socketfds, adding, deleting, order, raced>>

\* Slip: HASH_TO_BKT is given the number of buckets before it is doubled.
NewBucketOld(i, t) == HashOf[KeyOf[i]] % t.num_buckets

NewBucket(i, t) == HashOf[KeyOf[i]] % (2 * t.num_buckets)

\* What of bucket b % num_buckets goes to the new bucket b: nothing does from elsewhere.
OldPath(h, t, b) == BucketPath(h, t, b % t.num_buckets)
Moved(h, t, b) ==
    {n \in Places(OldPath(h, t, b)) : NewBucket(OldPath(h, t, b)[n], t) = b}

\* HASH_EXPAND_BUCKETS, the handles: every item goes to the front of its new bucket.
NewHandle(h, t, i) ==
    LET b     == NewBucket(i, t)
        p     == OldPath(h, t, b)
        moved == Moved(h, t, b)
        n     == CHOOSE m \in moved : p[m] = i
    IN  IF \E m \in moved : p[m] = i
        THEN [h[i] EXCEPT !.hh_prev = FirstOf(p, {m \in moved : m > n}),
                          !.hh_next = LastOf(p, {m \in moved : m < n})]
        ELSE h[i]

\* The longest chain there need be in twice as many buckets.
Ideal(t) ==
    LET twice == 2 * t.num_buckets
    IN  t.num_items \div twice + (IF t.num_items % twice = 0 THEN 0 ELSE 1)

Excess(h, t, b) == Cardinality(Moved(h, t, b)) - Ideal(t)

\* A doubling that leaves more than half of the items in excess is an ineffective one.
IneffExpands(h, t) ==
    LET excess   == [b \in 0 .. 2 * t.num_buckets - 1 |-> Excess(h, t, b)]
        nonideal == FoldFunction(LAMBDA x, sum : sum + (IF x > 0 THEN x ELSE 0), 0, excess)
    IN  IF nonideal > t.num_items \div 2 THEN t.ineff_expands + 1 ELSE 0

\* The buckets, twice as many.
NewBuckets(h, t) ==
    [t EXCEPT
        !.num_buckets = 2 * @,
        !.buckets = [b \in 0 .. 2 * t.num_buckets - 1 |->
            LET count == Cardinality(Moved(h, t, b))
            IN  [hh_head |-> LastOf(OldPath(h, t, b), Moved(h, t, b)),
                 count |-> count,
                 expand_mult |-> IF Excess(h, t, b) > 0 THEN count \div Ideal(t) ELSE 0]],
        !.ineff_expands = IneffExpands(h, t),
        !.noexpand = @ \/ IneffExpands(h, t) > 1]

\* Slip: one item later.
FullLater(t, b) == t.buckets[b].count > (t.buckets[b].expand_mult + 1) * Threshold

Full(t, b) == t.buckets[b].count >= (t.buckets[b].expand_mult + 1) * Threshold

\* HASH_ADD_TO_BKT: the item goes to the front of its bucket ...
Chained(h, t, i) ==
    LET old == t.buckets[Bucket(i, t)].hh_head
    IN  [j \in Items |->
            IF j = i THEN [h[i] EXCEPT !.tbl = TRUE, !.hh_prev = NULL, !.hh_next = old]
            ELSE IF j = old THEN [h[j] EXCEPT !.hh_prev = i] ELSE h[j]]

\* ... and is counted ...
Counted(t, i) ==
    [t EXCEPT !.num_items = @ + 1,
              !.buckets[Bucket(i, t)].hh_head = i, !.buckets[Bucket(i, t)].count = @ + 1]

\* ... and the buckets double if that one is full.
AddBucket(c) ==
    LET i == adding[c]
        h == Chained(hh, tbl, i)
        t == Counted(tbl, i)
    IN  /\ up /\ linked[c] /\ Usable
        /\ IF Full(t, Bucket(i, t)) /\ ~tbl.noexpand
           THEN hh' = [j \in Items |-> NewHandle(h, t, j)] /\ tbl' = NewBuckets(h, t)
           ELSE hh' = h /\ tbl' = t
        /\ adding' = [adding EXCEPT ![c] = NULL]
        /\ linked' = [linked EXCEPT ![c] = FALSE]
        /\ UNCHANGED <<up, socketfds, deleting, order, raced>>

\* deletesockfd: HASH_FIND, and HASH_DELETE of the only item, which frees the table ...
DeleteLast(i) ==
    /\ up /\ deleting = NULL /\ Usable /\ i = Find(KeyOf[i])
    /\ hh[i].prev = NULL /\ hh[i].next = NULL
    /\ socketfds' = NULL /\ tbl' = NewTable(NULL)
    /\ hh' = [j \in Items |-> IF j = i THEN NoHandle ELSE [hh[j] EXCEPT !.tbl = FALSE]]
    /\ order' = RemoveFirst(order, i)
    /\ raced' = (raced \/ Busy)
    /\ UNCHANGED <<up, adding, linked, deleting>>

\* Slip: the tail is not moved back.
TailKept(i) == tbl' = tbl

MoveTail(i) == tbl' = IF tbl.tail = i THEN [tbl EXCEPT !.tail = hh[i].prev] ELSE tbl

\* ... or of another one, which leaves the list ...
DeleteUnlink(i) ==
    /\ up /\ deleting = NULL /\ Usable /\ i = Find(KeyOf[i])
    /\ hh[i].prev # NULL \/ hh[i].next # NULL
    /\ MoveTail(i)
    /\ socketfds' = IF hh[i].prev = NULL THEN hh[i].next ELSE socketfds
    /\ hh' = [j \in Items |-> [hh[j] EXCEPT
                 !.next = IF j = hh[i].prev THEN hh[i].next ELSE @,
                 !.prev = IF j = hh[i].next THEN hh[i].prev ELSE @]]
    /\ deleting' = i
    /\ order' = RemoveFirst(order, i)
    /\ raced' = (raced \/ Busy)
    /\ UNCHANGED <<up, adding, linked>>

\* Slip: the item behind the deleted one keeps its back pointer.
UnchainForward(h, i) == [j \in Items |->
    [h[j] EXCEPT !.hh_next = IF j = h[i].hh_prev THEN h[i].hh_next ELSE @]]

\* HASH_DEL_IN_BKT, of the handles ...
Unchain(h, i) == [j \in Items |-> [h[j] EXCEPT
    !.hh_next = IF j = h[i].hh_prev THEN h[i].hh_next ELSE @,
    !.hh_prev = IF j = h[i].hh_next THEN h[i].hh_prev ELSE @]]

\* ... of the bucket, and of HASH_DELETE, of the count of items.
Uncounted(h, t, i) ==
    [t EXCEPT !.num_items = @ - 1, !.buckets[Bucket(i, t)].count = @ - 1,
              !.buckets[Bucket(i, t)].hh_head = IF @ = i THEN h[i].hh_next ELSE @]

\* ... and its bucket, and is freed.
DeleteBucket ==
    /\ up /\ deleting # NULL /\ Usable
    /\ hh' = [Unchain(hh, deleting) EXCEPT ![deleting] = NoHandle]
    /\ tbl' = Uncounted(hh, tbl, deleting)
    /\ deleting' = NULL
    /\ UNCHANGED <<up, socketfds, adding, linked, order, raced>>

\* A call reads what is freed or was never assigned, or follows a chain for ever.
Corrupt ==
    /\ up /\ ~Usable
    /\ Busy \/ socketfds # NULL
    /\ up' = FALSE
    /\ UNCHANGED <<socketfds, hh, tbl, adding, linked, deleting, order, raced>>

Down == ~up /\ UNCHANGED vars

Next ==
    \/ \E c \in Adders : AddTail(c) \/ AddBucket(c) \/ \E i \in Items : AddLink(c, i)
    \/ \E i \in Items : DeleteLast(i) \/ DeleteUnlink(i)
    \/ DeleteBucket
    \/ Corrupt \/ Down

Spec == Init /\ [][Next]_vars
-----------------------------------------------------------------------------
Linked(s, prev) == \A n \in DOMAIN s : prev[s[n]] = IF n = 1 THEN NULL ELSE s[n - 1]

\* What HASH_FSCK checks after a call: the back pointers and the counts of every
\* bucket and of the list.
Checked ==
    socketfds # NULL =>
        LET p(b) == BucketPath(hh, tbl, b)
            all  == 0 .. tbl.num_buckets - 1
        IN  /\ \A b \in all :
                  /\ Linked(Walk(p(b)), [i \in Items |-> hh[i].hh_prev])
                  /\ tbl.buckets[b].count = Cardinality(Places(p(b)))
            /\ tbl.num_items =
                  Cardinality({bn \in all \X (0 .. Cardinality(Items)) : bn[2] \in Places(p(bn[1]))})
            /\ Linked(ByOrder, [i \in Items |-> hh[i].prev])
            /\ Len(ByOrder) = tbl.num_items

Fsck == up /\ ~Busy => Checked

\* Calls that do not overlap keep the table as HASH_FSCK wants it.
FsckUnlessRaced == raced \/ (up /\ Fsck)

\* ... the walk along hh.next that sendPackets and TAPHandle take visits each
\* item in the order of its addition, even in the middle of a call ...
WalkUnlessRaced == raced \/ ByOrder = order

\* ... a lookup finds an item if one has the key, through any expansion, and the
\* most recent one as long as there was none ...
FindUnlessRaced ==
    raced \/ Busy \/ \A k \in DOMAIN HashOf :
        LET same == {n \in DOMAIN order : KeyOf[order[n]] = k}
        IN  IF same = {} THEN Find(k) = NULL
            ELSE IF tbl.num_buckets = NumBuckets THEN Find(k) = order[Max(same)]
            ELSE \E n \in same : Find(k) = order[n]

\* ... and "expanding buckets [...] keeps a bound on the chain length": an add does not
\* leave a chain at its bound, only a doubling may, in one of its new buckets.
ChainsBounded ==
    raced \/ tbl.noexpand \/ \A b \in 0 .. tbl.num_buckets - 1 :
        LET count == tbl.buckets[b].count
            most  == (tbl.buckets[b].expand_mult + 1) * Threshold
        IN  count < most \/ (count = most /\ tbl.num_buckets > NumBuckets)
=============================================================================
