----------------------------- MODULE Containers -----------------------------
(***************************************************************************)
(* The command front end of pj1 (main.c): one command per loop iteration, *)
(* over three fixed arrays of ten named containers, listContainers,       *)
(* hashContainers and bitmapContainers, filled from l_cnt, h_cnt and      *)
(* b_cnt.  The arrays are tab[k] for the kinds of findStructureIndex's    *)
(* argument c ("l", "h", "b"), the counters cnt[k].  A slot's link is the  *)
(* creation number of the container it points to, so lists[id],           *)
(* hashes[id] and bitmaps[id] are the containers themselves: a list as a   *)
(* sequence of data, a hash as the set of its data, a bitmap as a         *)
(* sequence of bits (bit i at position i + 1).                            *)
(*                                                                         *)
(* The list, hash and bitmap library is not in the repository; its calls  *)
(* are modelled by what the Pintos kernel library they come from does,    *)
(* including its ASSERTs.  A command whose effect C leaves undefined (an  *)
(* array written past its end, memory used after it was freed, a signed    *)
(* overflow, a failed ASSERT, a list spliced into itself) sets fault: the *)
(* program's behaviour after it is not modelled, and no command follows.  *)
(***************************************************************************)
EXTENDS Integers, Sequences, SequencesExt, FiniteSets

CONSTANTS
  Cap,        \* the length of each container array (10)
  Names,      \* names a command line can give
  Prefix,     \* name -> "list", "bm", "hash" or "other": what dumpdata tests
  Data,       \* data values of list_insert, hash_insert, ...
  Pos,        \* indices a command line can give
  Sizes,      \* bit counts of "create bitmap" and bitmap_expand
  MaxLen,     \* bound on a list's length
  MaxBits,    \* bound on a bitmap's length
  MaxCmds,    \* bound on the number of commands read
  MallocMayFail, \* whether a list_item or hash_item malloc can fail
  NoName,     \* the empty name of a never-written slot
  NULL

ASSUME Cap \in Nat \ {0} /\ NoName \notin Names
ASSUME Prefix \in [Names -> {"list", "bm", "hash", "other"}]

Kinds == {"l", "h", "b"}
Slots == 0 .. Cap - 1
Ids == 0 .. Cap - 1
Faults == {"none", "overflow", "oob", "uaf", "assert", "int_overflow", "corrupt", "hang"}
INT_MAX == 2147483647

NamesOf(k) == {n \in Names : Prefix[n] = CASE k = "l" -> "list" [] k = "h" -> "hash" [] OTHER -> "bm"}

\* The names create may give a container of kind k: create accepts any
\* name, so besides the names with k's prefix, the names with no prefix.
CreateNames(k) == NamesOf(k) \cup {n \in Names : Prefix[n] = "other"}

VARIABLES
  tab,      \* kind -> slot -> [name, link]
  cnt,      \* kind -> l_cnt, h_cnt, b_cnt
  lists,    \* id -> the list's data
  hashes,   \* id -> the hash's data
  bitmaps,  \* id -> the bitmap's bits
  freed,    \* <<kind, id>> of containers bitmap_destroy or hash_destroy freed
  fault,    \* the first undefined behaviour, or "none"
  last,     \* the last command: [op, name]
  ncmd,     \* commands read
  quit      \* "quit" ended the loop

vars == <<tab, cnt, lists, hashes, bitmaps, freed, fault, last, ncmd, quit>>
store == <<lists, hashes, bitmaps>>

Empty == [name |-> NoName, link |-> NULL]

Init ==
  /\ tab = [k \in Kinds |-> [i \in Slots |-> Empty]]
  /\ cnt = [k \in Kinds |-> 0]
  /\ lists = [id \in Ids |-> <<>>]
  /\ hashes = [id \in Ids |-> {}]
  /\ bitmaps = [id \in Ids |-> <<>>]
  /\ freed = {}
  /\ fault = "none"
  /\ last = [op |-> "none", name |-> NoName]
  /\ ncmd = 0
  /\ quit = FALSE

(***************************************************************************)
(* findStructureIndex: the first of all ten slots of kind c whose name is  *)
(* inst, or -1.                                                            *)
(***************************************************************************)
findStructureIndex(c, inst) ==
  IF \E i \in Slots : tab[c][i].name = inst
  THEN CHOOSE i \in Slots : tab[c][i].name = inst /\ \A j \in 0 .. i - 1 : tab[c][j].name # inst
  ELSE -1

\* The walk of list_insert, list_remove, list_splice and list_swap: from
\* list_begin, i < pos steps while not at list_end; Len(s) is list_end.
Walk(s, pos) == IF pos <= 0 THEN 0 ELSE IF pos < Len(s) THEN pos ELSE Len(s)

\* Reading one command line.
Read(op, n) ==
  /\ fault = "none" /\ ~quit /\ ncmd < MaxCmds
  /\ ncmd' = ncmd + 1
  /\ last' = [op |-> op, name |-> n]

Fail(f) == fault' = f /\ UNCHANGED <<tab, cnt, store, freed, quit>>

(***************************************************************************)
(* The prologue of every list_*, hash_* and bitmap_* handler: look the    *)
(* name up, print "not found" and continue when it is missing, otherwise  *)
(* use the container through the slot's link, Body(id).  A container      *)
(* "delete" destroyed is still named, and using it is a use after free.   *)
(***************************************************************************)
Handle(k, n, Body(_)) ==
  LET i == findStructureIndex(k, n) IN
  \/ i < 0 /\ UNCHANGED <<tab, cnt, store, freed, fault, quit>>
  \/ i >= 0 /\ <<k, tab[k][i].link>> \in freed /\ Fail("uaf")
  \/ i >= 0 /\ <<k, tab[k][i].link>> \notin freed /\ Body(tab[k][i].link)

(***************************************************************************)
(* create list|bitmap|hash NAME [BITS]: the new container goes into slot  *)
(* cnt[k], which is then counted; slot Cap is past the array's end.        *)
(***************************************************************************)
\* A create that names the slot but forgets to store the new container in it.
CreateNoLink(k, n, bits) ==
  /\ Read("create", n)
  /\ IF cnt[k] = Cap
     THEN Fail("overflow")
     ELSE /\ tab' = [tab EXCEPT ![k][cnt[k]].name = n]
          /\ cnt' = [cnt EXCEPT ![k] = @ + 1]
          /\ UNCHANGED <<store, freed, fault, quit>>

Create(k, n, bits) ==
  /\ Read("create", n)
  /\ IF cnt[k] = Cap
     THEN Fail("overflow")
     ELSE /\ tab' = [tab EXCEPT ![k][cnt[k]] = [name |-> n, link |-> cnt[k]]]
          /\ cnt' = [cnt EXCEPT ![k] = @ + 1]
          /\ lists' = IF k = "l" THEN [lists EXCEPT ![cnt[k]] = <<>>] ELSE lists
          /\ hashes' = IF k = "h" THEN [hashes EXCEPT ![cnt[k]] = {}] ELSE hashes
          /\ bitmaps' = IF k = "b" THEN [bitmaps EXCEPT ![cnt[k]] = [b \in 1 .. bits |-> FALSE]] ELSE bitmaps
          /\ UNCHANGED <<freed, fault, quit>>

(***************************************************************************)
(* delete NAME: the first slot i, scanning list, then bitmap, then hash   *)
(* at each i, that carries the name.  A list's slot is removed by moving  *)
(* slots i+1 .. 9 down one (slot 9 keeps its value, l_cnt is unchanged);  *)
(* a bitmap or hash is destroyed and its slot left as it was.             *)
(***************************************************************************)
Named(k, i, n) == tab[k][i].name = n
DeleteAt(n) == {i \in Slots : Named("l", i, n) \/ Named("b", i, n) \/ Named("h", i, n)}

ShiftDown(row, i) == [j \in Slots |-> IF j >= i /\ j < Cap - 1 THEN row[j + 1] ELSE row[j]]

Destroy(k, i) ==
  IF <<k, tab[k][i].link>> \in freed
  THEN Fail("uaf")
  ELSE /\ freed' = freed \cup {<<k, tab[k][i].link>>}
       /\ UNCHANGED <<tab, cnt, store, fault, quit>>

\* A delete that empties a list's slot and gives it back to l_cnt, without
\* moving the later slots down.
DeleteClearsSlot(n) ==
  /\ Read("delete", n)
  /\ IF DeleteAt(n) = {}
     THEN UNCHANGED <<tab, cnt, store, freed, fault, quit>>
     ELSE LET i == CHOOSE x \in DeleteAt(n) : \A y \in DeleteAt(n) : x <= y IN
          CASE Named("l", i, n) ->
                 /\ tab' = [tab EXCEPT !["l"][i] = Empty]
                 /\ cnt' = [cnt EXCEPT !["l"] = @ - 1]
                 /\ UNCHANGED <<store, freed, fault, quit>>
            [] Named("b", i, n) -> Destroy("b", i)
            [] OTHER -> Destroy("h", i)

Delete(n) ==
  /\ Read("delete", n)
  /\ IF DeleteAt(n) = {}
     THEN UNCHANGED <<tab, cnt, store, freed, fault, quit>>
     ELSE LET i == CHOOSE x \in DeleteAt(n) : \A y \in DeleteAt(n) : x <= y IN
          CASE Named("l", i, n) ->
                 /\ tab' = [tab EXCEPT !["l"] = ShiftDown(@, i)]
                 /\ UNCHANGED <<cnt, store, freed, fault, quit>>
            [] Named("b", i, n) -> Destroy("b", i)
            [] OTHER -> Destroy("h", i)

(***************************************************************************)
(* dumpdata NAME: which array is searched depends on the name's prefix.   *)
(* The bitmap branch keeps findStructureIndex's -1 in the size_t b_idx,    *)
(* so its b_idx < 0 test never holds and a missing bitmap is read at       *)
(* bitmapContainers[SIZE_MAX].                                             *)
(***************************************************************************)
ReadOnly(id) == UNCHANGED <<tab, cnt, store, freed, fault, quit>>

Dumpdata(n) ==
  /\ Read("dumpdata", n)
  /\ CASE Prefix[n] = "list" -> Handle("l", n, ReadOnly)
       [] Prefix[n] = "hash" -> Handle("h", n, ReadOnly)
       [] Prefix[n] = "bm" /\ findStructureIndex("b", n) < 0 -> Fail("oob")
       [] Prefix[n] = "bm" -> Handle("b", n, ReadOnly)
       [] OTHER -> ReadOnly(NULL)

Quit ==
  /\ Read("quit", NoName)
  /\ quit' = TRUE
  /\ UNCHANGED <<tab, cnt, store, freed, fault>>

(***************************************************************************)
(* List commands.  Every handler looks the name up first (Handle); the     *)
(* ones that malloc a list_item continue on a failed malloc.               *)
(***************************************************************************)
SetList(id, s) == lists' = [lists EXCEPT ![id] = s] /\ UNCHANGED <<tab, cnt, hashes, bitmaps, freed, fault, quit>>

\* list_insert NAME POS DATA: before the element the walk stops at.
ListInsert(n, pos, d) ==
  /\ Read("list_insert", n)
  /\ Handle("l", n, LAMBDA id :
       /\ Len(lists[id]) < MaxLen
       /\ \/ SetList(id, InsertAt(lists[id], Walk(lists[id], pos) + 1, d))
          \/ MallocMayFail /\ ReadOnly(id))

\* list_insert_ordered NAME DATA: before the first element greater than DATA.
FirstGreater(s, d) == IF \E j \in 1 .. Len(s) : s[j] > d
                      THEN CHOOSE j \in 1 .. Len(s) : s[j] > d /\ \A x \in 1 .. j - 1 : s[x] <= d
                      ELSE Len(s) + 1

ListInsertOrdered(n, d) ==
  /\ Read("list_insert_ordered", n)
  /\ Handle("l", n, LAMBDA id :
       /\ Len(lists[id]) < MaxLen
       /\ \/ SetList(id, InsertAt(lists[id], FirstGreater(lists[id], d), d))
          \/ MallocMayFail /\ ReadOnly(id))

\* list_push_front / list_push_back NAME DATA.
ListPush(op, n, d) ==
  /\ Read(op, n)
  /\ Handle("l", n, LAMBDA id :
       /\ Len(lists[id]) < MaxLen
       /\ \/ SetList(id, IF op = "list_push_front" THEN <<d>> \o lists[id] ELSE Append(lists[id], d))
          \/ MallocMayFail /\ ReadOnly(id))

\* list_pop_front / list_pop_back NAME: "already empty" on an empty list.
ListPop(op, n) ==
  /\ Read(op, n)
  /\ Handle("l", n, LAMBDA id :
       IF lists[id] = <<>> THEN ReadOnly(id)
       ELSE SetList(id, IF op = "list_pop_front" THEN Tail(lists[id]) ELSE Front(lists[id])))

(***************************************************************************)
(* list_front, list_back, list_empty, list_size, list_min, list_max NAME.  *)
(* list_front and list_back ASSERT a non-empty list, so main's test of the *)
(* result is never reached on an empty one; list_min and list_max return  *)
(* list_end, which is not NULL, and main reads its "data" past the end of *)
(* the struct list.                                                        *)
(***************************************************************************)
ListQueryOps == {"list_front", "list_back", "list_empty", "list_size", "list_min", "list_max"}

ListQuery(op, n) ==
  /\ Read(op, n)
  /\ Handle("l", n, LAMBDA id :
       CASE lists[id] # <<>> \/ op \in {"list_empty", "list_size"} -> ReadOnly(id)
         [] op \in {"list_front", "list_back"} -> Fail("assert")
         [] OTHER -> Fail("oob"))

(***************************************************************************)
(* list_splice DST BEFORE SRC FIRST LAST: the three walks, "Invalid index" *)
(* if any of them reaches list_end, then list_splice(before, first, last) *)
(* moves SRC's [FIRST, LAST) before DST's BEFORE.  Nothing checks that    *)
(* LAST is not before FIRST, or that BEFORE lies outside the range when   *)
(* DST and SRC are one list: list_splice then unlinks a range that is not *)
(* one, and the lists' links no longer form lists.                        *)
(***************************************************************************)
Splice(s1, b, s2, f, l) ==
  LET seg == SubSeq(s2, f + 1, l)
      rest == SubSeq(s2, 1, f) \o SubSeq(s2, l + 1, Len(s2))
  IN  <<SubSeq(s1, 1, b) \o seg \o SubSeq(s1, b + 1, Len(s1)), rest>>

ListSplice(n1, before, n2, first, lst) ==
  LET i1 == findStructureIndex("l", n1)
      i2 == findStructureIndex("l", n2)
      d == tab["l"][i1].link
      s == tab["l"][i2].link
      b == Walk(lists[d], before)
      f == Walk(lists[s], first)
      l == Walk(lists[s], lst)
  IN
  /\ Read("list_splice", n1)
  /\ CASE i1 < 0 \/ i2 < 0 -> ReadOnly(NULL)
       [] b = Len(lists[d]) \/ f = Len(lists[s]) \/ l = Len(lists[s]) -> ReadOnly(NULL)
       [] f = l -> ReadOnly(NULL)
       [] f > l \/ (d = s /\ f <= b /\ b < l) -> Fail("corrupt")
       [] d = s ->
            LET seg == SubSeq(lists[s], f + 1, l)
                rest == SubSeq(lists[s], 1, f) \o SubSeq(lists[s], l + 1, Len(lists[s]))
                at == IF b < f THEN b ELSE b - (l - f)
            IN SetList(s, SubSeq(rest, 1, at) \o seg \o SubSeq(rest, at + 1, Len(rest)))
       [] OTHER ->
            LET r == Splice(lists[d], b, lists[s], f, l) IN
            /\ Len(r[1]) <= MaxLen
            /\ lists' = [lists EXCEPT ![d] = r[1], ![s] = r[2]]
            /\ UNCHANGED <<tab, cnt, hashes, bitmaps, freed, fault, quit>>

\* list_remove NAME IDX: unlink the element the walk stops at, or "Invalid index".
ListRemove(n, idx) ==
  /\ Read("list_remove", n)
  /\ Handle("l", n, LAMBDA id :
       LET w == Walk(lists[id], idx) IN
       IF w = Len(lists[id]) THEN ReadOnly(id) ELSE SetList(id, RemoveAt(lists[id], w + 1)))

(***************************************************************************)
(* list_unique NAME [DUP]: list_unique's loop.  At each element it removes *)
(* an equal successor, pushed onto DUP when DUP names a list, and moves on *)
(* only when the successor differs.  main never checks that DUP is not the *)
(* list itself; then a removed element comes back at the end, and the     *)
(* loop never ends once the last two elements are equal.  The loop's      *)
(* configurations are finite, so a repeated one is that endless loop.     *)
(***************************************************************************)
RECURSIVE UniqueLoop(_, _, _, _, _)
UniqueLoop(s, dup, e, self, seen) ==
  IF <<s, e>> \in seen THEN "hang"
  ELSE IF e >= Len(s) THEN <<s, dup>>
  ELSE IF s[e] # s[e + 1] THEN UniqueLoop(s, dup, e + 1, self, seen \cup {<<s, e>>})
  ELSE IF self THEN UniqueLoop(RemoveAt(s, e + 1) \o <<s[e + 1]>>, dup, e, self, seen \cup {<<s, e>>})
  ELSE UniqueLoop(RemoveAt(s, e + 1), Append(dup, s[e + 1]), e, self, seen \cup {<<s, e>>})

ListUnique(n, dn) ==
  /\ Read("list_unique", n)
  /\ Handle("l", n, LAMBDA id :
       LET j == IF dn = NoName THEN -1 ELSE findStructureIndex("l", dn)
           dup == IF j < 0 THEN NULL ELSE tab["l"][j].link
           r == UniqueLoop(lists[id], IF dup = NULL THEN <<>> ELSE lists[dup], 1, dup = id, {})
       IN  CASE r = "hang" -> Fail("hang")
             [] dup = NULL \/ dup = id -> SetList(id, r[1])
             [] OTHER -> /\ Len(r[2]) <= MaxLen
                         /\ lists' = [lists EXCEPT ![id] = r[1], ![dup] = r[2]]
                         /\ UNCHANGED <<tab, cnt, hashes, bitmaps, freed, fault, quit>>)

\* list_swap NAME I J: swap the elements both walks stop at, unless either is list_end.
ListSwap(n, a, b) ==
  /\ Read("list_swap", n)
  /\ Handle("l", n, LAMBDA id :
       LET s == lists[id]
           x == Walk(s, a) + 1
           y == Walk(s, b) + 1
       IN  IF x > Len(s) \/ y > Len(s) THEN ReadOnly(id)
           ELSE SetList(id, [s EXCEPT ![x] = s[y], ![y] = s[x]]))

\* The permutations of s (list_shuffle may leave any of them).
Orderings(s) == {t \in [1 .. Len(s) -> ToSet(s)] : ToBag(t) = ToBag(s)}

\* list_reverse, list_sort (ascending by compareListItems) and list_shuffle NAME.
ListReorder(op, n) ==
  /\ Read(op, n)
  /\ Handle("l", n, LAMBDA id :
       \E t \in Orderings(lists[id]) :
         /\ CASE op = "list_reverse" -> t = Reverse(lists[id])
              [] op = "list_sort" -> \A j \in 1 .. Len(t) - 1 : t[j] <= t[j + 1]
              [] OTHER -> TRUE
         /\ SetList(id, t))

(***************************************************************************)
(* Hash commands.  A hash holds at most one item per data value           *)
(* (compareHashItems); hash_insert of a present value keeps the old item  *)
(* and the new one is never freed.                                        *)
(***************************************************************************)
SetHash(id, h) == hashes' = [hashes EXCEPT ![id] = h] /\ UNCHANGED <<tab, cnt, lists, bitmaps, freed, fault, quit>>

\* hash_insert / hash_replace / hash_delete NAME DATA.
HashUpdate(op, n, d) ==
  /\ Read(op, n)
  /\ Handle("h", n, LAMBDA id :
       CASE op = "hash_delete" -> SetHash(id, hashes[id] \ {d})
         [] OTHER -> \/ SetHash(id, hashes[id] \cup {d})
                     \/ MallocMayFail /\ ReadOnly(id))

\* hash_find, hash_size, hash_empty NAME.
HashQuery(op, n) ==
  /\ Read(op, n)
  /\ Handle("h", n, ReadOnly)

(***************************************************************************)
(* hash_apply NAME square|triple: data *= data, data *= data * data, on   *)
(* every item, in int; a result past INT_MAX is a signed overflow.  Any   *)
(* other function name is refused.                                         *)
(***************************************************************************)
Square(x) == x * x
Triple(x) == x * x * x
Fits(f, x) == IF f = "square" THEN x <= 46340 /\ x >= -46340 ELSE x <= 1290 /\ x >= -1290

HashApply(n, f) ==
  /\ Read("hash_apply", n)
  /\ Handle("h", n, LAMBDA id :
       CASE f \notin {"square", "triple"} -> ReadOnly(id)
         [] \E x \in hashes[id] : ~Fits(f, x) -> Fail("int_overflow")
         [] OTHER -> SetHash(id, {IF f = "square" THEN Square(x) ELSE Triple(x) : x \in hashes[id]}))

\* hash_clear NAME: every item is destroyed.
HashClear(n) ==
  /\ Read("hash_clear", n)
  /\ Handle("h", n, LAMBDA id : SetHash(id, {}))

(***************************************************************************)
(* Bitmap commands.  The library ASSERTs every bit index below the bit    *)
(* count, and START + COUNT at most the bit count for a range; main checks *)
(* neither.  The second bitmap_test and bitmap_flip branches of main's     *)
(* if-chain repeat the first ones and are never reached.                   *)
(***************************************************************************)
SetBits(id, bits) == bitmaps' = [bitmaps EXCEPT ![id] = bits] /\ UNCHANGED <<tab, cnt, lists, hashes, freed, fault, quit>>

InRange(id, start, count) == start + count <= Len(bitmaps[id])

\* bitmap_set NAME IDX true|false, bitmap_mark, bitmap_reset, bitmap_flip NAME IDX.
BitmapBit(op, n, idx, v) ==
  /\ Read(op, n)
  /\ Handle("b", n, LAMBDA id :
       IF idx >= Len(bitmaps[id]) THEN Fail("assert")
       ELSE SetBits(id, [bitmaps[id] EXCEPT ![idx + 1] =
                           CASE op = "bitmap_set" -> v
                             [] op = "bitmap_mark" -> TRUE
                             [] op = "bitmap_reset" -> FALSE
                             [] OTHER -> ~@]))

\* bitmap_set_all NAME true|false.
BitmapSetAll(n, v) ==
  /\ Read("bitmap_set_all", n)
  /\ Handle("b", n, LAMBDA id : SetBits(id, [j \in DOMAIN bitmaps[id] |-> v]))

\* bitmap_set_multiple NAME START COUNT true|false.
BitmapSetMultiple(n, start, count, v) ==
  /\ Read("bitmap_set_multiple", n)
  /\ Handle("b", n, LAMBDA id :
       IF ~InRange(id, start, count) THEN Fail("assert")
       ELSE SetBits(id, [j \in DOMAIN bitmaps[id] |-> IF j > start /\ j <= start + count THEN v ELSE bitmaps[id][j]]))

(***************************************************************************)
(* bitmap_size, bitmap_test, bitmap_contains, bitmap_count, bitmap_any,   *)
(* bitmap_none, bitmap_all, bitmap_scan, bitmap_dump NAME ...: they only  *)
(* read the bitmap; test ASSERTs its index, the range queries their range,*)
(* scan only START within the bitmap.                                     *)
(***************************************************************************)
BitmapQueryOps == {"bitmap_size", "bitmap_test", "bitmap_contains", "bitmap_any", "bitmap_scan", "bitmap_dump"}

BitmapQuery(op, n, start, count) ==
  /\ Read(op, n)
  /\ Handle("b", n, LAMBDA id :
       CASE op = "bitmap_test" /\ start >= Len(bitmaps[id]) -> Fail("assert")
         [] op \in {"bitmap_contains", "bitmap_any"} /\ ~InRange(id, start, count) -> Fail("assert")
         [] op = "bitmap_scan" /\ start > Len(bitmaps[id]) -> Fail("assert")
         [] OTHER -> ReadOnly(id))

(***************************************************************************)
(* bitmap_scan_and_flip NAME START COUNT true|false: the first group of   *)
(* COUNT consecutive bits equal to the value, at or after START, is        *)
(* flipped; when there is none, nothing changes.                          *)
(***************************************************************************)
Group(bits, at, count, v) == \A j \in at + 1 .. at + count : bits[j] = v
Groups(bits, start, count, v) == {at \in start .. Len(bits) - count : Group(bits, at, count, v)}

BitmapScanAndFlip(n, start, count, v) ==
  /\ Read("bitmap_scan_and_flip", n)
  /\ Handle("b", n, LAMBDA id :
       LET g == Groups(bitmaps[id], start, count, v) IN
       CASE start > Len(bitmaps[id]) -> Fail("assert")
         [] g = {} -> ReadOnly(id)
         [] OTHER -> LET at == CHOOSE x \in g : \A y \in g : x <= y IN
                     SetBits(id, [j \in DOMAIN bitmaps[id] |->
                                    IF j > at /\ j <= at + count THEN ~v ELSE bitmaps[id][j]]))

\* bitmap_expand NAME BITS: the link is replaced by a bitmap BITS bits longer.
BitmapExpand(n, bits) ==
  /\ Read("bitmap_expand", n)
  /\ Handle("b", n, LAMBDA id :
       /\ Len(bitmaps[id]) + bits <= MaxBits
       /\ SetBits(id, bitmaps[id] \o [j \in 1 .. bits |-> FALSE]))

(***************************************************************************)
(* main's loop: one command line per step, its arguments drawn from the   *)
(* constants.  The loop ends at "quit" or at the first undefined          *)
(* behaviour, and after MaxCmds lines.                                    *)
(***************************************************************************)
Bools == {TRUE, FALSE}
ListNames == NamesOf("l")

ListCommand ==
  \E n \in ListNames :
    \/ \E p \in Pos, d \in Data : ListInsert(n, p, d)
    \/ \E d \in Data : ListInsertOrdered(n, d)
    \/ \E op \in {"list_push_front", "list_push_back"}, d \in Data : ListPush(op, n, d)
    \/ \E op \in {"list_pop_front", "list_pop_back"} : ListPop(op, n)
    \/ \E op \in ListQueryOps : ListQuery(op, n)
    \/ \E p \in Pos, n2 \in ListNames, f, l \in Pos : ListSplice(n, p, n2, f, l)
    \/ \E p \in Pos : ListRemove(n, p)
    \/ \E dn \in ListNames \cup {NoName} : ListUnique(n, dn)
    \/ \E a, b \in Pos : ListSwap(n, a, b)
    \/ \E op \in {"list_reverse", "list_sort", "list_shuffle"} : ListReorder(op, n)

HashCommand ==
  \E n \in NamesOf("h") :
    \/ \E op \in {"hash_insert", "hash_replace", "hash_delete"}, d \in Data : HashUpdate(op, n, d)
    \/ \E op \in {"hash_find", "hash_size", "hash_empty"} : HashQuery(op, n)
    \/ \E f \in {"square", "triple", "other"} : HashApply(n, f)
    \/ HashClear(n)

BitmapCommand ==
  \E n \in NamesOf("b") :
    \/ \E op \in {"bitmap_set", "bitmap_mark", "bitmap_reset", "bitmap_flip"}, p \in Pos, v \in Bools :
         BitmapBit(op, n, p, v)
    \/ \E v \in Bools : BitmapSetAll(n, v)
    \/ \E p, c \in Pos, v \in Bools : BitmapSetMultiple(n, p, c, v)
    \/ \E op \in BitmapQueryOps, p, c \in Pos : BitmapQuery(op, n, p, c)
    \/ \E p, c \in Pos, v \in Bools : BitmapScanAndFlip(n, p, c, v)
    \/ \E b \in Sizes : BitmapExpand(n, b)

Next ==
  \/ \E k \in Kinds, b \in Sizes : \E n \in CreateNames(k) : Create(k, n, IF k = "b" THEN b ELSE 0)
  \/ \E n \in Names : Delete(n) \/ Dumpdata(n)
  \/ Quit
  \/ ListCommand
  \/ HashCommand
  \/ BitmapCommand

Spec == Init /\ [][Next]_vars

(***************************************************************************)
(* Properties.                                                             *)
(***************************************************************************)
Slot == [name : Names \cup {NoName}, link : Ids \cup {NULL}]

TypeOK ==
  /\ tab \in [Kinds -> [Slots -> Slot]]
  /\ \A k \in Kinds, i \in Slots : (tab[k][i].name = NoName) = (tab[k][i].link = NULL)
  /\ cnt \in [Kinds -> 0 .. Cap]
  /\ lists \in [Ids -> Seq(Int)] /\ hashes \in [Ids -> SUBSET Int] /\ bitmaps \in [Ids -> Seq(BOOLEAN)]
  /\ freed \subseteq {"h", "b"} \X Ids
  /\ fault \in Faults /\ ncmd \in 0 .. MaxCmds /\ quit \in BOOLEAN

\* "create" writes slot l_cnt (h_cnt, b_cnt) although "delete" never lowers
\* the counter: delete moves the later list slots down and leaves bitmap
\* and hash slots in place, so the slot create writes never names a
\* container, and creating one never overwrites another.
NoLiveSlotOverwritten ==
  [][last'.op = "create" =>
       \A k \in Kinds, i \in Slots : tab[k][i].name # NoName => tab'[k][i] = tab[k][i]]_vars

=============================================================================
