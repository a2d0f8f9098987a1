----------------------------- MODULE EvalCounts -----------------------------
(***************************************************************************)
(* check_mem: the interpreter (src/eval/eval.c) counts the references that *)
(* memory holds to each string, through store, retain and release, and     *)
(* knows which words of memory hold a string, through everything that      *)
(* moves bytes.  A program that breaks a rule of the strings in memory     *)
(* ends with BADMEM, at the access or when the counts are compared with    *)
(* memory at the end.                                                      *)
(*                                                                         *)
(* Abstractions.  An address counts bytes and a word has WordSize of them. *)
(* A word of memory holds 0, a string, or other bytes that are not zero    *)
(* (Other); a part of such a word is not zero either.  One register        *)
(* stands for the values of type str of the calls alive.  Steps by which   *)
(* no byte, count or object changes (the branches, the traps raised where  *)
(* they are worded) are left out, and once BADMEM is found the run is over *)
(* and its counts are not read again.                                      *)
(***************************************************************************)
EXTENDS Objmap, FiniteSets, FiniteSetsExt

CONSTANTS
  WordSize,   \* the bytes of a str in memory, and its alignment
  Low,        \* LOW_MEMORY: no object lies below
  Str,        \* the counted strings and BigInts
  Const,      \* an immortal string, never counted
  Bytes,      \* the base of the bytes of each string, an object too
  Glob,       \* the base of a global that starts with Const in its first word
  Slots,      \* the base of the slot of the call at each depth
  Block,      \* the bases that mem_alloc gives, never reused
  CStr,       \* the bases that cstr_new gives
  SlotType,   \* the type of the slot of each depth, or None: untyped
  Other,      \* bytes that are not a string, not all zero
  Ptr,        \* the pointers a program tries
  Word,       \* the words of the objects: aligned, and whole in one
  Len,        \* the lengths it tries
  Elem,       \* the sizes of elements given to mem_reverse
  Types,      \* types that hold strings: their size and the offsets of the str
  MaxOwed     \* bound: references a program owes, or has too many, per string

MaxDepth == Cardinality(DOMAIN Slots)

ASSUME CountsAssumption ==
  /\ WordSize \in Nat \ {0} /\ Low \in Nat
  /\ \A b \in Base : b > Low
  /\ \A b \in {Glob} \cup Block \cup CStr \cup {Slots[d] : d \in DOMAIN Slots} :
       b % WordSize = 0
  /\ Word = {w \in UNION {b..(b + SizeOf[b] - WordSize) : b \in Base} :
               w % WordSize = 0}
  /\ Const \notin Str /\ Other \notin Str \cup {Const}
  /\ 0 \notin Str \cup {Const, Other}
  /\ SizeOf[Glob] >= WordSize

\* The objects of a run have a base each, those of a kind none of another.
ASSUME BasesAssumption ==
  /\ MaxDepth \in Nat
  /\ Slots \in [1..MaxDepth -> Base] /\ Bytes \in [Str -> Base]
  /\ Block \subseteq Base /\ CStr \subseteq Base /\ Glob \in Base
  /\ \A d, e \in 1..MaxDepth : d # e => Slots[d] # Slots[e]
  /\ \A s, t \in Str : s # t => Bytes[s] # Bytes[t]
  /\ \A d \in 1..MaxDepth :
       Slots[d] \notin {Glob} \cup Block \cup CStr \cup {Bytes[s] : s \in Str}
  /\ \A s \in Str : Bytes[s] \notin {Glob} \cup Block \cup CStr
  /\ Glob \notin Block \cup CStr /\ Block \cap CStr = {}
ASSUME AccessAssumption ==
  /\ Ptr \subseteq Int /\ Len \subseteq Nat /\ Elem \subseteq Nat \ {0}
  /\ IsFiniteSet(Word)
  /\ \A t \in (Types \cup {SlotType[d] : d \in DOMAIN Slots}) \ {None} :
       t.size \in Nat /\ t.strs \subseteq Nat

VARIABLES
  objs,       \* e->objs
  mem,        \* the words of the memory alive, 0 elsewhere
  words,      \* e->words
  mrefs,      \* the mrefs of each string
  listed,     \* e->counted
  vals,       \* e->vals: the strings made and not freed
  v,          \* the register
  block,      \* e->heap and the arena
  cstrs,      \* e->cstrs
  depth,      \* e->depth
  status,     \* see Status
  owed        \* not of the code: what the program owes (Ledger)

vars == <<objs, mem, words, mrefs, listed, vals, v, block, cstrs, depth,
          status, owed>>

\* "exc": an exception a handler may catch is on its way; "returned": from
\* the entry; "ended": every count matched; "unmatched": BADMEM at the end;
\* "badmem": BADMEM at an access; "bad": a wrong module.
Status == {"ok", "exc", "returned", "ended", "unmatched", "badmem", "bad"}

Running == status = "ok" /\ depth > 0
Fails(s) == status' = s
            /\ UNCHANGED <<mem, words, mrefs, listed, vals, v, block, cstrs,
                           depth, owed>>

-----------------------------------------------------------------------------
(* Memory. *)

\* wild: not n bytes of the program's memory.
Wild(m, p, n) == n > 0 /\ (p <= Low \/ ~Holds(m, p, n))
AskedFor(m, p, n) == IF n > 0 /\ p > Low THEN Asked(m, p, n) ELSE m

\* The words that the loops of no_str, forget and mem_copy visit: from the
\* word of p, even if n is 0.
Touched(p, n) == {w \in Word : p - (p % WordSize) <= w /\ w < p + n}
Whole(w, p, n) == p <= w /\ w + WordSize <= p + n

NoStr(p, n) == Touched(p, n) \cap words = {}
CanForget(p, n) == \A w \in Touched(p, n) \cap words : Whole(w, p, n)

\* What a load of one word reads.
At(p) ==
  IF p \in Word THEN mem[p]
  ELSE IF \A w \in Touched(p, WordSize) : mem[w] = 0 THEN 0 ELSE Other

HeldIn(m, s) == Cardinality({w \in Word : m[w] = s})

\* Memory becomes m, uncounted: what it gains or loses is owed.
Uncounted(m) ==
  /\ mem' = m
  /\ owed' = [s \in Str |-> owed[s] + HeldIn(m, s) - HeldIn(mem, s)]
  /\ \A s \in Str : owed'[s] \in (-MaxOwed)..MaxOwed

\* n bytes from p become x: whole words hold it, a part of a word is zero
\* if both were.
Filled(p, n, x) ==
  [w \in Word |->
     IF w \notin Touched(p, n) \/ n = 0 THEN mem[w]
     ELSE IF Whole(w, p, n) THEN x
     ELSE IF x = 0 /\ mem[w] = 0 THEN 0 ELSE Other]

\* n bytes from src moved to dst.
MovedTo(dst, src, n) ==
  [w \in Word |->
     IF w \notin Touched(dst, n) \/ n = 0 THEN mem[w]
     ELSE IF Whole(w, dst, n) THEN At(src + (w - dst))
     ELSE IF mem[w] = 0 /\ \A u \in Touched(src, n) : mem[u] = 0 THEN 0
     ELSE Other]

\* The object at b is made, full of x.
Made(b, x) ==
  [w \in Word |-> IF w \in Touched(b, SizeOf[b]) THEN x ELSE mem[w]]

\* The objects at the bases of B are gone: nothing reads them again.
Gone(m, B) ==
  [w \in Word |->
     IF \E b \in B : w \in Touched(b, SizeOf[b]) THEN 0 ELSE m[w]]

\* count, for every string of S at once: the new mrefs.
Counted(S, d) == [s \in Str |-> IF s \in S THEN mrefs[s] + d ELSE mrefs[s]]

-----------------------------------------------------------------------------
(* Instructions and calls of the run time that touch memory. *)

MemRest == UNCHANGED <<mrefs, listed, vals, v, block, cstrs, depth, status>>

\* load of type str (or ref), or of another type of n bytes; mem_count reads
\* as the latter, of any length.
Load(p) ==
  /\ Running
  /\ objs' = AskedFor(objs, p, WordSize)
  /\ IF Wild(objs, p, WordSize) THEN Fails("bad")
     ELSE IF At(p) # 0 /\ p \notin words THEN Fails("badmem")
     ELSE /\ v' = At(p)
          /\ UNCHANGED <<mem, words, mrefs, listed, vals, block, cstrs, depth,
                         status, owed>>

LoadOther(p, n) ==
  /\ Running
  /\ objs' = AskedFor(objs, p, n)
  /\ IF Wild(objs, p, n) THEN Fails("bad")
     ELSE IF ~NoStr(p, n) THEN Fails("badmem")
     ELSE UNCHANGED <<mem, words, owed>> /\ MemRest

\* Mutant: a store gives the reference of what it overwrites to nobody.
StoredKeep(p, x) == Counted({x} \cap Str, 1)

\* The counts once x is stored at p: a reference on x, then one less on the
\* old value.
Stored(p, x) ==
  LET old == IF p \in words THEN mem[p] ELSE 0
      m   == Counted({x} \cap Str, 1)
  IN  [s \in Str |-> IF s = old THEN m[s] - 1 ELSE m[s]]

\* store str: of the register, or of the empty string.
Store(p, x) ==
  /\ Running
  /\ objs' = AskedFor(objs, p, WordSize)
  /\ IF Wild(objs, p, WordSize) THEN Fails("bad")
     ELSE IF p % WordSize # 0 \/ \E s \in Str : Stored(p, x)[s] < 0
     THEN Fails("badmem")
     ELSE /\ mrefs' = Stored(p, x)
          /\ listed' = listed \cup ({x, mem[p]} \cap Str)
          /\ mem' = [mem EXCEPT ![p] = x]
          /\ words' = words \cup {p}
          /\ UNCHANGED <<vals, v, block, cstrs, depth, status, owed>>

\* store of another type; mem_translate writes so too, n bytes.
StoreOther(p, n, x) ==
  /\ Running
  /\ objs' = AskedFor(objs, p, n)
  /\ IF Wild(objs, p, n) THEN Fails("bad")
     ELSE IF ~NoStr(p, n) THEN Fails("badmem")
     ELSE Uncounted(Filled(p, n, x)) /\ UNCHANGED words /\ MemRest

\* memset.
Memset(p, n, x) ==
  /\ Running
  /\ objs' = AskedFor(objs, p, n)
  /\ IF Wild(objs, p, n) THEN Fails("bad")
     ELSE IF ~CanForget(p, n) THEN Fails("badmem")
     ELSE /\ Uncounted(Filled(p, n, x))
          /\ words' = words \ Touched(p, n)
          /\ MemRest

\* Mutant: the words that memcpy overwrites are not forgotten.
WordsCopiedKept(dst, src, n) ==
  words \cup {dst + (w - src) : w \in Touched(src, n) \cap words}

\* The words that hold a string after a memcpy.
WordsCopied(dst, src, n) ==
  (words \ Touched(dst, n))
    \cup {dst + (w - src) : w \in Touched(src, n) \cap words}

\* memcpy: the strings of the source must be whole, and stay aligned.
Memcpy(dst, src, n) ==
  /\ Running
  /\ LET asked == AskedFor(objs, dst, n)
         moved == Touched(src, n) \cap words
     IN  IF Wild(objs, dst, n)
         THEN objs' = asked /\ Fails("bad")
         ELSE /\ objs' = AskedFor(asked, src, n)
              /\ IF Wild(asked, src, n) THEN Fails("bad")
                 ELSE IF \/ \E w \in moved : ~Whole(w, src, n)
                         \/ (moved # {} /\ (dst - src) % WordSize # 0)
                         \/ ~CanForget(dst, n)
                 THEN Fails("badmem")
                 ELSE /\ Uncounted(MovedTo(dst, src, n))
                      /\ words' = WordsCopied(dst, src, n)
                      /\ MemRest

\* Where mem_reverse of n elements of size bytes takes the byte at q, an
\* offset in the tract.
Mirrored(q, n, size) == (n - 1 - (q \div size)) * size + (q % size)

\* mem_reverse: the strings go with their elements.
Reverse(p, n, size) ==
  /\ Running
  /\ LET len   == n * size
         moved == Touched(p, len) \cap words
         to    == {p + Mirrored(w - p, n, size) : w \in moved}
         \* the bytes of word w, once moved, were whole in one element
         from(w) == p + Mirrored(w - p, n, size)
     IN  /\ objs' = AskedFor(objs, p, len)
         /\ IF Wild(objs, p, len) THEN Fails("bad")
            ELSE IF n >= 2 /\ (\/ ~CanForget(p, len)
                               \/ \E w \in to : w % WordSize # 0)
            THEN Fails("badmem")
            ELSE /\ Uncounted([w \in Word |->
                      IF n < 2 \/ w \notin Touched(p, len) THEN mem[w]
                      ELSE IF /\ Whole(w, p, len)
                              /\ ((w - p) % size) + WordSize <= size
                      THEN At(from(w))
                      ELSE IF \A u \in Touched(p, len) : mem[u] = 0 THEN 0
                      ELSE Other])
                 /\ words' = IF n < 2 THEN words ELSE (words \ moved) \cup to
                 /\ MemRest

-----------------------------------------------------------------------------
(* retain and release. *)

\* The places of the strings in n values of type t from p.
Places(p, n, t) ==
  {p + i * t.size + o : i \in 0..(n - 1), o \in t.strs}

\* rc_walk over the places P: every one a known string or zero, and no
\* count below zero.
Walked(P, d) ==
  [s \in Str |-> mrefs[s] + d * Cardinality({a \in P : At(a) = s})]

WalkFails(P, d) ==
  \/ \E a \in P : At(a) # 0 /\ a \notin words
  \/ \E s \in Str : Walked(P, d)[s] < 0

ListedBy(P) == listed \cup {s \in Str : \E a \in P : At(a) = s}

\* retain t p, n (d = 1) and release t p, n (d = -1); n < 0 is RANGE, which
\* is a Throw.
Rc(t, p, n, d) ==
  /\ Running
  /\ objs' = AskedFor(objs, p, n * t.size)
  /\ IF Wild(objs, p, n * t.size) THEN Fails("bad")
     ELSE LET P == Places(p, n, t)
          IN  IF WalkFails(P, d) THEN Fails("badmem")
              ELSE /\ mrefs' = Walked(P, d)
                   /\ listed' = ListedBy(P)
                   /\ owed' = [s \in Str |-> owed[s] - (mrefs'[s] - mrefs[s])]
                   /\ \A s \in Str : owed'[s] \in (-MaxOwed)..MaxOwed
                   /\ UNCHANGED <<mem, words, vals, v, block, cstrs, depth,
                                  status>>

-----------------------------------------------------------------------------
(* Objects. *)

\* A string made: an object whose bytes, any, a program may point to.
MakeStr(s) ==
  /\ Running /\ s \notin vals
  /\ vals' = vals \cup {s}
  /\ v' = s
  /\ mrefs' = [mrefs EXCEPT ![s] = 0]
  /\ objs' = Add(objs, Bytes[s])
  /\ \E x \in {0, Other} : mem' = Made(Bytes[s], x)
  /\ UNCHANGED <<words, listed, block, cstrs, depth, status, owed>>

\* The register takes a constant, or the empty string.
Move ==
  /\ Running
  /\ v' \in {Const, 0}
  /\ UNCHANGED <<objs, mem, words, mrefs, listed, vals, block, cstrs, depth,
                 status, owed>>

\* Mutant: a string that memory counts is freed when nothing holds it.
SurvivesMarked(s) == s = v \/ \E w \in Word : mem[w] = s

\* What a collection leaves: the strings that the register or a word of
\* memory holds, and those with a count.
Survives(s) == s = v \/ (\E w \in Word : mem[w] = s) \/ mrefs[s] # 0

Collect ==
  /\ Running
  /\ LET freed == {s \in vals : ~Survives(s)}
     IN  /\ freed # {}
         /\ vals' = vals \ freed
         /\ listed' = listed \ freed
         /\ objs' = FoldSet(LAMBDA s, m : Del(m, Bytes[s]), objs, freed)
         /\ Uncounted(Gone(mem, {Bytes[s] : s \in freed}))
  /\ UNCHANGED <<words, mrefs, v, block, cstrs, depth, status>>

\* mem_alloc, of zeroed bytes, and mem_free.
Alloc(b) ==
  /\ Running /\ block[b] = "unused"
  /\ block' = [block EXCEPT ![b] = "live"]
  /\ objs' = Add(objs, b)
  /\ UNCHANGED <<mem, words, mrefs, listed, vals, v, cstrs, depth, status, owed>>

Free(b) ==
  /\ Running /\ block[b] = "live"
  /\ block' = [block EXCEPT ![b] = "freed"]
  /\ objs' = Del(objs, b)
  /\ words' = words \ Touched(b, SizeOf[b])
  /\ Uncounted(Gone(mem, {b}))
  /\ UNCHANGED <<mrefs, listed, vals, v, cstrs, depth, status>>

\* cstr_new, whose bytes are not zero, and cstr_free, which forgets no word.
CstrNew(b) ==
  /\ Running /\ b \notin cstrs
  /\ cstrs' = cstrs \cup {b}
  /\ objs' = Add(objs, b)
  /\ mem' = Made(b, Other)
  /\ UNCHANGED <<words, mrefs, listed, vals, v, block, depth, status, owed>>

CstrFree(b) ==
  /\ Running /\ b \in cstrs
  /\ cstrs' = cstrs \ {b}
  /\ objs' = Del(objs, b)
  /\ Uncounted(Gone(mem, {b}))
  /\ UNCHANGED <<words, mrefs, listed, vals, v, block, depth, status>>

-----------------------------------------------------------------------------
(* Calls, and where a run ends. *)

Init ==
  /\ objs = Add(EmptyMap, Glob)
  /\ mem = [w \in Word |-> IF w = Glob THEN Const ELSE 0]
  /\ words = {Glob}
  /\ mrefs = [s \in Str |-> 0] /\ listed = {}
  /\ vals = {} /\ v = 0
  /\ block = [b \in Block |-> "unused"] /\ cstrs = {}
  /\ depth = 0 /\ status = "ok"
  /\ owed = [s \in Str |-> 0]

\* The slot of the call lives while the call does.
Call ==
  /\ status = "ok" /\ depth < MaxDepth
  /\ depth' = depth + 1
  /\ objs' = Add(objs, Slots[depth + 1])
  /\ UNCHANGED <<mem, words, mrefs, listed, vals, v, block, cstrs, status, owed>>

\* Mutant: the release of a slot leaves its words.
WordsLeftAll(p) == words

\* The words that the end of the slot at p leaves.
WordsLeft(p) == words \ Touched(p, SizeOf[p])

\* The end of a call: its typed slot releases its strings, then the slot
\* forgets them and is gone.
Leave(next) ==
  LET p == Slots[depth]
      t == SlotType[depth]
      P == IF t = None THEN {} ELSE Places(p, 1, t)
  IN  IF WalkFails(P, -1) THEN Fails("badmem") /\ UNCHANGED objs
         ELSE /\ objs' = Del(objs, p)
              /\ mrefs' = Walked(P, -1)
              /\ listed' = ListedBy(P)
              /\ words' = WordsLeft(p)
              /\ mem' = Gone(mem, {p})
              \* what the slot held, less what it released
              /\ owed' = [s \in Str |->
                   owed[s] + HeldIn(mem', s) - HeldIn(mem, s)
                           - (mrefs'[s] - mrefs[s])]
              /\ \A s \in Str : owed'[s] \in (-MaxOwed)..MaxOwed
              /\ depth' = depth - 1
              /\ status' = next
              /\ UNCHANGED <<vals, v, block, cstrs>>

Return == Running /\ Leave(IF depth = 1 THEN "returned" ELSE "ok")

\* A trap that a handler may catch leaves the calls without one, each like a
\* return; in the call that has it, it only gives the register the message.
Throw  == Running /\ Leave("exc")
Unwind == status = "exc" /\ depth > 0 /\ Leave("exc")

Catch ==
  /\ status = "exc" /\ depth > 0 /\ status' = "ok"
  /\ v' = 0     \* a message that the module words is immortal
  /\ UNCHANGED <<objs, mem, words, mrefs, listed, vals, block, cstrs, depth, owed>>

Seen(s) == Cardinality({w \in words : mem[w] = s})

\* end_check: the strings that a word holds and those ever counted.
Unmatched ==
  \E s \in Str : /\ Seen(s) > 0 \/ s \in listed
                 /\ Seen(s) # mrefs[s]

EndCheck ==
  /\ status' = IF Unmatched THEN "unmatched" ELSE "ended"
  /\ UNCHANGED <<objs, mem, words, mrefs, listed, vals, v, block, cstrs, depth,
                 owed>>

\* A trap that no handler may catch, or halt: where the run stops.
Stop == Running /\ EndCheck

\* The entry has returned, or an exception has left it.
EntryLeft ==
  /\ \/ status = "returned"
     \/ (status = "exc" /\ depth = 0)
  /\ EndCheck

Over == {"ended", "unmatched", "badmem", "bad"}
Done == status \in Over /\ UNCHANGED vars

Next ==
  \/ \E p \in Ptr : Load(p) \/ \E x \in {v, 0} : Store(p, x)
  \/ \E p \in Ptr, n \in Len : LoadOther(p, n)
  \/ \E p \in Ptr, n \in Len, x \in {0, Other} :
        StoreOther(p, n, x) \/ Memset(p, n, x)
  \/ \E dst, src \in Ptr, n \in Len : Memcpy(dst, src, n)
  \/ \E p \in Ptr, n \in 0..3, size \in Elem : Reverse(p, n, size)
  \/ \E t \in Types, p \in Ptr, n \in 0..2, d \in {1, -1} : Rc(t, p, n, d)
  \/ \E s \in Str : MakeStr(s)
  \/ Move \/ Collect
  \/ \E b \in Block : Alloc(b) \/ Free(b)
  \/ \E b \in CStr : CstrNew(b) \/ CstrFree(b)
  \/ Call \/ Return \/ Throw \/ Unwind \/ Catch \/ Stop \/ EntryLeft
  \/ Done

Spec == Init /\ [][Next]_vars

-----------------------------------------------------------------------------
(* Properties. *)

LiveBase ==
  {Glob} \cup {Slots[d] : d \in 1..depth} \cup {b \in Block : block[b] = "live"}
    \cup cstrs \cup {Bytes[s] : s \in vals}

\* The words that check_mem knows are the words of memory that hold a string,
\* after everything that moves, overwrites or frees bytes: each lies whole in
\* one object alive, and holds 0 or a string not freed (end_check reads it,
\* whatever it is), and no counted string lies in a word it does not know.
Tracked ==
  /\ \A w \in words : /\ \E b \in LiveBase : Within(b, w, WordSize)
                       /\ mem[w] \in vals \cup {Const, 0}
  /\ \A w \in Word : mem[w] \in Str => w \in words

\* The counts say what the program did: a string has as many references as
\* words hold it, less those that a memcpy, a memset, a free or the end of a
\* slot moved or dropped without a retain or a release.  So the run ends with
\* BADMEM exactly when some of them were never made good, wherever it stops
\* and whatever was collected on the way.
CountsSay ==
  /\ status \notin {"badmem", "bad"} =>
       \A s \in Str : mrefs[s] + owed[s] = HeldIn(mem, s)
  /\ status = "ended" => \A s \in Str : owed[s] = 0
  /\ status = "unmatched" => \E s \in Str : owed[s] # 0

\* What the code asks of a program and does not check: it stores no string
\* in the bytes of a C string or of a string, which cstr_free and a
\* collection give back without forgetting their words (eval.c:906, :327);
\* and the strings in a tract that mem_reverse turns lie each in one element
\* (eval.c:949).
KeptOut ==
  \A w \in words, b \in CStr \cup {Bytes[s] : s \in Str} :
    ~Within(b, w, WordSize)
ReversedWhole ==
  \A p \in Ptr, n \in 0..3, size \in Elem :
    Reverse(p, n, size) =>
      \A w \in Touched(p, n * size) \cap words : ((w - p) % size) + WordSize <= size

\* objmap_holds answers for the objects alive, after every order of objects
\* made and freed and of the answers it remembers: an access is let through
\* exactly when its bytes lie in one of them.
HoldsRight ==
  status = "ok" => \A p \in Ptr, n \in Len :
    Holds(objs, p, n) <=> \E b \in LiveBase : Within(b, p, n)
=============================================================================
