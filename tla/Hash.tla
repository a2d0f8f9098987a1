-------------------------------- MODULE Hash --------------------------------
(***************************************************************************)
(* The hash tables of src/common/hash.c and the table of strings of        *)
(* src/common/strtab.c.  A table maps keys to ids; two things may have one *)
(* key, so a search compares what an id stands for as well.  Ids count     *)
(* from 1 here, and 0 is UINT32_MAX: a place that is empty, nothing found. *)
(***************************************************************************)
EXTENDS Integers, Sequences, FiniteSets, SequencesExt

CONSTANTS
    FirstCap,     \* places of a new table (64)
    HashOf(_)     \* limba_fnv, of a sequence of numbers

ASSUME HashAssumption == FirstCap \in Nat \ {0}

Free == [key |-> 0, id |-> 0]
NewHash == [slots |-> [i \in 1 .. FirstCap |-> Free], count |-> 0]

\* the d-th place looked at for key, and the first of them that is free or
\* has the key with one of the ids that stand for what is looked for
Slot(slots, key, d) == ((key + d) % Len(slots)) + 1
Stops(s, key, same) == s = Free \/ (s.key = key /\ s.id \in same)
FirstSlot(slots, key, same) ==
    LET ok == {d \in 0 .. Len(slots) - 1 : Stops(slots[Slot(slots, key, d)], key, same)}
    IN  Slot(slots, key, CHOOSE d \in ok : \A e \in ok : d <= e)
Find(h, key, same) == h.slots[FirstSlot(h.slots, key, same)].id

Insert(slots, s) == [slots EXCEPT ![FirstSlot(slots, s.key, {})] = s]

\* never more than half full: the places double, each entry put again
Doubled(slots) ==
    FoldLeft(LAMBDA t, s : IF s = Free THEN t ELSE Insert(t, s),
             [i \in 1 .. 2 * Len(slots) |-> Free], slots)
Put(h, key, id) ==
    [slots |-> Insert(IF 2 * (h.count + 1) > Len(h.slots) THEN Doubled(h.slots) ELSE h.slots,
                      [key |-> key, id |-> id]),
     count |-> h.count + 1]

(* ------------------------- the table of strings ------------------------ *)

NoStrings == [text |-> <<>>, index |-> NewHash]
StrFind(t, s) == Find(t.index, HashOf(s), {i \in DOMAIN t.text : t.text[i] = s})
StrAdded(t, s) == [text |-> Append(t.text, s), index |-> Put(t.index, HashOf(s), Len(t.text) + 1)]
\* limba_strtab_intern: the table after it; the id is then StrFind
StrIntern(t, s) == IF StrFind(t, s) # 0 THEN t ELSE StrAdded(t, s)

(* -------------------------- what a table holds ------------------------- *)

Place == [key : Nat, id : Nat]
Entries(slots) == ToSet(slots) \ {Free}
Full(slots) == {i \in DOMAIN slots : slots[i] # Free}
\* a search for the key of an entry meets no free place before the entry
Reached(slots) ==
    \A i \in Full(slots) :
        \E d \in 0 .. Len(slots) - 1 :
            /\ Slot(slots, slots[i].key, d) = i
            /\ \A e \in 0 .. d - 1 : Slot(slots, slots[i].key, e) \in Full(slots)
TableOf(h, E) ==
    /\ h \in [slots : Seq(Place), count : Nat] /\ Len(h.slots) > 0
    /\ Entries(h.slots) = E /\ Reached(h.slots)
    /\ Cardinality(Full(h.slots)) <= h.count /\ 2 * h.count <= Len(h.slots)

=============================================================================
