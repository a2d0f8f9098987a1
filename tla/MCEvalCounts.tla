---------------------------- MODULE MCEvalCounts ----------------------------
(* A small instance of EvalCounts: words of two bytes, a global of two words, *)
(* a slot of one word for each of two calls, a block of a word and a half.   *)
EXTENDS EvalCounts

CONSTANTS s1, s2

MCBytes == [s \in Str |-> IF s = s1 THEN 7 ELSE 9]
MCSlots == [d \in 1..2 |-> IF d = 1 THEN 10 ELSE 12]
MCBase  == {2, 7, 9, 10, 12, 14, 18}

\* The slots are next to each other; the string has one byte and its NUL not
\* counted, and a C string has no room for a word.
MCSizeOf == [b \in MCBase |->
  CASE b = 2 -> 4 [] b \in {7, 9, 10, 18} -> 1 [] b = 12 -> 2 [] b = 14 -> 3]

\* A C string with room for a word.
MCSizeOfCStr == [MCSizeOf EXCEPT ![18] = 2]

MCPrio == [b \in MCBase |-> (b * 7) % 19]

\* One value of type str, and a structure with one after a word of another
\* type.
MCTypes == {[size |-> 2, strs |-> {0}], [size |-> 4, strs |-> {2}]}
MCSlotType == <<None, [size |-> 2, strs |-> {0}]>>
=============================================================================
