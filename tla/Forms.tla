-------------------------------- MODULE Forms -------------------------------
(***************************************************************************)
(* A front end that builds a module and writes it in the binary form, a    *)
(* function at a time (limba_writer_func, after which it may free the body *)
(* with limba_func_clear) or at the end (limba_writer_end), and a program  *)
(* that reads the bytes (limba_read), as they were written or damaged.     *)
(***************************************************************************)
EXTENDS Building, Binary

VARIABLES
    done,     \* the functions given to the writer
    file,     \* the bytes written, <<>> before the end
    damage,   \* what happened to them: "none", "cut", "longer", "changed"; "unread"
    back      \* what the reader made of them

fvars == <<m, fam, left, kept, dropped, done, file, damage, back>>
Nothing == [ok |-> FALSE, m |-> NewModule]

Init == BInit /\ done = <<>> /\ file = <<>> /\ damage = "unread" /\ back = Nothing

\* A function given to the writer is not changed after, but for its body
\* being freed; one that was not given keeps its body.
Protocol ==
    /\ \A f \in DOMAIN done :
           f \in DOMAIN m'.funcs /\ (m'.funcs[f] = m.funcs[f] \/ m'.funcs[f].blocks = <<>>)
    /\ F.writes => DOMAIN kept' \subseteq DOMAIN done
Build == file = <<>> /\ BNext /\ Protocol /\ UNCHANGED <<done, file, damage, back>>

WriterFunc ==
    /\ F.writes /\ file = <<>>
    /\ \E f \in Functions \ DOMAIN done : done' = (f :> Given(m.funcs[f])) @@ done
    /\ UNCHANGED <<bvars, file, damage, back>>
WriteEnd ==
    /\ F.writes /\ file = <<>>
    /\ file' = WriterEnd(m, done)
    /\ UNCHANGED <<bvars, done, damage, back>>

\* what the reader may be given: the file, or the file damaged
Cut == {SubSeq(file, 1, n) : n \in 0 .. Len(file) - 1}
Longer == {Append(file, b) : b \in F.bytes}
Changed == {[file EXCEPT ![i] = b] : i \in DOMAIN file, b \in F.bytes} \ {file}
Inputs(d) == CASE d = "none" -> {file} [] d = "cut" -> Cut
               [] d = "longer" -> Longer [] d = "changed" -> Changed
Read ==
    /\ file # <<>> /\ damage = "unread"
    /\ damage' \in {"none"} \cup F.damages
    /\ \E bytes \in Inputs(damage') : file' = bytes /\ back' = ReadModule(bytes)
    /\ UNCHANGED <<bvars, done>>

Next == Build \/ WriterFunc \/ WriteEnd \/ Read
Spec == Init /\ [][Next]_fvars

(* ------------------------------ properties ------------------------------ *)

\* a module as the binary form can give it: instructions in the order they
\* are written, and nothing of what is computed or searched
Renumbered(f, order) ==
    [f EXCEPT
        !.insts = [i \in DOMAIN order |->
                       [f.insts[order[i]] EXCEPT !.ops = Operands(order, f.insts[order[i]])]],
        !.blocks = [b \in DOMAIN @ |->
                        [@[b] EXCEPT !.insts = [k \in DOMAIN @ |->
                                                    CHOOSE i \in DOMAIN order : order[i] = @[k]]]],
        !.locs = IF f.has_locs THEN [i \in DOMAIN order |-> f.locs[order[i]]] ELSE <<>>,
        !.pos_cur = 0, !.sum = NoSum]
Canonical(w) ==
    [w EXCEPT !.funcs = [i \in DOMAIN @ |-> Renumbered(@[i], CanonicalOrder(@[i]))],
              !.strs.index = NewHash, !.typeidx = NewHash, !.symidx = NewHash,
              !.handled = {}, !.nhandled = 0, !.fresh = FALSE]

\* What was written reads back as the same module, whichever functions were
\* given to the writer before the end, their bodies freed or not and in
\* whatever order their instructions were made; written again it is the
\* same file, byte for byte, and the set under a handler is the same.
WasRead == damage = "none"
ReadsBack ==
    WasRead => /\ back.ok
               /\ Canonical(back.m) = Canonical(Whole)
               /\ WriterEnd(back.m, <<>>) = file
               /\ Compute(back.m) = UnderHandler(Whole)

\* A file cut short, or with a byte after its end, is refused; one with a
\* byte changed is refused, or it is a module whose tables hold: each name,
\* type and string one thing, each array of a type that comes before it.
Damaged ==
    /\ damage \in {"cut", "longer"} => ~back.ok
    /\ damage = "changed" /\ back.ok =>
           /\ SymbolsFound(back.m) /\ TypesFound(back.m) /\ StringsFound(back.m)
           /\ \A i \in DOMAIN back.m.types :
                  back.m.types[i].kind = ARRAY => back.m.types[i].elem < FirstUser - 1 + i

=============================================================================
