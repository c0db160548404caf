------------------------- MODULE MCDatabaseBuilder -------------------------
(* Inputs small enough to try all of them with every failure and kill, and    *)
(* large enough for aliases (two names of one vtable), skipped symbols first, *)
(* in the middle and last, public symbols, and a PDB without symbols.         *)
EXTENDS DatabaseBuilder

Null == [key |-> 1, off |-> 0, ok |-> FALSE, kind |-> "plain"]

ElfSym(key, off, ok, kind) == [key |-> key, off |-> off, ok |-> ok, kind |-> kind]
PdbSym(key, off, ok, public) == [key |-> key, off |-> off, ok |-> ok, public |-> public]

\* Every .dynsym starts with the null symbol.
SmallElfInputs ==
  { <<Null>>,
    <<Null, ElfSym(3, 1, TRUE, "vtable"), ElfSym(2, 1, TRUE, "vtable")>>,
    <<Null, ElfSym(3, 1, TRUE, "plain"), ElfSym(2, 2, FALSE, "vtable"),
            ElfSym(1, 3, TRUE, "typeinfo")>> }

SmallPdbInputs ==
  { <<>>,
    <<PdbSym(2, 1, TRUE, TRUE), PdbSym(1, 2, TRUE, TRUE), PdbSym(1, 3, FALSE, FALSE)>>,
    <<PdbSym(2, 0, TRUE, FALSE), PdbSym(3, 2, TRUE, TRUE), PdbSym(1, 3, TRUE, FALSE)>> }
=============================================================================
