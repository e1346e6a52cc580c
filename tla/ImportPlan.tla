------------------------------ MODULE ImportPlan ------------------------------
(***************************************************************************)
(* The plan of a bookmarks file (admin-web/src/lib/bookmarks/              *)
(* parseNetscapeBookmarks.ts, importPlan.ts): its folders and bookmarks in *)
(* document order, each with a key of its own and the key of the folder it *)
(* stands in.  Titles and addresses are left out.                          *)
(***************************************************************************)
EXTENDS Integers, Sequences, FiniteSets

CONSTANT Files      \* file -> its entries in document order: [depth, kind]

Kinds == {"folder", "bookmark", "skipped"}

\* The nesting of a bookmarks file: the first entry is at the top, an entry is
\* one deeper than the entry above it only when that one is a folder.
WellNested(file) ==
    \A i \in DOMAIN file :
        /\ file[i].kind \in Kinds
        /\ file[i].depth \in Nat
        /\ i = 1 => file[i].depth = 0
        /\ i > 1 => file[i].depth <= IF file[i - 1].kind = "folder"
                                     THEN file[i - 1].depth + 1 ELSE file[i - 1].depth

ASSUME FilesAssumption == \A f \in DOMAIN Files : WellNested(Files[f])

Nil == 0                        \* null: the root, no parent, no id, no key

Importable(file) == {i \in DOMAIN file : file[i].kind # "skipped"}

Below(file, i) ==
    {j \in DOMAIN file : j > i /\ \A k \in (i + 1) .. j : file[k].depth > file[i].depth}

\* Keys are handed out by one counter, to a folder after everything in it.
\* (They count from one here: Nil is the missing key.)
KeyOf(file, i) ==
    1 + Cardinality({j \in Importable(file) :
                        \/ j \in Below(file, i)
                        \/ j < i /\ i \notin Below(file, j)})

ParentOf(file, i) ==
    LET over == {j \in DOMAIN file : i \in Below(file, j)}
    IN  IF over = {} THEN Nil
        ELSE KeyOf(file, CHOOSE j \in over : \A k \in over : k <= j)

ItemOf(file, i) ==
    [key |-> KeyOf(file, i), kind |-> file[i].kind, parent |-> ParentOf(file, i)]

\* The pre-order walk meets the entries in document order.
toImportPlan(file) ==
    LET kept == SelectSeq([i \in DOMAIN file |-> i], LAMBDA i : i \in Importable(file))
    IN  [n \in DOMAIN kept |-> ItemOf(file, kept[n])]

Plan == [f \in DOMAIN Files |-> toImportPlan(Files[f])]

Keys == UNION {DOMAIN Files[f] : f \in DOMAIN Files}

TopBookmarks(f) == {n \in DOMAIN Plan[f] : Plan[f][n].kind = "bookmark" /\ Plan[f][n].parent = Nil}
=============================================================================
