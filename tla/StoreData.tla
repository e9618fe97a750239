------------------------------ MODULE StoreData ------------------------------
(***************************************************************************)
(* The data of a Grid-FP run of the multi-GPU mmap backend: its windows,   *)
(* their transition groups, the slots of the two state files, checkpoints  *)
(* and undo journals.                                                      *)
(***************************************************************************)
EXTENDS Integers, FiniteSets

CONSTANTS
    Mods,        \* the moduli the solver is started with
    NW,          \* the number of windows of the whole run, rows flattened
    Groups,      \* the transition groups of a window
    MainCells,   \* the count slots of main.bin
    BlockCells,  \* the count slots of blocked.bin
    Pages,       \* the pages of the two files
    PageOf,      \* the page of each slot
    Own,         \* Own[w][c]: the group that owns slot c in window w
    InitCell,    \* the slot of main.bin holding the one initial path
    AnswerCell,  \* the slot of main.bin holding the answer at the end
    Ordered      \* the file system commits its metadata in order (see Closure)

Cells == MainCells \cup BlockCells
Windows == 1 .. NW
Keys == Windows \X Groups
StoreEntries == {"checkpoint", "undo"}
Files == {"main", "blocked"}

(***************************************************************************)
(* The pages of the two files are different pages, the partition of every  *)
(* window covers the slots (make_intervals and window_masks; the exhaustive *)
(* self-test of the binary checks it), and moduli start at 2.              *)
(***************************************************************************)
ASSUME StoreAssumption ==
    /\ Mods \subseteq Nat \ {0, 1} /\ Mods # {}
    /\ NW \in Nat \ {0}
    /\ Groups # {}
    /\ MainCells \cap BlockCells = {}
    /\ PageOf \in [Cells -> Pages]
    /\ \A c \in MainCells, d \in BlockCells : PageOf[c] # PageOf[d]
    /\ Own \in [Windows -> [Cells -> Groups]]
    /\ InitCell \in MainCells /\ AnswerCell \in MainCells
    /\ Ordered \in BOOLEAN

(***************************************************************************)
(* What a slot holds is abstracted to <<modulus, number of windows applied *)
(* to it>>. The initial vector is the same for every modulus. Garbage is   *)
(* anything the run must never compute with: a slot written from mixed     *)
(* inputs, or the zero that truncation leaves where the initial path is.   *)
(* Absent stands for a file that does not have the slot yet.               *)
(***************************************************************************)
NoMod == 0
Start == <<NoMod, 0>>
Garbage == <<NoMod, -1>>
Absent == <<NoMod, -2>>
Ideal(m, w) == IF w = 0 THEN Start ELSE <<m, w>>
Values == {Absent, Garbage, Start} \cup (Mods \X Windows)

FileOf(c) == IF c \in MainCells THEN "main" ELSE "blocked"
CellsOf(w, g) == {c \in Cells : Own[w][c] = g}
PagesOf(C) == {PageOf[c] : c \in C}
FilesOf(C) == {FileOf(c) : c \in C}

\* What ftruncate and posix_fallocate leave in a slot: zero.
Zeroed(c) == IF c = InitCell THEN Garbage ELSE Start

(***************************************************************************)
(* A transition group is closed: its slots after the window depend on its  *)
(* slots before the window and on nothing else.                            *)
(***************************************************************************)
Kernel(m, w, g, in) ==
    [c \in Cells |->
        IF c \in CellsOf(w, g) /\ \A d \in CellsOf(w, g) : in[d] = Ideal(m, w - 1)
        THEN Ideal(m, w) ELSE Garbage]

Images == [Cells -> Values]
Blank == [c \in Cells |-> Garbage]

Journals == [here : BOOLEAN, img : Images]
NoJournal == [here |-> FALSE, img |-> Blank]
Journal(img) == [here |-> TRUE, img |-> img]

Checkpoints == [here : BOOLEAN, mod : Mods \cup {NoMod}, win : 0 .. NW,
                done : SUBSET Groups, complete : BOOLEAN]
NoCheckpoint == [here |-> FALSE, mod |-> NoMod, win |-> 0,
                 done |-> {}, complete |-> FALSE]
FreshCheckpoint(m, w) == [here |-> TRUE, mod |-> m, win |-> w,
                          done |-> {}, complete |-> FALSE]
=============================================================================
