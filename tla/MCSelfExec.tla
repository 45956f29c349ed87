------------------------------ MODULE MCSelfExec ------------------------------
(***************************************************************************)
(* Layouts: an ordinary program, whose first segment holds the ELF header  *)
(* and the program header table; one at fixed addresses, rewritten by a    *)
(* tool that moved the table behind the last segment; one whose headers    *)
(* are in no segment and whose first segment starts inside a page; a       *)
(* static one with two segments on one page; one with a second segment     *)
(* that holds the beginning of the table; and one linked where self-exec   *)
(* is.                                                                     *)
(***************************************************************************)
EXTENDS SelfExec

Segment(offset, filesz, vaddr, memsz, prot) ==
    [load |-> TRUE, offset |-> offset, filesz |-> filesz, vaddr |-> vaddr,
     memsz |-> memsz, prot |-> prot]

Ordinary == [size |-> 9, phoff |-> 2, sections |-> TRUE, pie |-> TRUE, interp |-> TRUE,
             phdrs |-> << Segment(0, 6, 0, 6, {"r", "x"}), Segment(6, 2, 10, 4, {"r", "w"}),
                          [Segment(5, 1, 5, 1, {"r"}) EXCEPT !.load = FALSE] >>]

Moved == [size |-> 8, phoff |-> 6, sections |-> TRUE, pie |-> FALSE, interp |-> TRUE,
          phdrs |-> << Segment(0, 4, 4, 4, {"r", "x"}), Segment(4, 1, 8, 1, {"r"}) >>]

Detached == [size |-> 9, phoff |-> 2, sections |-> FALSE, pie |-> TRUE, interp |-> FALSE,
             phdrs |-> << Segment(5, 2, 5, 2, {"r", "x"}), Segment(7, 2, 11, 2, {"r", "w"}) >>]

Packed == [size |-> 8, phoff |-> 2, sections |-> FALSE, pie |-> TRUE, interp |-> FALSE,
           phdrs |-> << Segment(0, 6, 0, 6, {"r", "x"}), Segment(6, 2, 6, 2, {"r", "w"}) >>]

Split == [size |-> 6, phoff |-> 2, sections |-> FALSE, pie |-> TRUE, interp |-> FALSE,
          phdrs |-> << Segment(0, 6, 0, 6, {"r"}), Segment(1, 2, 9, 2, {"r", "w"}) >>]

AtLoader == [size |-> 8, phoff |-> 2, sections |-> FALSE, pie |-> FALSE, interp |-> FALSE,
             phdrs |-> << Segment(0, 6, 20, 6, {"r", "x"}), Segment(6, 2, 30, 2, {"r", "w"}) >>]

MCElfs == {Ordinary, Moved, Detached, Packed, Split, AtLoader}
MCUserPages == 1 .. 7
MCHostPages == {7}

\* A small program; one that fills what execve allows with strings; one that
\* fills it with pointers to empty strings.
MCStackArgs == {
    [argc |-> 1, envc |-> 0, strings |-> 9],
    [argc |-> 2, envc |-> 1, strings |-> ARG_MAX - 24],
    [argc |-> 1, envc |-> (ARG_MAX - 9) \div 9, strings |-> 1 + (ARG_MAX - 9) \div 9] }
=============================================================================
