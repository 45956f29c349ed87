------------------------------ MODULE MCObjects ------------------------------
(***************************************************************************)
(* Two providers of libx, two programs that mean different ones, a library *)
(* whose own RUNPATH means the other one than the program that loads it,   *)
(* and a wrapper script among the roots.  A library may be replaced by its *)
(* .self, by one half written, by either for another machine, or by a      *)
(* linker script, which is no object.                                      *)
(*                                                                         *)
(* In a tree of its own, a plugin that is linked through one provider of   *)
(* liby, and loaded by a program that has another one.                     *)
(***************************************************************************)
EXTENDS Objects

At(dir, name) == [dir |-> dir, name |-> name]
App1 == At("bin", "app1")
App2 == At("bin", "app2")
Wrapper == At("bin", "wrapper")
AX == At("a", "x")
BX == At("b", "x")
AY == At("a", "y")

Loader == At("bin", "loader")
Plugin == At("a", "z")
OtherY == At("b", "y")

MCPaths == {App1, App2, Wrapper, AX, BX, AY, Loader, Plugin, OtherY}
MCSonames == {"x", "y", "z"}

Elf(soname, uses, runpath) ==
    [kind |-> "elf", soname |-> soname, machine |-> "host", needs |-> uses, runpath |-> runpath]
As(kind, file) == [file EXCEPT !.kind = kind]

LibX == Elf("x", <<>>, <<>>)
LibY == Elf("y", <<"x">>, <<"b">>)

MCTree == [p \in {App1, App2, Wrapper, AX, BX, AY} |->
    CASE p = App1    -> Elf(NONE, <<"x", "y">>, <<"a">>)
      [] p = App2    -> Elf(NONE, <<"y", "x">>, <<"b", "a">>)
      [] p = Wrapper -> As("script", Elf(NONE, <<>>, <<>>))
      [] p = AY      -> LibY
      [] OTHER       -> LibX]

\* The plugin finds no libx itself; the liby of its own RUNPATH brings one.
PluginTree == [p \in {Loader, Plugin, AY, OtherY, AX} |->
    CASE p = Loader -> Elf(NONE, <<"z", "y">>, <<"a">>)
      [] p = Plugin -> Elf("z", <<"y", "x">>, <<"b">>)
      [] p = OtherY -> Elf("y", <<"x">>, <<"a">>)
      [] p = AY     -> Elf("y", <<>>, <<>>)
      [] OTHER      -> LibX]

MCTrees == {MCTree, [p \in {AX, BX} |-> MCTree[p]], PluginTree}

MCVersions == [p \in MCPaths |->
    CASE p = AX -> {LibX, As("script", LibX), As("half", LibX), As("self", LibX),
                    [LibX EXCEPT !.machine = "foreign"],
                    As("self", [LibX EXCEPT !.machine = "foreign"])}
      [] p = BX -> {LibX}
      [] p = AY -> {Elf("y", <<>>, <<>>)}
      [] OTHER  -> {}]

MCRootLists ==
    {<<Loader>>, <<Plugin, Loader>>}
        \cup UNION {[1 .. n -> {App1, App2, Wrapper, AY}] : n \in 1 .. 3}
=============================================================================
