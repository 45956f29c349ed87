------------------------------- MODULE MCSelfLd -------------------------------
(***************************************************************************)
(* A program, two libraries and an interposer; two symbols.  What the      *)
(* libraries and the interposer export varies, the program may export one  *)
(* name itself; needed tables are empty, ordered either way or name a      *)
(* library twice, resolvers lack a row, and preload tables have up to two  *)
(* objects.                                                                *)
(***************************************************************************)
EXTENDS SelfLd

MCObjects == {"main", "liba", "libb", "hook"}
MCSonames == {"a", "b"}
MCSymbols == {"f", "g"}

MCUses == [o \in MCObjects |-> CASE o = "main" -> {"f", "g"}
                                 [] o = "liba" -> {"g"}
                                 [] o = "libb" -> {"f"}
                                 [] o = "hook" -> {"g"}]

MCNeeded == { <<>>, <<"a">>, <<"a", "b">>, <<"b", "a">>, <<"a", "a">> }
MCPreloads == { <<>>, <<"hook">>, <<"hook", "libb">> }

MCExports == {e \in [MCObjects -> SUBSET MCSymbols] :
                 /\ "g" \notin e["main"]
                 /\ "g" \in e["liba"]
                 /\ "f" \in e["libb"]}

MCPrograms == [exports : MCExports,
               odd     : {{}, {"libb"}},
               needed  : MCNeeded,
               index   : {[a |-> "liba", b |-> "libb"], [a |-> "liba", b |-> "none"]},
               preload : MCPreloads]
=============================================================================
