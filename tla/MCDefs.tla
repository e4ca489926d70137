-------------------------------- MODULE MCDefs --------------------------------
(* Libs for Ontology: a conjunct with its parts, the same with prefixes, a def *)
(* that closes a cycle with others, one that is defined again, one that is a   *)
(* conjunct by its prefix, and defs whose supertypes are not there; and the    *)
(* entities that are reflected.                                                *)
EXTENDS Sequences

LOCAL Sym(lib, parts) == [lib |-> lib, parts |-> parts]
LOCAL Def(s, is) == [symbol |-> s, is |-> is]

thing == Sym(<<>>, <<"thing">>)
hot == Sym(<<>>, <<"hot">>)
water == Sym(<<>>, <<"water">>)
hotWater == Sym(<<>>, <<"hot", "water">>)
phWater == Sym(<<"ph">>, <<"water">>)
phHotWater == Sym(<<"ph">>, <<"hot", "water">>)
labWater == Sym(<<"hot", "lab">>, <<"water">>)

Libs == {
    <<Def(thing, <<>>), Def(water, <<thing>>), Def(hot, <<thing>>), Def(hotWater, <<water>>)>>,
    <<Def(phWater, <<thing>>), Def(phHotWater, <<phWater, hot>>)>>,
    <<Def(thing, <<hotWater>>)>>,
    <<Def(phWater, <<hotWater>>), Def(phHotWater, <<water>>)>>,
    <<Def(hot, <<>>), Def(hotWater, <<hot, thing>>)>>,
    <<Def(labWater, <<thing>>)>> }

Entities == {{thing}, {water}, {hot, water}, {thing, hot}}
==============================================================================
