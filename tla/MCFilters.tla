------------------------------- MODULE MCFilters -------------------------------
(* Stores, loads and filters for FilterRead: a site and what is in it, tags    *)
(* that change, change their kind, go or come, and filters of every shape the  *)
(* adapters treat differently; areas written with and without a point.         *)
EXTENDS Filters, TLC

CONSTANT NoLimit

Site(dis, area) == [site |-> Marker, dis |-> dis, area |-> area]
Equip(site) == [equip |-> Marker, siteRef |-> Ref(site)]
A == Str("A")
B == Str("B")
\* A number that a float has with an exponent.
Big == <<"num", 2, "", "exponent">>

Stores == {("s" :> Site(A, Num(1, "")) @@ "e" :> Equip("s")),
           ("s" :> Site(A, Num(2, "m")) @@ "e" :> [equip |-> Marker, dis |-> B, area |-> A])}

Batches == {("s" :> Site(B, Whole(1))),
            ("e" :> [equip |-> Marker, site |-> Marker, siteRef |-> Ref("s")]),
            ("t" :> Site(A, Big) @@ "e" :> Equip("t"))}

Areas == <<"siteRef", "area">>
Trees ==
    {Has(<<"site">>), Missing(<<"dis">>), Has(Areas), Missing(Areas),
     Cmp(<<"dis">>, "==", A), Cmp(<<"dis">>, "==", B), Cmp(<<"dis">>, "!=", A), Cmp(<<"dis">>, "<", B),
     Cmp(<<"siteRef">>, "==", Ref("s")), Cmp(<<"siteRef">>, "==", Str("s")),
     Cmp(<<"area">>, ">", Num(1, "")), Cmp(<<"area">>, "==", Num(1, "")), Cmp(<<"area">>, "!=", Big),
     Cmp(Areas, "<=", Num(1, "m")),
     And(Has(<<"equip">>), Cmp(Areas, ">", Num(1, ""))),
     And(Has(<<"site">>), Cmp(<<"area">>, ">", Num(1, ""))),
     Or(Has(<<"equip">>), Cmp(<<"dis">>, "==", A)), Or(Has(<<"equip">>), Has(<<"site">>)),
     And(Or(Has(<<"site">>), Has(<<"equip">>)), Missing(<<"siteRef">>)),
     Or(Missing(<<"site">>), And(Has(<<"site">>), Cmp(<<"siteRef">>, "==", Ref("s"))))}

Queries ==
    {[filter |-> f, limit |-> NoLimit] : f \in Trees}
    \cup {[filter |-> f, limit |-> n] :
             f \in {Has(<<"equip">>), Cmp(<<"area">>, ">", Num(1, ""))}, n \in {0, 1}}
==============================================================================
