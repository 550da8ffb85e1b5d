----------------------------- MODULE MCUpgrade -----------------------------
(* Three nodes with data, one with data and the master role. *)
EXTENDS Upgrade, TLC

CONSTANTS data1, both1, index

Pools == <<both1, data1>>
Sizes == data1 :> 3 @@ both1 :> 1
Masters == {both1}
Datas == {data1, both1}
Setups ==
    {[drain |-> FALSE, podsMayFail |-> FALSE, lagging |-> {}, archives |-> TRUE],
     [drain |-> FALSE, podsMayFail |-> TRUE, lagging |-> {}, archives |-> TRUE],
     [drain |-> TRUE, podsMayFail |-> FALSE, lagging |-> {}, archives |-> FALSE],
     [drain |-> FALSE, podsMayFail |-> FALSE, lagging |-> {both1}, archives |-> FALSE]}
At(p, r) == [primary |-> p, replica |-> r, moving |-> "none"]
FirstPlaces == {index :> At(<<data1, 1>>, <<data1, 0>>), index :> At(<<both1, 0>>, <<data1, 1>>)}
V(major, pre) == [major |-> major, minor |-> 0, pre |-> pre]
ThreeVersions == {V(1, FALSE), V(2, FALSE), V(3, FALSE)}
=============================================================================
