---- MODULE MCRegistry ----
EXTENDS Registry, TLC
CONSTANTS p1, p2, d1, d2, m1, m2, a1, a2
MCHome == d1 :> p1 @@ d2 :> p1
MCFitted == d1 :> m1
MCReports == {[name |-> m1, addrs |-> {a1}, plant |-> p1, devices |-> {d1}], [name |-> m1, addrs |-> {a2}, plant |-> p1, devices |-> {}]}
MCFiles == {[plant |-> p2, name |-> m2, devices |-> {d2}]}
====
