--------------------------- MODULE MCAlertEngine ---------------------------
(* AlertEngine on small instances. *)
EXTENDS AlertEngine

CONSTANTS e1, e2, r1, h1, h2

Cpu(val)  == [m \in {"cpu_percent"} |-> val]
Posts     == {Cpu(1), Cpu(3)}
High      == {Cpu(3)}
Above(h)  == [host |-> h, metric |-> "cpu_percent", operator |-> ">", threshold |-> 2]
AnyOrOne  == {Above(Any), Above(h1)}
AnyHost   == {Above(Any), [Above(Any) EXCEPT !.operator = "<="]}
OneRule   == {Above(Any)}
=============================================================================
