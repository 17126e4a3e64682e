--------------------------- MODULE MCLogShipping ---------------------------
(* LogShipping on small instances: one log file, which a link leads to, and a   *)
(* third name of it, in a directory that the agent may not search.              *)
EXTENDS LogShipping

CONSTANTS file, link, hidden, c1, s1, s2

Real     == [p \in {file, link, hidden} |-> file]
GlobsOf  == (file :> {"apache"}) @@ (link :> {}) @@ (hidden :> {"apache"})
HintsOf  == (file :> {"apache"}) @@ (link :> {"mysql", "nginx"}) @@ (hidden :> {})
AllMode  == [mode |-> "all", collectors |-> {"apache"}, selected |-> <<link>>, docker |-> FALSE]
ByName   == [mode |-> "selected", collectors |-> {"apache"}, selected |-> <<hidden, link, file>>, docker |-> FALSE]
NoFiles  == [mode |-> "none", collectors |-> {}, selected |-> <<>>, docker |-> TRUE]
Configs  == {AllMode, ByName, NoFiles}
Docker   == {NoFiles}
=============================================================================
