------------------------------ MODULE MCTargets ------------------------------
EXTENDS Targets, TLC

CONSTANTS app, h1, h2, s1, s2, s3

MCGroup  == [l \in {app} |-> <<h1, h2>>]
MCSystem == {s1, s2, s3}
MCUnborn == {s2}
\* s2 may get the pid s1 had.
MCPidOf  == [t \in {app, h1, h2, s1, s2, s3} |->
               CASE t = app -> 10 [] t = h1 -> 11 [] t = h2 -> 12
                 [] t \in {s1, s2} -> 1 [] t = s3 -> 3]
\* An exact request goes before a plain one.
MCPrio   == "exact" :> 2 @@ "default" :> 1 @@ "lent" :> 1
MCSf     == [render |-> "SF", overlay |-> "SF_RELATED"]
=============================================================================
