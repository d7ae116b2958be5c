--------------------------- MODULE MCTrustedContext ---------------------------
(* Instances of TrustedContext for TLC.  The human has more grants in scp than in
   roles, the service has roles only; the second agent also demands the SQL grant.
   Ttl (300) and Leeway (30) are scaled to 3 and 1, and clocks are off by up to 1. *)
EXTENDS TrustedContext

CONSTANTS cmdb, sales, human, service, read, sql

Tokens ==
  [caller \in {human, service} |-> [claim \in {"scp", "roles"} |->
     IF caller = human
     THEN IF claim = "scp" THEN {read, sql} ELSE {read}
     ELSE IF claim = "roles" THEN {read, sql} ELSE {}]]
NeedGrants == [a \in {cmdb, sales} |-> IF a = cmdb THEN {read} ELSE {read, sql}]

\* One authorization mode for all agents; a mode for each.
OneMode == [a \in {cmdb, sales} |-> {"roles"}]
TwoModes == [a \in {cmdb, sales} |-> IF a = cmdb THEN {"roles"} ELSE {"scp"}]

Errors == {-1, 0, 1}
NoError == {0}
===============================================================================
