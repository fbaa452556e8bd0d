-------------------------- MODULE MCAzureBootstrap --------------------------
(* Two runs and two applications; what they find is a part of an installation, *)
(* as a run that died leaves it, with at most one thing other than it should   *)
(* be.                                                                         *)
EXTENDS AzureBootstrap, TLC

CONSTANTS r1, r2, a1, a2

MCRuns == {r1, r2}
MCApps == {a1, a2}

\* The first n resources of an installation, in the order the script makes them.
Upto(n) ==
    LET S(k) == IF k <= n THEN "exact" ELSE "absent"
        only(x, none) == [a \in MCApps |-> IF a = a1 THEN x ELSE none]
    IN  [group |-> n >= 1, role |-> S(2),
         apps |-> only(S(3), "absent"), sps |-> only(S(4), "absent"),
         credentials |-> only(IF n >= 5 THEN {"exact"} ELSE {}, {}),
         vault |-> S(6), key |-> S(7), version |-> IF n >= 7 THEN 1 ELSE 0,
         grants |-> only(IF n >= 8 THEN {"vault"} ELSE {}, {})]

Flaws(w) ==
    {[w EXCEPT !.role = x] : x \in {"other", "twice"}}
    \cup {[w EXCEPT !.apps[a2] = x] : x \in {"exact", "other"}}
    \cup {[w EXCEPT !.credentials[a1] = x] : x \in SUBSET Credentials}
    \cup {[w EXCEPT !.grants[a1] = x] : x \in SUBSET Grants}
    \cup {[w EXCEPT !.apps[a1] = "other"], [w EXCEPT !.sps[a1] = "other"],
          [w EXCEPT !.vault = "other"], [w EXCEPT !.key = "other"]}

\* No two credentials of one name; nothing belongs to what is not there.
Possible(w) ==
    /\ w.role # "absent" => w.group
    /\ w.vault # "absent" => w.group
    /\ w.key # "absent" => w.vault # "absent" /\ w.version = 1
    /\ \A a \in MCApps :
         /\ ~ {"exact", "wrong"} \subseteq w.credentials[a]
         /\ w.apps[a] = "absent" => w.credentials[a] = {} /\ w.sps[a] = "absent"
         /\ w.sps[a] = "absent" \/ w.vault = "absent" => w.grants[a] = {}
         /\ w.grants[a] \cap {"vault", "group"} # {} => w.role # "absent"

MCWorlds ==
    {Upto(n) : n \in 0 .. 8}
    \cup {w \in UNION {Flaws(Upto(n)) : n \in {3, 6, 8}} : Possible(w)}

=============================================================================
