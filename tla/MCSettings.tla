----------------------------- MODULE MCSettings -----------------------------
(* The instance of Settings that TLC checks: a list of three entries, whole  *)
(* in the second page as the first two of the code are, and across the ends *)
(* of the second and of the third page as its third and its sixth. Of these *)
(* an empty one is all in the page it begins in.                            *)
EXTENDS Settings

MCPool == <<"ntp", "org">>
MCNames == {<<"ntp", "org">>, <<"org">>}
MCGarbage == <<"garbage">>
MCPatterns == {[any |-> TRUE, name |-> <<"org">>]}
MCEndsIn ==
  [i \in 1..HostsMax |->
     [e \in Patterns \union {Free} |->
        IF i = 1 THEN 2 ELSE IF e = Free THEN i ELSE i + 1]]
=============================================================================
