---------------------------- MODULE MCCeremonies ----------------------------
(* Instance of Ceremonies for TLC: one RP origin in two spellings, another  *)
(* origin of the same RP ID, and an origin without a host.                  *)
EXTENDS Ceremonies

CONSTANTS c1, k1, k2, rp, rp2, id1, id2

Own == [scheme |-> "https", host |-> "login", port |-> None]
OwnPort == [scheme |-> "https", host |-> "login", port |-> 443]
Other == [scheme |-> "https", host |-> "other", port |-> None]
HttpPort == [scheme |-> "http", host |-> "login", port |-> 443]

AllOrigins == {Own, OwnPort, Other, HttpPort}
OneChallenge == {c1}
TwoKeys == {k1, k2}
TwoRpIds == {rp, rp2}
TwoCreds == {id1, id2}

OneClientData ==
    {cd \in WellFormedClientData :
        cd.type = TYPE_GET /\ cd.challenge = c1 /\ cd.origin = Own}

MCClientDatas == WellFormedClientData \cup Faulty(OneClientData)
Good == [expected_challenge |-> c1, expected_origins |-> {OwnPort}, rp_id |-> rp,
         require_user_verification |-> FALSE]

MCArguments ==
    {Good, [Good EXCEPT !.require_user_verification = TRUE],
     [Good EXCEPT !.expected_challenge = None],
     [Good EXCEPT !.expected_origins = {}],
     [Good EXCEPT !.expected_origins = {Own, Other}],
     [Good EXCEPT !.expected_origins = {Own, [Own EXCEPT !.host = ""]}]}
=============================================================================
