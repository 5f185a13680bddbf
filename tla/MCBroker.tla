------------------------------ MODULE MCBroker ------------------------------
(* Broker on a small instance: a publisher; a subscriber with its topic    *)
(* and another one, and a subscriber that gives the topic twice.           *)
EXTENDS Broker

CONSTANTS p1, s1, s2

MCTopicOf  == [p \in Publishers |-> "news"]
MCTopicsOf == [s \in Subscribers |-> IF s = s1 THEN <<"news", "sport">> ELSE <<"news", "news">>]
=============================================================================
