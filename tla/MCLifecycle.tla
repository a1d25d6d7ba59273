------------------------------ MODULE MCLifecycle ------------------------------
(* Two chains, in every configuration with one of three types of cache.       *)
EXTENDS Lifecycle

CONSTANTS n1, n2

MCName == {n1, n2}

MCConfig == {c \in Conf : c.type \in {"filesystem", "memcached", "none"}}

\* One chain, sound and the default.
MCOne == {[chains |-> [n \in Name |-> "sound"], default |-> n1,
           type |-> "filesystem", bare |-> FALSE]}
================================================================================
