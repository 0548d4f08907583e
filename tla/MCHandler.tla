------------------------------ MODULE MCHandler ------------------------------
(* A client of a memcache listener or of a redis listener. *)
EXTENDS Handler
CONSTANTS none, raw, error

Memcache == [redis |-> FALSE, ejects |-> FALSE, closes |-> FALSE,
             kinds |-> {"one", "two", "none", "noreply", "quit"}]
RedisFront == [redis |-> TRUE, ejects |-> TRUE, closes |-> TRUE,
               kinds |-> {"one", "two", "none", "auth", "badauth", "ping", "bad"}]
MCFronts == {Memcache, RedisFront}
=============================================================================
