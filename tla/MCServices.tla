------------------------------- MODULE MCServices -------------------------------
(* Services with three migration files, a session that two users share, and  *)
(* one list per filter.                                                     *)
EXTENDS Services

MCFiles == << <<"create">>, <<"create", "alter">>, <<"alter">> >>

Event(session, user, kind, model, at) == [call |-> <<session, user>>, kind |-> <<kind, model>>, at |-> at]
MCEvents == {Event("s1", "ann", "request", "opus", 1), Event("s1", "ann", "blocked", "none", 2),
             Event("s1", "bob", "request", "haiku", 1), Event("s1", "bob", "evaluated", "none", 2),
             Event("s1", "bob", "response", "none", 3), Event("s2", "ann", "probe", "haiku", 2),
             Event("s2", "ann", "evaluated", "none", 1), Event("s2", "bob", "request", "opus", 3)}

Asked(user, by, value, offset) == [user |-> user, by |-> by, value |-> value, offset |-> offset]
MCQueries == {Asked("none", "none", 0, 0), Asked("none", "none", 0, 1), Asked("ann", "none", 0, 0),
              Asked("bob", "model", "opus", 0), Asked("ann", "word", 0, 0), Asked("none", "intervention", 0, 0),
              Asked("none", "from", 2, 0), Asked("ann", "to", 1, 0)}
=============================================================================
