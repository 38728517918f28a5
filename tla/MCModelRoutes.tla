---------------------------- MODULE MCModelRoutes ----------------------------
EXTENDS ModelRoutes

CONSTANTS home, office, h1, h2, m1, m2, p1, p2, u1, u2, u3, chat, term, cli

MCNames == {home, office}
MCHosts == {h1, h2}
MCModels == {m1, m2}
Plain == [small |-> FALSE, cpu |-> FALSE]
MCInitialServers ==
    { <<>>,
      <<[name |-> home, url |-> h1, model |-> m1, options |-> Plain],
        [name |-> office, url |-> h2, model |-> m2,
         options |-> [small |-> TRUE, cpu |-> FALSE]]>> }
MCTunings == {[small |-> TRUE, cpu |-> TRUE]}
(* p1 is a custom provider that can move, p2 one of the catalogue. *)
MCAddresses == [p \in Providers |-> IF p = p1 THEN {u1, u2} ELSE {u3}]
MCInitialCloud ==
    { [p \in Providers |-> IF p = p1 THEN [url |-> u1, model |-> m1]
                                     ELSE [url |-> u3, model |-> m2]] }
MCInstalled == [h \in MCHosts |-> IF h = h1 THEN {m1} ELSE {m1, m2}]
MCCatalogue == [p \in Providers |-> IF p = p1 THEN {m1, m2} ELSE {m2}]
=============================================================================
