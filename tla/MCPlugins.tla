----------------------------- MODULE MCPlugins -----------------------------
(* One plugin with an event type and a flag, or two whose services have    *)
(* the same name.                                                          *)
EXTENDS Plugins

CONSTANTS l1, l2, p1, p2, s1, t1, f1

Declares(name, service, types, flags) ==
    [name |-> name, service |-> service, types |-> types, flags |-> flags]

MCManifests == {<<Declares(p1, s1, <<t1>>, <<f1>>)>>,
                <<Declares(p1, s1, <<>>, <<>>), Declares(p2, s1, <<>>, <<>>)>>}

============================================================================
