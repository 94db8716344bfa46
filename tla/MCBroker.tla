------------------------------ MODULE MCBroker ------------------------------
EXTENDS Broker, TLC

\* One node id is the beginning of the other.
MCIds == {<<"a">>, <<"a", "b">>}
MCInternal == <<"backend">>
MCNodeLevel == <<"node">>
MCPlus == <<"+">>
MCHash == <<"#">>
MCEmpty == <<>>

\* node/<id>, node/<id>/, node/<id>/config, other/<id>/config.
MCTopics ==
    {<<MCNodeLevel, n>> : n \in MCIds}
      \cup {<<MCNodeLevel, n, MCEmpty>> : n \in MCIds}
      \cup {<<l, n, <<"config">>>> : n \in MCIds, l \in {MCNodeLevel, <<"other">>}}

\* node/a/#, node/ab/config, node/+/config, #.
MCFilters ==
    {<<MCNodeLevel, <<"a">>, MCHash>>,
     <<MCNodeLevel, <<"a", "b">>, <<"config">>>>,
     <<MCNodeLevel, MCPlus, <<"config">>>>,
     <<MCHash>>}

Symmetry == Permutations(Handlers)

=============================================================================
