---------------------------- MODULE MCRisingWave ----------------------------
(* Small instances of RisingWaveWorkflow.                                  *)
EXTENDS RisingWaveWorkflow

Asks(standalone, kruise, monitor, groups, volumes) ==
    [standalone |-> standalone, kruise |-> kruise, monitor |-> monitor,
     groups |-> groups, volumes |-> volumes]

OneGroup == [c \in Components |-> Groups]

Distributed == Asks(FALSE, FALSE, FALSE, OneGroup, 1)
MCInformers == {{"Service", "ConfigMap", "Deployment", "CloneSet"}, {"ServiceMonitor"},
                {"StatefulSet", "AdvancedStatefulSet"}}
SplitInformers == {{"Service", "ConfigMap", "ServiceMonitor"}, {"Deployment", "CloneSet"},
                   {"StatefulSet", "AdvancedStatefulSet"}}
MCFirst == {Distributed}
Modes == {Distributed, Asks(TRUE, TRUE, FALSE, OneGroup, 1), Asks(FALSE, FALSE, TRUE, OneGroup, 2)}
=============================================================================
