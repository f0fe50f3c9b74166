--------------------------- MODULE MCConfigurator ---------------------------
(***************************************************************************)
(* Instances of Configurator for TLC.                                      *)
(***************************************************************************)
EXTENDS Configurator

Flag(name, equals) == [name |-> name, equals |-> equals]

Manifest(minor, command, mounts) ==
    [minor |-> minor, command |-> command, mounts |-> mounts, volumes |-> mounts,
     dnsPolicy |-> FALSE, marshalled |-> FALSE]

\* A fresh manifest of 1.26; one of 1.23 with an old policy and its value, our
\* volumes in another order and a volume without a name.
Fresh == Manifest(26, <<Flag("kube-scheduler", FALSE), Flag("v", TRUE)>>, <<"kubeconfig">>)
Old == Manifest(23, <<Flag("kube-scheduler", FALSE), Flag("policy-configmap", FALSE),
                      Flag("value", FALSE), Flag("config", TRUE), Flag("v", TRUE)>>,
                <<"certdir", None, "schedulerconfig", "kubeconfig">>)

\* Manifests that are refused, at different steps.
TooOld == Manifest(18, <<Flag("kube-scheduler", FALSE)>>, <<>>)
NoVersion == Manifest(None, <<Flag("kube-scheduler", FALSE)>>, <<>>)
NoCommand == Manifest(26, None, <<>>)

\* A manifest that is configured already.
Done == Modified(Fresh)

MCManifests == {Fresh, Old, TooOld, NoVersion, NoCommand, Done}
MCOldConfigs == {Missing, [template |-> "handmade", version |-> "v1"]}

MCInvocations ==
    {[dryRun |-> TRUE, backup |-> TRUE, deployments |-> {"tas"}],
     [dryRun |-> FALSE, backup |-> TRUE, deployments |-> {"tas", "gas"}],
     [dryRun |-> FALSE, backup |-> FALSE, deployments |-> {}]}
=============================================================================
