-------------------------- MODULE TalosBootstrapProofs --------------------------
(* What holds of TalosBootstrap for any nodes, any number of PKIs and any    *)
(* sequence of runs.                                                         *)
EXTENDS TalosBootstrap, TLAPS

(* From the rendering on, secrets.yaml holds the PKI the run works with.     *)
SecretsStaged == run.pc \in Staged => disk["secrets"] = run.pki

TypeInv == TypeOK /\ SecretsStaged

LEMMA NothingTypes ==
  /\ Idle \in [kind : Kinds \union {"none"}, pc : Steps, pki : Pkis \union {NoPki},
               left : SUBSET Nodes]
  /\ Idle.pc = "idle"
BY DEF Idle, Steps, Unstaged

LEMMA ReplaceSteps ==
  \A f \in DOMAIN NextReplaced :
    NextReplaced[f] \in {"worker", "talosconfig", "nodes", "deploy"}
BY DEF NextReplaced

LEMMA MachinesTypes ==
  ASSUME TypeOK, NEW machines \in [Nodes -> Pkis \union MachineStates],
         Machines(machines)
  PROVE  /\ vm' \in [Nodes -> Pkis \union MachineStates]
         /\ etcd' \in {"none", "starting", "up"}
         /\ asked' \in Nat
BY DEF TypeOK, Machines

LEMMA InitTypeInv == Init => TypeInv
<1> SUFFICES ASSUME Init PROVE TypeInv
  OBVIOUS
<1>1. run.pc \notin Staged \union {"install"}
  BY NothingTypes DEF Init, Staged, NextReplaced
<1>2. /\ disk \in [Files -> Pkis \union {NoPki}]
      /\ vm \in [Nodes -> Pkis \union MachineStates]
  BY DEF Init, MachineStates
<1> QED
  BY <1>1, <1>2, NothingTypes DEF Init, TypeInv, TypeOK, SecretsStaged

LEMMA NextTypeInv == TypeInv /\ [Next]_vars => TypeInv'
<1> SUFFICES ASSUME TypeInv, [Next]_vars PROVE TypeInv'
  OBVIOUS
<1> USE NothingTypes DEF TypeInv, SecretsStaged
<1>1. ASSUME NEW kind \in Kinds, Begin(kind) PROVE TypeInv'
  BY <1>1 DEF Begin, TypeOK, Idle, Staged, Steps, Unstaged, NextReplaced, At
<1>2. CASE Stop
  BY <1>2 DEF Stop, TypeOK, Staged, NextReplaced
<1>3. CASE ReuseSecrets
  BY <1>3 DEF ReuseSecrets, TypeOK, Staged, Steps, Files, PkiSources, At
<1>4. CASE RecoverSecrets
  BY <1>4 DEF RecoverSecrets, TypeOK, Staged, Steps, NextReplaced, Files, PkiSources,
              SensitiveOutputs, At
<1>5. CASE GenerateSecrets
  BY <1>5 DEF GenerateSecrets, TypeOK, Staged, Steps, NextReplaced, At
<1>6. CASE InstallSecrets
  BY <1>6 DEF InstallSecrets, TypeOK, Staged, Steps, Files, PkiSources, At, Goto
<1>7. CASE RenderConfigs
  BY <1>7 DEF RenderConfigs, TypeOK, Staged, Steps, NextReplaced, At
<1>8. CASE ReplaceConfig
  BY <1>8 DEF ReplaceConfig, TypeOK, Staged, Steps, NextReplaced, Files, PkiSources,
              SensitiveOutputs, Goto
<1>9. CASE TerraformApply
  <2> DEFINE Mixed(touched, new) ==
        [n \in Nodes |-> IF n \in touched THEN new[n] ELSE vm[n]]
  <2>1. PICK touched \in SUBSET Nodes :
          \E new \in [touched -> MachineStates] :
            /\ Machines(Mixed(touched, new))
            /\ Goto("classify") \/ run' = Idle
    BY <1>9 DEF TerraformApply
  <2>2. PICK new \in [touched -> MachineStates] :
          /\ Machines(Mixed(touched, new))
          /\ Goto("classify") \/ run' = Idle
    BY <2>1
  <2>3. Mixed(touched, new) \in [Nodes -> Pkis \union MachineStates]
    BY DEF TypeOK
  <2>4. /\ vm' \in [Nodes -> Pkis \union MachineStates]
        /\ etcd' \in {"none", "starting", "up"}
        /\ asked' \in Nat
    BY <2>2, <2>3, MachinesTypes
  <2> QED
    BY <1>9, <2>2, <2>4 DEF TerraformApply, TypeOK, Staged, Steps, NextReplaced, At, Goto
<1>10. CASE SkipTerraform
  BY <1>10 DEF SkipTerraform, TypeOK, Staged, Steps, At, Goto
<1>11. CASE ClassifyNodes
  BY <1>11 DEF ClassifyNodes, TypeOK, Staged, Steps, At
<1>12. ASSUME NEW n \in Nodes, ConfigureNode(n) PROVE TypeInv'
  BY <1>12 DEF ConfigureNode, TypeOK, Staged, Steps, At
<1>13. CASE MembersAnswer
  BY <1>13 DEF MembersAnswer, TypeOK, Staged, Steps, Goto
<1>14. CASE MembersFail
  BY <1>14 DEF MembersFail, TypeOK, Staged, Steps, At, Goto
<1>15. CASE MarkersFound
  BY <1>15 DEF MarkersFound, TypeOK, Staged, Steps, At, Goto
<1>16. CASE WriteRequested
  BY <1>16 DEF WriteRequested, TypeOK, Staged, Steps, At, Goto
<1>17. CASE SendBootstrap
  BY <1>17 DEF SendBootstrap, TypeOK, Staged, Steps, At, Goto
<1>18. CASE FetchKubeconfig
  BY <1>18 DEF FetchKubeconfig, TypeOK, Staged, NextReplaced, Files, At
<1>19. CASE TerraformDestroy
  <2>1. PICK gone \in SUBSET Nodes :
          /\ Machines([n \in Nodes |-> IF n \in gone THEN "absent" ELSE vm[n]])
          /\ Goto("unlink_requested") \/ run' = Idle
    BY <1>19 DEF TerraformDestroy
  <2>2. [n \in Nodes |-> IF n \in gone THEN "absent" ELSE vm[n]]
          \in [Nodes -> Pkis \union MachineStates]
    BY DEF TypeOK, MachineStates
  <2>3. /\ vm' \in [Nodes -> Pkis \union MachineStates]
        /\ etcd' \in {"none", "starting", "up"}
        /\ asked' \in Nat
    BY <2>1, <2>2, MachinesTypes
  <2> QED
    BY <1>19, <2>1, <2>3
    DEF TerraformDestroy, TypeOK, Staged, Steps, Unstaged, NextReplaced, At, Goto
<1>20. CASE UnlinkRequested
  BY <1>20 DEF UnlinkRequested, TypeOK, Staged, Steps, Unstaged, NextReplaced, At, Goto
<1>21. CASE UnlinkComplete
  BY <1>21 DEF UnlinkComplete, TypeOK, Staged, NextReplaced
<1>22. CASE EtcdComesUp \/ EtcdOutage
  BY <1>22 DEF EtcdComesUp, EtcdOutage, TypeOK
<1>23. ASSUME NEW f \in PkiSources, LoseFile(f) PROVE TypeInv'
  BY <1>23 DEF LoseFile, TypeOK, Staged, NextReplaced, At
<1>24. CASE LosePki
  BY <1>24 DEF LosePki, TypeOK, Staged, NextReplaced, At
<1>25. CASE UNCHANGED vars
  BY <1>25 DEF vars, TypeOK
<1> QED
  BY <1>1, <1>2, <1>3, <1>4, <1>5, <1>6, <1>7, <1>8, <1>9, <1>10, <1>11, <1>12, <1>13,
     <1>14, <1>15, <1>16, <1>17, <1>18, <1>19, <1>20, <1>21, <1>22, <1>23, <1>24, <1>25
  DEF Next, PrepareAssets, EnsureBootstrap

(* While assets are prepared, neither the nodes nor the markers change.      *)
LEMMA PrepareSteps ==
  ASSUME TypeInv, PrepareAssets
  PROVE  /\ run'.pc \in {"install", "render", "controlplane", "worker", "talosconfig",
                          "nodes", "deploy"}
         /\ UNCHANGED <<vm, asked, requested>>
<1> USE DEF Goto
<1>0. run \in [kind : Kinds \union {"none"}, pc : Steps, pki : Pkis \union {NoPki},
               left : SUBSET Nodes]
  BY DEF TypeInv, TypeOK
<1>1. CASE ReuseSecrets
  BY <1>0, <1>1 DEF ReuseSecrets
<1>2. CASE RecoverSecrets
  BY <1>0, <1>2 DEF RecoverSecrets
<1>3. CASE GenerateSecrets
  BY <1>0, <1>3 DEF GenerateSecrets
<1>4. CASE InstallSecrets
  BY <1>0, <1>4 DEF InstallSecrets
<1>5. CASE RenderConfigs
  BY <1>0, <1>5 DEF RenderConfigs
<1>6. CASE ReplaceConfig
  BY <1>0, <1>6, ReplaceSteps DEF ReplaceConfig
<1> QED
  BY <1>1, <1>2, <1>3, <1>4, <1>5, <1>6 DEF PrepareAssets

LEMMA TypeInvariant == Spec => []TypeInv
BY InitTypeInv, NextTypeInv, PTL DEF Spec

(* The variables of the Talos run keep their types, and a run that is past   *)
(* prepare_talos_assets works with a PKI.                                    *)
THEOREM TypeCorrect == Spec => []TypeOK
<1>1. TypeInv => TypeOK
  BY DEF TypeInv
<1> QED
  BY <1>1, TypeInvariant, PTL

-----------------------------------------------------------------------------
(* Once a bootstrap was sent, the marker is there until the control planes   *)
(* are gone; a run is about to send one only if none was sent; and the       *)
(* markers are removed only when the control planes are gone.                *)
BootstrapInv ==
  /\ asked \in {0, 1}
  /\ asked = 1 => requested
  /\ At("bootstrap") => asked = 0 /\ requested
  /\ run.pc \in {"unlink_requested", "unlink_complete"} => asked = 0

LEMMA NextBootstrapInv == TypeInv /\ BootstrapInv /\ [Next]_vars => BootstrapInv'
<1> SUFFICES ASSUME TypeInv, BootstrapInv, [Next]_vars PROVE BootstrapInv'
  OBVIOUS
<1> USE DEF BootstrapInv, At, Goto
<1>1. run \in [kind : Kinds \union {"none"}, pc : Steps, pki : Pkis \union {NoPki},
               left : SUBSET Nodes]
  BY DEF TypeInv, TypeOK
<1>2. CASE (\E kind \in Kinds : Begin(kind)) \/ Stop
  <2>1. run'.pc \in {"idle", "prepare", "destroy"}
    BY <1>2, NothingTypes DEF Begin, Stop
  <2> QED
    BY <1>2, <2>1 DEF Begin, Stop
<1>3. CASE PrepareAssets
  BY <1>3, PrepareSteps
<1>4. CASE TerraformApply
  BY <1>1, <1>4 DEF TerraformApply, Machines, Idle
<1>5. CASE SkipTerraform \/ ClassifyNodes \/ \E n \in Nodes : ConfigureNode(n)
  BY <1>1, <1>5 DEF SkipTerraform, ClassifyNodes, ConfigureNode
<1>6. CASE EnsureBootstrap
  BY <1>1, <1>6 DEF EnsureBootstrap, MembersAnswer, MembersFail, MarkersFound, WriteRequested,
              SendBootstrap
<1>7. CASE FetchKubeconfig
  BY <1>7 DEF FetchKubeconfig, Idle
<1>8. CASE TerraformDestroy
  <2> DEFINE Left(gone) == [n \in Nodes |-> IF n \in gone THEN "absent" ELSE vm[n]]
  <2>1. PICK gone \in SUBSET Nodes :
          /\ Machines(Left(gone))
          /\ IF \A n \in Nodes \ gone : vm[n] = "absent"
               THEN Goto("unlink_requested") ELSE run' = Idle
    BY <1>8 DEF TerraformDestroy
  <2>2. asked' \in {0, asked} /\ requested' = requested
    BY <1>8, <2>1 DEF TerraformDestroy, Machines
  <2>3. CASE \A n \in Nodes \ gone : vm[n] = "absent"
    <3>1. \A n \in ControlPlanes : Left(gone)[n] = "absent"
      BY <2>3, ConstantsAssumption
    <3>2. ~EtcdSurvives(Left(gone))
      BY <3>1, ConstantsAssumption DEF EtcdSurvives, MachineStates
    <3>3. asked' = 0
      BY <2>1, <3>2 DEF Machines
    <3> QED
      BY <1>1, <2>1, <2>3, <3>3
  <2>4. CASE ~ \A n \in Nodes \ gone : vm[n] = "absent"
    BY <2>1, <2>2, <2>4 DEF Idle
  <2> QED
    BY <2>3, <2>4
<1>9. CASE UnlinkRequested \/ UnlinkComplete
  BY <1>1, <1>9 DEF UnlinkRequested, UnlinkComplete, Idle
<1>10. CASE \/ EtcdComesUp \/ EtcdOutage
            \/ \E f \in PkiSources : LoseFile(f)
            \/ LosePki
            \/ UNCHANGED vars
  BY <1>10 DEF EtcdComesUp, EtcdOutage, LoseFile, LosePki, vars
<1> QED
  BY <1>2, <1>3, <1>4, <1>5, <1>6, <1>7, <1>8, <1>9, <1>10 DEF Next

(* ensure_talos_bootstrap never sends a second bootstrap to control planes   *)
(* that may have accepted one, whatever stops, fails, is lost or is rebuilt. *)
THEOREM BootstrapAtMostOnce == Spec => []BootstrapOnce
<1>1. Init => BootstrapInv
  BY DEF Init, BootstrapInv, At, Idle
<1>2. BootstrapInv => BootstrapOnce
  BY DEF BootstrapInv, BootstrapOnce
<1> QED
  BY <1>1, <1>2, NextBootstrapInv, TypeInvariant, PTL DEF Spec

-----------------------------------------------------------------------------
(* While nodes are configured, all of them are as they were classified.      *)
ClassifiedInv == At("configure") => \A n \in Nodes : Recognised(n)

LEMMA NextClassifiedInv == TypeInv /\ ClassifiedInv /\ [Next]_vars => ClassifiedInv'
<1> SUFFICES ASSUME TypeInv, ClassifiedInv, [Next]_vars PROVE ClassifiedInv'
  OBVIOUS
<1> USE DEF ClassifiedInv, Recognised, At, Goto
<1>1. run \in [kind : Kinds \union {"none"}, pc : Steps, pki : Pkis \union {NoPki},
               left : SUBSET Nodes]
  BY DEF TypeInv, TypeOK
<1>2. CASE (\E kind \in Kinds : Begin(kind)) \/ Stop
  <2>1. run'.pc \in {"idle", "prepare", "destroy"}
    BY <1>2, NothingTypes DEF Begin, Stop
  <2> QED
    BY <1>2, <2>1 DEF Begin, Stop
<1>3. CASE PrepareAssets
  BY <1>3, PrepareSteps
<1>4. CASE TerraformApply \/ TerraformDestroy
  <2>1. run' = Idle \/ Goto("classify") \/ Goto("unlink_requested")
    BY <1>4 DEF TerraformApply, TerraformDestroy
  <2>2. run'.pc \in {"idle", "classify", "unlink_requested"}
    BY <1>1, <2>1, NothingTypes
  <2> QED
    BY <2>2
<1>5. CASE SkipTerraform \/ ClassifyNodes
  BY <1>1, <1>5 DEF SkipTerraform, ClassifyNodes
<1>6. ASSUME NEW n \in Nodes, ConfigureNode(n) PROVE ClassifiedInv'
  <2>1. vm' = [vm EXCEPT ![n] = run.pki] /\ run'.pki = run.pki
    BY <1>1, <1>6 DEF ConfigureNode
  <2> QED
    BY <1>6, <2>1 DEF ConfigureNode, TypeInv, TypeOK
<1>7. CASE EnsureBootstrap
  BY <1>1, <1>7 DEF EnsureBootstrap, MembersAnswer, MembersFail, MarkersFound, WriteRequested,
              SendBootstrap
<1>8. CASE FetchKubeconfig \/ UnlinkRequested \/ UnlinkComplete
  BY <1>1, <1>8 DEF FetchKubeconfig, UnlinkRequested, UnlinkComplete, Idle
<1>9. CASE \/ EtcdComesUp \/ EtcdOutage
           \/ \E f \in PkiSources : LoseFile(f)
           \/ LosePki
           \/ UNCHANGED vars
  BY <1>9 DEF EtcdComesUp, EtcdOutage, LoseFile, LosePki, vars
<1> QED
  BY <1>2, <1>3, <1>4, <1>5, <1>6, <1>7, <1>8, <1>9 DEF Next

(* Only ConfigureNode gives a node a PKI, ..                                 *)
LEMMA OnlyConfigureJoins ==
  ASSUME TypeInv, Next, NEW n \in Nodes, vm[n] \notin Pkis, vm'[n] \in Pkis
  PROVE  ConfigureNode(n)
<1>1. CASE TerraformApply
  BY <1>1, ConstantsAssumption DEF TerraformApply, Machines
<1>2. CASE TerraformDestroy
  BY <1>2, ConstantsAssumption DEF TerraformDestroy, Machines, MachineStates
<1>3. CASE \E m \in Nodes : ConfigureNode(m)
  BY <1>3 DEF ConfigureNode, TypeInv, TypeOK
<1>4. CASE ~TerraformApply /\ ~TerraformDestroy /\ ~ \E m \in Nodes : ConfigureNode(m)
  <2>1. UNCHANGED vm
    BY <1>4
    DEF Next, Begin, Stop, PrepareAssets, ReuseSecrets, RecoverSecrets, GenerateSecrets,
        InstallSecrets, RenderConfigs, ReplaceConfig, SkipTerraform, ClassifyNodes,
        EnsureBootstrap, MembersAnswer, MembersFail, MarkersFound, WriteRequested,
        SendBootstrap, FetchKubeconfig, UnlinkRequested, UnlinkComplete, EtcdComesUp,
        EtcdOutage, LoseFile, LosePki
  <2> QED
    BY <2>1
<1> QED
  BY <1>1, <1>2, <1>3, <1>4

(* .. and it does so only when every other node has been recognised: no node *)
(* joins while another answers to a foreign PKI or not at all.               *)
THEOREM NoNodeHalfJoins == Spec => NoHalfJoin
<1> DEFINE Joins == \A n \in Nodes : vm[n] \notin Pkis /\ vm'[n] \in Pkis
                      => \A m \in Nodes : vm[m] \in {vm'[n], "maintenance"}
<1>1. Init => ClassifiedInv
  BY NothingTypes DEF Init, ClassifiedInv, At
<1>2. TypeInv /\ ClassifiedInv /\ [Next]_vars => [Joins]_vars
  <2> SUFFICES ASSUME TypeInv, ClassifiedInv, Next,
                      NEW n \in Nodes, vm[n] \notin Pkis, vm'[n] \in Pkis, NEW m \in Nodes
               PROVE  vm[m] \in {vm'[n], "maintenance"}
    BY DEF vars
  <2>1. ConfigureNode(n)
    BY OnlyConfigureJoins
  <2>2. vm'[n] = run.pki
    BY <2>1 DEF ConfigureNode, TypeInv, TypeOK
  <2> QED
    BY <2>1, <2>2 DEF ConfigureNode, ClassifiedInv, Recognised
<1> QED
  BY <1>1, <1>2, NextClassifiedInv, TypeInvariant, PTL DEF Spec, NoHalfJoin

-----------------------------------------------------------------------------
(* The files or nodes that carry p, and where one must be looked for.        *)
InUse(p) == (\E f \in Files : disk[f] = p) \/ (\E n \in Nodes : vm[n] = p)
SomeTrace == \E f \in PkiSources : disk[f] # NoPki

(* A run that holds a PKI holds the only one in use, and one that is in use  *)
(* has left a trace prepare_talos_assets looks for.                          *)
PkiInv ==
  /\ \A p, q \in Pkis : InUse(p) /\ InUse(q) => p = q
  /\ run.pc \in Staged \union {"install"} => \A p \in Pkis : InUse(p) => p = run.pki
  /\ \A p \in Pkis : InUse(p) => SomeTrace

(* Four steps bring a PKI into use: ..                                       *)
LEMMA StepsOfUse ==
  ASSUME TypeInv, Next, NEW p \in Pkis, InUse(p)', ~InUse(p)
  PROVE  \/ InstallSecrets \/ ReplaceConfig \/ FetchKubeconfig
         \/ \E n \in Nodes : ConfigureNode(n)
<1>1. CASE TerraformApply
  BY <1>1, ConstantsAssumption DEF TerraformApply, Machines, InUse
<1>2. CASE TerraformDestroy
  BY <1>2, ConstantsAssumption DEF TerraformDestroy, Machines, MachineStates, InUse
<1>3. CASE \E f \in PkiSources : LoseFile(f)
  BY <1>3, ConstantsAssumption DEF LoseFile, InUse, TypeInv, TypeOK
<1>4. CASE LosePki
  BY <1>4, ConstantsAssumption DEF LosePki, InUse
<1>5. ~UNCHANGED <<disk, vm>>
  BY DEF InUse
<1> QED
  BY <1>1, <1>2, <1>3, <1>4, <1>5
  DEF Next, Begin, Stop, PrepareAssets, ReuseSecrets, RecoverSecrets, GenerateSecrets,
      RenderConfigs, SkipTerraform, ClassifyNodes, EnsureBootstrap, MembersAnswer,
      MembersFail, MarkersFound, WriteRequested, SendBootstrap, UnlinkRequested,
      UnlinkComplete, EtcdComesUp, EtcdOutage

(* .. it is the PKI of the run, and it is in secrets.yaml then.              *)
LEMMA NewUse ==
  ASSUME TypeInv, Next, NEW p \in Pkis, InUse(p)', ~InUse(p)
  PROVE  /\ p = run.pki /\ run.pc \in Staged \union {"install"}
         /\ run'.pki = run.pki \/ run' = Idle
         /\ disk'["secrets"] = p
<1>0. run \in [kind : Kinds \union {"none"}, pc : Steps, pki : Pkis \union {NoPki},
               left : SUBSET Nodes]
  BY DEF TypeInv, TypeOK
<1>1. CASE InstallSecrets
  <2>1. disk' = [disk EXCEPT !["secrets"] = run.pki] /\ vm' = vm /\ run.pc = "install"
    BY <1>1 DEF InstallSecrets, At
  <2>2. p = run.pki /\ disk'["secrets"] = p
    BY <2>1 DEF InUse, TypeInv, TypeOK, Files, PkiSources
  <2>3. run'.pki = run.pki
    BY <1>0, <1>1 DEF InstallSecrets, Goto
  <2> QED
    BY <2>1, <2>2, <2>3
<1>2. CASE ReplaceConfig
  <2>1. disk' = [disk EXCEPT ![run.pc] = run.pki] /\ vm' = vm /\ run.pc \in DOMAIN NextReplaced
    BY <1>2 DEF ReplaceConfig
  <2>2. run.pc \in Staged /\ run.pc # "secrets" /\ disk["secrets"] = run.pki
    BY <2>1 DEF NextReplaced, Staged, TypeInv, SecretsStaged
  <2>3. p = run.pki /\ disk'["secrets"] = p
    BY <2>1, <2>2 DEF InUse, TypeInv, TypeOK, Files, PkiSources
  <2>4. run'.pki = run.pki
    BY <1>0, <1>2 DEF ReplaceConfig, Goto
  <2> QED
    BY <2>2, <2>3, <2>4
<1>3. CASE FetchKubeconfig
  <2>1. /\ disk' = [disk EXCEPT !["kubeconfig"] = run.pki] /\ vm' = vm
        /\ run.pc \in Staged /\ run' = Idle
    BY <1>3 DEF FetchKubeconfig, At, Staged
  <2>2. disk["secrets"] = run.pki
    BY <2>1 DEF TypeInv, SecretsStaged
  <2>3. p = run.pki /\ disk'["secrets"] = p
    BY <2>1, <2>2 DEF InUse, TypeInv, TypeOK, Files, PkiSources
  <2> QED
    BY <2>1, <2>3
<1>4. CASE \E n \in Nodes : ConfigureNode(n)
  <2>1. PICK n \in Nodes : ConfigureNode(n)
    BY <1>4
  <2>2. /\ vm' = [vm EXCEPT ![n] = run.pki] /\ disk' = disk
        /\ run.pc \in Staged /\ run'.pki = run.pki
    BY <1>0, <2>1 DEF ConfigureNode, At, Staged
  <2>3. p = run.pki /\ disk'["secrets"] = p
    BY <2>2 DEF InUse, TypeInv, TypeOK, SecretsStaged
  <2> QED
    BY <2>2, <2>3
<1> QED
  BY <1>1, <1>2, <1>3, <1>4, StepsOfUse

(* What was lost once stays lost.                                            *)
LEMMA NothingLost == ASSUME Next, ~lost' PROVE ~lost /\ ~LosePki
<1>1. ~LosePki
  BY DEF LosePki
<1>2. UNCHANGED lost
  <2>1. CASE TerraformApply
    BY <2>1 DEF TerraformApply
  <2>2. CASE TerraformDestroy
    BY <2>2 DEF TerraformDestroy
  <2>3. CASE PrepareAssets
    BY <2>3
    DEF PrepareAssets, ReuseSecrets, RecoverSecrets, GenerateSecrets, InstallSecrets,
        RenderConfigs, ReplaceConfig
  <2>4. CASE EnsureBootstrap
    BY <2>4
    DEF EnsureBootstrap, MembersAnswer, MembersFail, MarkersFound, WriteRequested,
        SendBootstrap
  <2>5. CASE (\E kind \in Kinds : Begin(kind)) \/ Stop \/ SkipTerraform \/ ClassifyNodes
             \/ (\E n \in Nodes : ConfigureNode(n)) \/ FetchKubeconfig
    BY <2>5 DEF Begin, Stop, SkipTerraform, ClassifyNodes, ConfigureNode, FetchKubeconfig
  <2>6. CASE UnlinkRequested \/ UnlinkComplete \/ EtcdComesUp \/ EtcdOutage
             \/ \E f \in PkiSources : LoseFile(f)
    BY <2>6 DEF UnlinkRequested, UnlinkComplete, EtcdComesUp, EtcdOutage, LoseFile
  <2> QED
    BY <1>1, <2>1, <2>2, <2>3, <2>4, <2>5, <2>6 DEF Next
<1> QED
  BY <1>1, <1>2

(* As long as not everything is lost, a trace stays.                         *)
LEMMA TraceStays ==
  ASSUME TypeInv, Next, ~LosePki, SomeTrace
  PROVE  SomeTrace'
<1>1. CASE InstallSecrets
  BY <1>1, ConstantsAssumption
  DEF InstallSecrets, At, SomeTrace, PkiSources, Files, TypeInv, TypeOK
<1>2. CASE ReplaceConfig
  <2>1. run.pki # NoPki /\ disk' = [disk EXCEPT ![run.pc] = run.pki]
    BY <1>2, ConstantsAssumption DEF ReplaceConfig, TypeInv, TypeOK, Staged
  <2> QED
    BY <2>1 DEF SomeTrace, Files, TypeInv, TypeOK
<1>3. CASE FetchKubeconfig
  BY <1>3 DEF FetchKubeconfig, SomeTrace, PkiSources, SensitiveOutputs, Files, TypeInv, TypeOK
<1>4. CASE \E f \in PkiSources : LoseFile(f)
  BY <1>4 DEF LoseFile, SomeTrace, Files, TypeInv, TypeOK
<1>5. CASE UNCHANGED disk
  BY <1>5 DEF SomeTrace
<1> QED
  BY <1>1, <1>2, <1>3, <1>4, <1>5
  DEF Next, Begin, Stop, PrepareAssets, ReuseSecrets, RecoverSecrets, GenerateSecrets,
      RenderConfigs, TerraformApply, SkipTerraform, ClassifyNodes, ConfigureNode,
      EnsureBootstrap, MembersAnswer, MembersFail, MarkersFound, WriteRequested,
      SendBootstrap, TerraformDestroy, UnlinkRequested, UnlinkComplete, EtcdComesUp,
      EtcdOutage

(* A run that stages a PKI keeps it, or it has just taken the one it found,  *)
(* or made one because there was none.                                       *)
LEMMA StagedIsOnly ==
  ASSUME TypeInv, PkiInv, Next, run'.pc \in Staged \union {"install"}
  PROVE  \A p \in Pkis : InUse(p) => p = run'.pki
<1> SUFFICES ASSUME NEW p \in Pkis, InUse(p) PROVE p = run'.pki
  OBVIOUS
<1>0. run \in [kind : Kinds \union {"none"}, pc : Steps, pki : Pkis \union {NoPki},
               left : SUBSET Nodes]
  BY DEF TypeInv, TypeOK
<1>1. CASE ReuseSecrets
  <2>1. run'.pki = disk["secrets"] /\ disk["secrets"] \in Pkis
    BY <1>0, <1>1 DEF ReuseSecrets, TypeInv, TypeOK, Files, PkiSources
  <2>2. InUse(disk["secrets"])
    BY DEF InUse, Files, PkiSources
  <2> QED
    BY <2>1, <2>2 DEF PkiInv
<1>2. CASE RecoverSecrets
  <2>1. run'.pki = disk["controlplane"] /\ disk["controlplane"] \in Pkis
    BY <1>0, <1>2 DEF RecoverSecrets, TypeInv, TypeOK, Files, PkiSources, SensitiveOutputs
  <2>2. InUse(disk["controlplane"])
    BY DEF InUse, Files, PkiSources, SensitiveOutputs
  <2> QED
    BY <2>1, <2>2 DEF PkiInv
<1>3. CASE GenerateSecrets
  BY <1>3 DEF GenerateSecrets, PkiInv, SomeTrace
<1>4. CASE RenderConfigs
  BY <1>0, <1>4 DEF RenderConfigs, At, PkiInv, TypeInv, SecretsStaged, Staged
<1>5. CASE Stop \/ (\E kind \in Kinds : Begin(kind)) \/ TerraformDestroy
             \/ UnlinkRequested \/ UnlinkComplete \/ FetchKubeconfig
  <2>1. run'.pc \in Unstaged
    BY <1>0, <1>5, NothingTypes
    DEF Stop, Begin, TerraformDestroy, UnlinkRequested, UnlinkComplete, FetchKubeconfig,
        Goto, Unstaged
  <2> QED
    BY <2>1 DEF Unstaged, Staged, NextReplaced
<1>6. CASE run'.pki = run.pki /\ run.pc \in Staged \union {"install"}
  BY <1>6 DEF PkiInv
<1>7. CASE \/ InstallSecrets \/ ReplaceConfig \/ SkipTerraform \/ ClassifyNodes
           \/ (\E n \in Nodes : ConfigureNode(n)) \/ EnsureBootstrap
  <2>1. run'.pki = run.pki
    BY <1>0, <1>7
    DEF InstallSecrets, ReplaceConfig, SkipTerraform, ClassifyNodes, ConfigureNode,
        EnsureBootstrap, MembersAnswer, MembersFail, MarkersFound, WriteRequested,
        SendBootstrap, Goto
  <2>2. run.pc \in Staged \union {"install"}
    BY <1>7
    DEF InstallSecrets, ReplaceConfig, SkipTerraform, ClassifyNodes, ConfigureNode,
        EnsureBootstrap, MembersAnswer, MembersFail, MarkersFound, WriteRequested,
        SendBootstrap, At, Staged
  <2> QED
    BY <1>6, <2>1, <2>2
<1>8. CASE TerraformApply
  <2>1. run.pc \in Staged /\ (Goto("classify") \/ run' = Idle)
    BY <1>8 DEF TerraformApply, At, Staged
  <2>2. CASE Goto("classify")
    BY <1>0, <1>6, <2>1, <2>2 DEF Goto
  <2>3. CASE run' = Idle
    BY <2>3, NothingTypes DEF Staged, NextReplaced
  <2> QED
    BY <2>1, <2>2, <2>3
<1>9. CASE EtcdComesUp \/ EtcdOutage \/ (\E f \in PkiSources : LoseFile(f)) \/ LosePki
  BY <1>6, <1>9 DEF EtcdComesUp, EtcdOutage, LoseFile, LosePki
<1> QED
  BY <1>1, <1>2, <1>3, <1>4, <1>5, <1>7, <1>8, <1>9 DEF Next, PrepareAssets

LEMMA NextPkiInv ==
  TypeInv /\ TypeInv' /\ (~lost => PkiInv) /\ [Next]_vars => (~lost' => PkiInv')
<1> SUFFICES ASSUME TypeInv, TypeInv', ~lost => PkiInv, ~lost', Next PROVE PkiInv'
  BY DEF PkiInv, InUse, SomeTrace, vars
<1>0. PkiInv /\ ~LosePki
  BY NothingLost
<1>1. ASSUME NEW p \in Pkis, NEW q \in Pkis, InUse(p)', InUse(q)' PROVE p = q
  BY <1>0, <1>1, NewUse DEF PkiInv
<1>2. ASSUME run'.pc \in Staged \union {"install"}, NEW p \in Pkis, InUse(p)'
      PROVE  p = run'.pki
  <2>1. CASE InUse(p)
    BY <1>0, <1>2, <2>1, StagedIsOnly
  <2>2. CASE ~InUse(p)
    <3>1. run' # Idle
      BY <1>2, NothingTypes DEF Staged, NextReplaced
    <3> QED
      BY <1>2, <2>2, <3>1, NewUse
  <2> QED
    BY <2>1, <2>2
<1>3. ASSUME NEW p \in Pkis, InUse(p)' PROVE SomeTrace'
  <2>1. CASE InUse(p)
    BY <1>0, <2>1, TraceStays DEF PkiInv
  <2>2. CASE ~InUse(p)
    BY <1>3, <2>2, NewUse, ConstantsAssumption DEF SomeTrace, PkiSources
  <2> QED
    BY <2>1, <2>2
<1> QED
  BY <1>1, <1>2, <1>3 DEF PkiInv

(* Unless every trace of the PKI was lost, the worker never replaces it: all *)
(* files of the workspace and all nodes carry one PKI.                       *)
THEOREM PkiNeverReplaced == Spec => []OnePki
<1>1. Init => (~lost => PkiInv)
  <2> SUFFICES ASSUME Init PROVE PkiInv
    OBVIOUS
  <2>1. \A p \in Pkis : ~InUse(p)
    BY ConstantsAssumption DEF Init, InUse, MachineStates
  <2> QED
    BY <2>1 DEF PkiInv
<1>2. (~lost => PkiInv) => OnePki
  BY DEF PkiInv, OnePki, PkisInUse, InUse
<1> QED
  BY <1>1, <1>2, NextPkiInv, TypeInvariant, PTL DEF Spec
=============================================================================
