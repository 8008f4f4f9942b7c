------------------------------ MODULE MCUpload ------------------------------
(* Instances of Upload for TLC.                                            *)
EXTENDS Upload

(* Every way a run can be asked for and refused, on the largest and the    *)
(* smallest plan.                                                          *)
AllInvocations == InvocationType

(* Runs that get past the checks: the plan and --overwrite vary.           *)
GoodInvocations ==
  {i \in InvocationType : i.valid /\ ~i.force /\ ~i.live /\ i.layout}

(* Hash-based nodes: two parts.                                            *)
TwoPartInvocations == {i \in GoodInvocations : ~i.state /\ ~i.triedb}

TwoPartNew       == {i \in TwoPartInvocations : ~i.overwrite}
TwoPartOverwrite == {i \in TwoPartInvocations : i.overwrite}

=============================================================================
