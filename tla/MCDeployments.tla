---------------------------- MODULE MCDeployments ----------------------------
(***************************************************************************)
(* Small instances of Deployments: one chat, deployments and jobs          *)
(* numbered, the first jobs of a deployment being its plan and its apply.  *)
(***************************************************************************)
EXTENDS Deployments, TLC

CONSTANTS c1, w1, w2

(* One chat, two deployments: a plan, an apply and a teardown each. *)
TwoDeps == 1..2
OneChat == [d \in TwoDeps |-> c1]
SixJobs == 1..6
ThreeEach == [j \in SixJobs |-> IF j <= 3 THEN 1 ELSE 2]

(* One deployment: a plan, an apply and two teardowns. *)
OneDep == {1}
Alone == [d \in OneDep |-> c1]
FourJobs == 1..4
AllOne == [j \in FourJobs |-> 1]

(* Two deployments; the second has no job for its teardown, so it is planned *)
(* and, unless Teardown is FALSE, never approved.                            *)
FiveJobs == 1..5
ThreeAndTwo == [j \in FiveJobs |-> IF j <= 3 THEN 1 ELSE 2]

WorkerSymmetry == Permutations(Workers)
===============================================================================
