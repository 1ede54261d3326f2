------------------------------- MODULE MojoDemos -------------------------------
(***************************************************************************)
(* The demos of processes that call each other, side by side: one of those *)
(* of MojoCalls, or the broker of ChildProcess.                            *)
(***************************************************************************)
EXTENDS MojoCalls, ChildProcess

mojoVars == <<callVars, childVars>>

MojoInit ==
  /\ demo \in CallDemos \cup {"child_process"}
  /\ CallsInit /\ ChildInit

MojoNext ==
  \/ CallsNext /\ UNCHANGED childVars
  \/ demo = "child_process" /\ ChildNext /\ UNCHANGED callVars

MojoSpec     == MojoInit /\ [][MojoNext]_mojoVars
FairMojoSpec == MojoSpec /\ CallsFairness
                 /\ (demo = "child_process" => ChildFairness)
===============================================================================
