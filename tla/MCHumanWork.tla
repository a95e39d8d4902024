------------------------------ MODULE MCHumanWork ------------------------------
(***************************************************************************)
(* The two local servers and what people write through them, on small      *)
(* instances: the decisions of one run; the server of that run and the     *)
(* commands of one operator; the Workbench of one Matter with its commands *)
(* (two operators) or its mutations (two clients).                         *)
(***************************************************************************)
EXTENDS HumanDecision, ServerLifecycle, Workbench, TLC

CONSTANT o1  \* the operator beside the clients

\* "rev-" and "rev" have the same file name.
OneName == [r \in Reviewers |-> 1]
Symmetry == Permutations(Packets) \cup Permutations(Writers) \cup Permutations(Servers)

VARIABLE focus
MCInit ==
    /\ focus \in {"decisions", "review server", "commands", "mutations"}
    /\ Init /\ ServerInit /\ WorkbenchInit
    /\ focus # "decisions" =>
          \A w \in Writers : writer[w].packet = packet /\ writer[w].reviewer = 1
MCNext ==
    /\ UNCHANGED focus
    /\ \/ focus = "decisions" /\ Next /\ UNCHANGED <<serverVars, workbenchVars>>
       \/ focus = "review server" /\ ServerNext /\ UNCHANGED <<vars, workbenchVars>>
       \/ /\ focus \in {"commands", "mutations"}
          /\ \/ \E p \in Processes : ProcessStep(p)
             \/ \E o \in Operators : (focus = "commands" \/ o = o1) /\ OperatorStep(o)
             \/ focus = "mutations" /\ \E c \in Clients : ClientStep(c)
          /\ UNCHANGED <<vars, serverVars>>
MCSpec == MCInit /\ [][MCNext]_<<focus, vars, serverVars, workbenchVars>>
================================================================================
