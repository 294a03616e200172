----------------------------- MODULE MCServices -----------------------------
(***************************************************************************)
(* The services around a task, each on an instance of its own and one at a *)
(* time: they share no variable, and what one needs of another is part of  *)
(* its own model.  focus names the one whose behaviours are explored.      *)
(***************************************************************************)
EXTENDS WorkerQueue, TaskWaits, ChildRuns, EventWrites, EventStream, TurnClose, BrowserControl,
        HomeOwner

CONSTANT Services

VARIABLE focus

MCKeyOf == [j \in Job |-> IF j < 3 THEN 1 ELSE j - 1]
MCCallerOf == [c \in Call |-> c]
MCTurnOf == [s \in Stream |-> IF s = "answer_b" THEN "b" ELSE "a"]
MCMaxEmits == [p \in Producer |-> IF p = "a" THEN 3 ELSE 1]
MCTokenOf == [p \in Poll |-> p]

allVars == <<queueVars, waitVars, kidVars, writesVars, streamVars, closeVars, controlVars,
             homeVars>>

ServicesInit ==
  /\ focus \in Services
  /\ QueueInit /\ WaitsInit /\ KidsInit /\ WritesInit /\ StreamInit /\ CloseInit /\ ControlInit
  /\ HomeInit

(* A is a step of the service in focus, the others rest.                   *)
InQueue(A) == focus = "queue" /\ A /\ UNCHANGED <<focus, waitVars, kidVars, writesVars, streamVars, closeVars, controlVars, homeVars>>
InWaits(A) == focus = "waits" /\ A /\ UNCHANGED <<focus, queueVars, kidVars, writesVars, streamVars, closeVars, controlVars, homeVars>>
InKids(A) == focus = "kids" /\ A /\ UNCHANGED <<focus, queueVars, waitVars, writesVars, streamVars, closeVars, controlVars, homeVars>>
InWrites(A) == focus = "writes" /\ A /\ UNCHANGED <<focus, queueVars, waitVars, kidVars, streamVars, closeVars, controlVars, homeVars>>
InStream(A) == focus = "stream" /\ A /\ UNCHANGED <<focus, queueVars, waitVars, kidVars, writesVars, closeVars, controlVars, homeVars>>
InClose(A) == focus = "close" /\ A /\ UNCHANGED <<focus, queueVars, waitVars, kidVars, writesVars, streamVars, controlVars, homeVars>>
InControl(A) == focus = "control" /\ A /\ UNCHANGED <<focus, queueVars, waitVars, kidVars, writesVars, streamVars, closeVars, homeVars>>
InHome(A) == focus = "home" /\ A /\ UNCHANGED <<focus, queueVars, waitVars, kidVars, writesVars, streamVars, closeVars, controlVars>>

ServicesNext ==
  \/ InQueue(QueueNext) \/ InWaits(WaitsNext) \/ InKids(KidsNext) \/ InWrites(WritesNext)
  \/ InStream(StreamNext) \/ InClose(CloseNext) \/ InControl(ControlNext) \/ InHome(HomeNext)

(* The fairness of each service, for the one that is in focus.             *)
ServicesProgress ==
  \/ InQueue(QueueProgress) \/ InWaits(WaitsProgress) \/ InWrites(WritesProgress)
  \/ InStream(StreamProgress) \/ InClose(CloseProgress)

servicesVars == <<focus, allVars>>

ServicesSpec ==
  /\ ServicesInit /\ [][ServicesNext]_servicesVars
  /\ WF_servicesVars(ServicesProgress) /\ SF_servicesVars(InWaits(RecoverWaits))

ServicesTypeOK ==
  QueueTypeOK /\ WaitsTypeOK /\ KidsTypeOK /\ WritesTypeOK /\ StreamTypeOK /\ CloseTypeOK /\ ControlTypeOK
  /\ HomeTypeOK
=============================================================================
