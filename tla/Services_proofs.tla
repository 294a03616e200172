-------------------------- MODULE Services_proofs --------------------------
(***************************************************************************)
(* The composition that the run of the services explores has the type      *)
(* invariants of all of them: a step of one is a step of its own           *)
(* specification and a stutter of the others.                              *)
(***************************************************************************)
EXTENDS MCServices, Delegation_proofs, Queues_proofs, Events_proofs, ServerLife_proofs

ServicesInv ==
  /\ QueueTypeOK /\ WaitInv /\ KidsTypeOK /\ WritesInv /\ StreamInv /\ CloseTypeOK /\ ControlInv
  /\ OwnerInv

EachSteps ==
  /\ [QueueNext]_queueVars /\ [WaitsNext]_waitVars /\ [KidsNext]_kidVars /\ [WritesNext]_writesVars
  /\ [StreamNext]_streamVars /\ [CloseNext]_closeVars /\ [ControlNext]_controlVars /\ [HomeNext]_homeVars

LEMMA StepsAreLocal == [ServicesNext]_servicesVars => EachSteps
  <1> SUFFICES ASSUME [ServicesNext]_servicesVars PROVE EachSteps
    OBVIOUS
  <1>1. CASE UNCHANGED servicesVars
    BY <1>1 DEF servicesVars, allVars, EachSteps
  <1>2. CASE ServicesNext
    BY <1>2 DEF ServicesNext, EachSteps, InQueue, InWaits, InKids, InWrites, InStream, InClose, InControl, InHome
  <1> QED BY <1>1, <1>2

LEMMA ServicesStart == ServicesInit => ServicesInv
  <1>1. QueueInit => QueueTypeOK
    BY QueueStart DEF QueueInv
  <1>2. CloseInit => CloseTypeOK
    BY DEF CloseInit, CloseTypeOK, Send
  <1> QED BY <1>1, <1>2, WaitInit, KidsTypeInit, WritesInitial, StreamInitial, ControlInitInv, OwnerInit
          DEF ServicesInit, ServicesInv

(* Memory and tables of every service keep their types, whatever the       *)
(* number of jobs, tasks, turns, clients, requests and launches.           *)
THEOREM ServicesTypeCorrect == ServicesSpec => []ServicesTypeOK
  <1>1. ServicesInv /\ EachSteps => ServicesInv'
    BY QueueTypeStep, WaitStep, KidsTypeStep, WritesStep, StreamStep, CloseTypeStep, ControlStep, OwnerStep
       DEF ServicesInv, EachSteps
  <1>2. ServicesInv => ServicesTypeOK
    BY DEF ServicesInv, ServicesTypeOK, WaitInv, WritesInv, StreamInv, ControlInv, OwnerInv
  <1> QED BY <1>1, <1>2, ServicesStart, StepsAreLocal, PTL DEF ServicesSpec
=============================================================================
