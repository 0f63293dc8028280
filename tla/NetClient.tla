------------------------------- MODULE NetClient -------------------------------
(* A client: the inputs of one entity it steers (Prediction) and the replicated *)
(* entities in its world (ClientWorld).                                         *)
EXTENDS Prediction, ClientWorld

CONSTANT Both   \* bound: whether inputs and the world's entities move in the same behaviour

ASSUME NetClientAssumption == Both \in BOOLEAN

netClientVars == <<vars, worldVars>>

NetClientInit == Init /\ WorldInit

InputStep == (Both \/ WorldInit) /\ Next /\ UNCHANGED worldVars
WorldStep(Step) == (Both \/ Init) /\ Step /\ UNCHANGED vars

NetClientNext == InputStep \/ WorldStep(WorldNext)

\* Snapshots keep coming, every frame interpolates and every fixed step predicts.
NetClientSpec ==
  /\ NetClientInit /\ [][NetClientNext]_netClientVars
  /\ WF_netClientVars(WorldStep(TakeSnapshot(Newest)))
  /\ WF_netClientVars(WorldStep(Interpolate(Len(ahead))))
  /\ WF_netClientVars(WorldStep(Predict))
================================================================================
