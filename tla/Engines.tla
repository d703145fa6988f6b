------------------------------- MODULE Engines -------------------------------
(***************************************************************************)
(* The engine of the app that create_app makes (l0_draft_engine/app.py): one *)
(* that runs the models in its own process, or one that has a browser do the *)
(* work.  Both have sessions, health and close; the lifespan prepares the    *)
(* second before it serves, and closes either.                             *)
(***************************************************************************)
EXTENDS ModelResidency, Sequences

CONSTANTS Callers, Startup, Enhancers, MaxStarts, MaxPipe, Deadline

VARIABLES
  runtime,     (* settings.inference_runtime                                *)
  process, prepared, responses, started, alive, deaf, asked, proved, lock, stage,
  left, checked, outcome

Rpc == INSTANCE BrowserRpc

ASSUME EnginesAssumption == Rpc!RpcAssumption

modelVars == <<active, timerVars, loaded, unloading, gpu, pc, rejected>>
browserVars == <<process, prepared, responses, started, alive, deaf, asked, proved, lock,
                 stage, left, checked, outcome>>
enginesVars == <<vars, browserVars, runtime>>
rpcVars == Rpc!vars

InBrowser == runtime = "c-denoise-webgpu"

EnginesInit ==
  /\ Init /\ Rpc!Init
  /\ runtime \in {"legacy", "c-denoise-webgpu"}

EnginesNext ==
  /\ \/ ~InBrowser /\ Next /\ UNCHANGED browserVars
     \/ InBrowser /\ Rpc!Next /\ UNCHANGED modelVars
  /\ UNCHANGED runtime

EnginesSpec == EnginesInit /\ [][EnginesNext]_enginesVars

EnginesFairSpec ==
  /\ EnginesSpec
  /\ WF_vars(Expire) /\ WF_vars(UnloadModels)
  /\ WF_rpcVars(Rpc!Tick) /\ WF_rpcVars(Rpc!HolderGoesOn)

----------------------------------------------------------------------------
(* Properties; BrowserRpc says what those of the browser mean.              *)

EnginesTypeOK == TypeOK /\ Rpc!TypeOK

OwnAnswers == Rpc!OwnAnswers
WorkOnProved == Rpc!WorkOnProved
NoneLeftBehind == Rpc!NoneLeftBehind
LockComesBack == Rpc!LockComesBack

=============================================================================
