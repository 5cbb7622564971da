----------------------------- MODULE MCMediaWorker -----------------------------
(***************************************************************************)
(* A premium call, the lifecycle of a call, the drain of a worker and the  *)
(* playback of a call share no state.  One run checks them all: `part` is  *)
(* the one that moves in a behaviour, and the others stay as they begin,   *)
(* where nothing that fairness speaks of is enabled in them.               *)
(***************************************************************************)
EXTENDS PremiumCall, PremiumPlayback, CallLifecycle, WorkerDrain

VARIABLE part

allVars == <<part, premiumVars, playbackVars, lifecycleVars, drainVars>>
Parts == {"premium", "playback", "lifecycle", "drain"}

MediaInit ==
  /\ part \in Parts
  /\ PremiumInit /\ PlaybackInit /\ LifecycleInit /\ DrainInit
  \* The path of the call matters to its lifecycle only.
  /\ part # "lifecycle" => Premium

MediaNext ==
  /\ UNCHANGED part
  /\ \/ part = "premium" /\ PremiumNext /\ UNCHANGED <<playbackVars, lifecycleVars, drainVars>>
     \/ part = "playback" /\ PlaybackNext /\ UNCHANGED <<premiumVars, lifecycleVars, drainVars>>
     \/ part = "lifecycle" /\ LifecycleNext /\ UNCHANGED <<premiumVars, playbackVars, drainVars>>
     \/ part = "drain" /\ DrainNext /\ UNCHANGED <<premiumVars, playbackVars, lifecycleVars>>

MediaSpec ==
  MediaInit /\ [][MediaNext]_allVars /\ PremiumFairness /\ LifecycleFairness /\ DrainFairness

PartsTypeOK == PremiumTypeOK /\ PlaybackTypeOK /\ LifecycleTypeOK /\ DrainTypeOK
=============================================================================
