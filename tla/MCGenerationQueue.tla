-------------------------- MODULE MCGenerationQueue ---------------------------
(***************************************************************************)
(* The instance TLC checks: two submissions of one brief (s1, s2), which   *)
(* may race, and in the larger instance a third of another brief; two      *)
(* worker slots, so that a job can be in the hands of two coroutines.      *)
(***************************************************************************)
EXTENDS GenerationQueue, TLC

CONSTANTS s1, s2, s3, w1, w2

OneBrief == s1 :> "k1" @@ s2 :> "k1"
TwoBriefs == s1 :> "k1" @@ s2 :> "k1" @@ s3 :> "k2"

WorkerSymmetry == Permutations({w1, w2})
===============================================================================
