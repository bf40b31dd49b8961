----------------------------- MODULE MCTpuLaunch -----------------------------
(***************************************************************************)
(* Two calls: a training after a training, which may leave its files, its  *)
(* log and its ranks behind, or after a diagnostic stage, whose silence is *)
(* limited and which leaves its log and its ranks.                         *)
(***************************************************************************)
EXTENDS TpuLaunch

MCPlans == {<<"model_preflight", "train">>, <<"train", "train">>}
=============================================================================
