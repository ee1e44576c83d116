---------------------------- MODULE MCGovernance ----------------------------
(***************************************************************************)
(* Instances of Governance.  halt and resume are the mint kill-switch;     *)
(* fee raises the fee rate; lower and low tighten the cap on a mint;       *)
(* hidden is a batch of a tightening and a new burn rate; broken is a      *)
(* corridor whose floor is over its target.                                *)
(***************************************************************************)
EXTENDS Governance, TLC

CONSTANTS halt, resume, fee, lower, low, hidden, broken

Set(p, v) == [param |-> p, value |-> v]

MCSettings == [u \in Update |->
    CASE u = halt -> <<Set("mint_enabled", <<0>>)>>
      [] u = resume -> <<Set("mint_enabled", <<1>>)>>
      [] u = fee -> <<Set("fee_rate", <<3>>)>>
      [] u = lower -> <<Set("max_mint", <<2>>)>>
      [] u = low -> <<Set("max_mint", <<1>>)>>
      [] u = hidden -> <<Set("max_mint", <<2>>), Set("burn_rate", <<5000>>)>>
      [] u = broken -> <<Set("corridor", <<4, 3, 2>>)>>]

MCInitialCfg == [p \in Param |->
    CASE p = "mint_enabled" -> <<1>>
      [] p = "max_mint" -> <<3>>
      [] p = "corridor" -> <<4, 0, 4>>
      [] OTHER -> <<0>>]

MCDuration == <<1, 2, 2>>

TaskSymmetry == Permutations(Task)
=============================================================================
