---------------------------- MODULE MCPredictor ----------------------------
(* Predictor on three keys: one read often enough for its weight to reach  *)
(* its ceiling, the others a few times each, in every order.               *)
EXTENDS Predictor

CONSTANTS hot, warm, cold

MCKeys == {hot, warm, cold}

MCMaxReads == (hot :> 30) @@ (warm :> 3) @@ (cold :> 2)
=============================================================================
