--------------------------------- MODULE MCTeleop ---------------------------------
(* A motion, a mode, a modifier and a key without a character. *)
EXTENDS Teleop
MCKeys == {"w", "2", "shift", "fn"}
MCShifted == ("w" :> "W") @@ ("2" :> "@")
MCKeyCode == ("2" :> 3) @@ ("w" :> 17) @@ ("shift" :> 42) @@ ("fn" :> 464)
=============================================================================
