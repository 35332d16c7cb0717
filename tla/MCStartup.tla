------------------------------ MODULE MCStartup ------------------------------
(* Small instances of Startup for TLC.                                         *)
EXTENDS Startup, TLC

CONSTANTS w1, w2

Config(wait, deliver, pending) ==
    "ack_wait" :> wait @@ "max_deliver" :> deliver @@ "max_ack_pending" :> pending

(* The second build lowers the delivery budget and has a smaller pool.         *)
TwoBuilds == 0 :> Config(600, 5, 4) @@ 1 :> Config(600, 3, 2)

(* A durable of a build before both, with a deliver subject of its own.        *)
Leftover == Config(120, 5, 1000) @@ "other" :> 7
===============================================================================
