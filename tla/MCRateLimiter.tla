---------------------------- MODULE MCRateLimiter ----------------------------
(* Instance of RateLimiter for TLC: two policies of different width.       *)
EXTENDS RateLimiter, TLC

CONSTANTS wide, narrow

MCLimit == wide :> 2 @@ narrow :> 1
MCWindow == wide :> 2 @@ narrow :> 1
=============================================================================
