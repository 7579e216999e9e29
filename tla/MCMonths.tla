------------------------------ MODULE MCMonths ------------------------------
(* Two wallet connections, and the services of docker-compose.yml: the API runs *)
(* schema.sql before it starts, rtp-worker before it starts and in its main().  *)
EXTENDS Months, TLC

CONSTANTS w1, w2, api, rtpworker

Compose == (w1 :> 2) @@ (w2 :> 1) @@ (api :> 1) @@ (rtpworker :> 2)
StartsOnly == (api :> 1) @@ (rtpworker :> 2)

=============================================================================
