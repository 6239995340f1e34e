--------------------------------- MODULE MCServer ---------------------------------
(* Values of the constants of ApiServer for TLC: those of its requests.    *)
EXTENDS ApiServer, MCRequests
=============================================================================
