---------------------------- MODULE MCApiRequest ----------------------------
(* The TLC run of ApiRequest: MCApiRequest.cfg names the requests.  There is *)
(* no symmetry set, because the run checks a liveness property.              *)
EXTENDS ApiRequest
=============================================================================
