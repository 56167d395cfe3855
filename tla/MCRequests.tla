---------------------------- MODULE MCRequests -----------------------------
(* One enumeration of what happens to requests before the store sees them: *)
(* their shapes (Gate), the blobs and texts an invite create carries       *)
(* (Base64), and their rate (RateLimiter).  The three share no state; one  *)
(* moves while the others are where they began.                            *)
EXTENDS Gate, Base64, RateLimiter

requestVars == <<gateVars, codecVars, limiterVars>>

RequestsInit == GateInit /\ CodecInit /\ LimiterInit

GateIdle == request = NoRequest /\ ~bearer
CodecIdle == bytes = <<>> /\ text = <<>>
LimiterIdle == PushInit

AnyRequest == CodecIdle /\ LimiterIdle /\ GateNext /\ UNCHANGED <<codecVars, limiterVars>>
AnyBlob == GateIdle /\ LimiterIdle /\ CodecNext /\ UNCHANGED <<gateVars, limiterVars>>
AnyRate == GateIdle /\ CodecIdle /\ LimiterNext /\ UNCHANGED <<gateVars, codecVars>>

RequestsSpec == RequestsInit /\ [][AnyRequest \/ AnyBlob \/ AnyRate]_requestVars
=============================================================================
