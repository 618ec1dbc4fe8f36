----------------------------- MODULE Endpoints -----------------------------
(***************************************************************************)
(* One call that has passed the middleware (module Admission), on either   *)
(* of the two paths a call can take: the render pipeline with the logo it  *)
(* fetches, or the decoder.  They share no state; handlers of the other    *)
(* kind answer at once.                                                    *)
(***************************************************************************)
EXTENDS Pipeline, Decoder

VARIABLE serves           \* which of the two this call is

callVars == <<serves, vars, decoderVars>>

CallInit ==
  \/ serves = "render" /\ upload = (CHOOSE u \in Uploads : TRUE) /\ Init /\ DecoderInit
  \/ serves = "decode" /\ msg = (CHOOSE m \in Messages : TRUE) /\ DecoderInit /\ Init

RenderCall == serves = "render" /\ Step /\ UNCHANGED <<serves, decoderVars>>
DecodeCall == serves = "decode" /\ DecoderStep /\ UNCHANGED <<serves, vars>>
Elsewhere ==
  \/ serves = "render" /\ (Expire \/ RebindName) /\ UNCHANGED <<serves, decoderVars>>
  \/ serves = "decode" /\ Cancel /\ UNCHANGED <<serves, vars>>

CallNext == RenderCall \/ DecodeCall \/ Elsewhere
CallSpec == CallInit /\ [][CallNext]_callVars /\ WF_callVars(RenderCall \/ DecodeCall)

\* Every call is answered, however the resolver, the fetched host, the client
\* and the codes in an upload behave: nothing on either path waits for anything
\* but the next of finitely many bounded steps (pipeline, Fetch, walk).
CallAnswered == <>(IF serves = "render" THEN phase = "done" ELSE at = "answered")

\* The types of the pipeline, of its fetch and of the decoder.
TypesOK == PipelineTypeOK /\ FetchTypeOK /\ DecoderTypeOK
=============================================================================
